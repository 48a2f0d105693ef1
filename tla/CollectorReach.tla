-------------------------- MODULE CollectorReach ---------------------------
(***************************************************************************)
(* What the collector does agrees with what the roots lead to: a weak      *)
(* table loses an entry only if its key or its value is not reachable, and *)
(* Vm::collect leaves nothing but what is.                                 *)
(***************************************************************************)
EXTENDS CollectorSafety, WellFoundedInduction

\* The leaves are proved by Zenon unless they cite another prover.
USE Zenon

-----------------------------------------------------------------------------
(* Reachability.                                                           *)

\* Induction over the natural numbers, for a set.
LEMMA FromZero ==
    ASSUME NEW T, 0 \in T, \A n \in Nat : n \in T => n + 1 \in T
    PROVE  \A n \in Nat : n \in T
  <1> SUFFICES ASSUME NEW k \in Nat \ T PROVE FALSE
    OBVIOUS
  <1>1. PICK x \in Nat \ T : \A y \in Nat \ T : ~(<<y, x>> \in OpToRel(<, Nat))
    BY NatLessThanWellFounded, WFMin
  <1>2. \A y \in Nat \ T : ~(y < x)
    BY <1>1 DEF OpToRel
  <1>3. x # 0 => x - 1 \in Nat /\ x - 1 < x /\ x = (x - 1) + 1
    BY SMT
  <1>4. x # 0 => x - 1 \in T
    BY <1>2, <1>3
  <1> QED
    BY <1>3, <1>4

\* f[k] is what k steps from the roots reach, up to n steps.
IsReach(n, f) == f = [k \in 0 .. n |-> IF k = 0 THEN Roots ELSE ReachStep(f[k - 1])]

\* The arithmetic of the numbers up to n.
LEMMA Predecessors ==
    ASSUME NEW n \in Nat
    PROVE  /\ 0 \in 0 .. n /\ n + 1 \in 0 .. (n + 1) /\ n + 1 # 0 /\ (n + 1) - 1 = n /\ n \in 0 .. n
           /\ 0 .. n \subseteq 0 .. (n + 1)
           /\ \A k \in 0 .. (n + 1) : k = n + 1 \/ k \in 0 .. n
           /\ \A k \in 0 .. n : k # n + 1
           /\ \A k \in 0 .. n : k # 0 => k - 1 \in 0 .. n
           /\ \A k \in 0 .. (n + 1) : k # 0 => k - 1 \in 0 .. n
  BY SMT

\* There is such a function, for every number of steps.
LEMMA ReachExists == \A n \in Nat : \E f : IsReach(n, f)
  <1> DEFINE T == {n \in Nat : \E f : IsReach(n, f)}
  <1>1. 0 \in T
    <2> DEFINE f == [k \in 0 .. 0 |-> Roots]
    <2>1. \A k \in 0 .. 0 : k = 0
      BY SMT
    <2>2. f = [k \in 0 .. 0 |-> IF k = 0 THEN Roots ELSE ReachStep(f[k - 1])]
      BY <2>1
    <2>3. 0 \in Nat
      BY SMT
    <2> QED
      BY <2>2, <2>3 DEF IsReach
  <1>2. ASSUME NEW n \in Nat, n \in T PROVE n + 1 \in T
    <2>1. PICK f : IsReach(n, f)
      BY <1>2
    <2> DEFINE g == [k \in 0 .. (n + 1) |-> IF k = n + 1 THEN ReachStep(f[n]) ELSE f[k]]
    <2>2. \A k \in 0 .. n : f[k] = IF k = 0 THEN Roots ELSE ReachStep(f[k - 1])
      BY <2>1 DEF IsReach
    <2>3. \A k \in 0 .. n : g[k] = f[k]
      BY Predecessors
    <2>4. g[n + 1] = ReachStep(f[n])
      BY Predecessors
    <2>5. \A k \in 0 .. (n + 1) : g[k] = IF k = 0 THEN Roots ELSE ReachStep(g[k - 1])
      <3> TAKE k \in 0 .. (n + 1)
      <3> HIDE DEF g
      <3>1. CASE k = n + 1
        BY <2>3, <2>4, <3>1, Predecessors
      <3>2. CASE k \in 0 .. n
        BY <2>2, <2>3, <3>2, Predecessors
      <3> QED
        BY <3>1, <3>2, Predecessors
    <2>6. IsReach(n + 1, g)
      BY <2>5 DEF IsReach
    <2>7. n + 1 \in Nat
      BY SMT
    <2> QED
      BY <2>6, <2>7
  <1> HIDE DEF T
  <1>3. \A n \in Nat : n \in T
    BY <1>1, <1>2, FromZero
  <1> QED
    BY <1>3 DEF T

\* What is reachable is what NSlots steps reach.
LEMMA ReachableChain ==
    \E r : /\ \A k \in 0 .. NSlots : r[k] = IF k = 0 THEN Roots ELSE ReachStep(r[k - 1])
           /\ Reachable = r[NSlots]
  <1> DEFINE r == CHOOSE f : IsReach(NSlots, f)
  <1>1. IsReach(NSlots, r)
    BY ConstAssumption, ReachExists
  <1>2. Reachable = r[NSlots]
    BY DEF Reachable, IsReach
  <1> HIDE DEF r
  <1>3. \A k \in 0 .. NSlots : r[k] = IF k = 0 THEN Roots ELSE ReachStep(r[k - 1])
    BY <1>1 DEF IsReach
  <1> QED
    BY <1>2, <1>3

\* How a step gets to x.
LEMMA ReachCases ==
    ASSUME NEW R, NEW x \in ReachStep(R)
    PROVE  \/ x \in R
           \/ \E s \in R : x \in StrongChildren(s)
           \/ x # None /\ \E s \in R : \E p \in pairs[s] : IsString(p[1]) /\ x = p[1]
           \/ x # None /\ \E s \in R : /\ wmode[s] = "keys"
                                       /\ \E p \in pairs[s] : /\ IsObject(p[1]) => p[1] \in R
                                                              /\ x = p[2]
  <1>1. CASE x \in UNION {KeysOf({p \in pairs[s] : IsString(p[1])}) : s \in R}
    <2>1. PICK s \in R : x \in KeysOf({p \in pairs[s] : IsString(p[1])})
      BY <1>1
    <2>2. x # None /\ \E p \in pairs[s] : IsString(p[1]) /\ x = p[1]
      BY <2>1 DEF KeysOf
    <2> QED
      BY <2>2
  <1>2. CASE x \in UNION {ValuesOf({p \in pairs[s] : IsObject(p[1]) => p[1] \in R}) :
                             s \in {t \in R : wmode[t] = "keys"}}
    <2>1. PICK s \in R : /\ wmode[s] = "keys"
                         /\ x \in ValuesOf({p \in pairs[s] : IsObject(p[1]) => p[1] \in R})
      BY <1>2
    <2>2. x # None /\ \E p \in pairs[s] : (IsObject(p[1]) => p[1] \in R) /\ x = p[2]
      BY <2>1 DEF ValuesOf
    <2> QED
      BY <2>1, <2>2
  <1>3. CASE x \in UNION {StrongChildren(s) : s \in R}
    BY <1>3
  <1>4. \/ x \in R \/ x \in UNION {StrongChildren(s) : s \in R}
        \/ x \in UNION {KeysOf({p \in pairs[s] : IsString(p[1])}) : s \in R}
        \/ x \in UNION {ValuesOf({p \in pairs[s] : IsObject(p[1]) => p[1] \in R}) :
                            s \in {t \in R : wmode[t] = "keys"}}
    BY DEF ReachStep
  <1> QED
    BY <1>1, <1>2, <1>3, <1>4

\* The objects of an entry are among the references of its table.
LEMMA PairChildren ==
    \A s : \A p \in pairs[s] : \A x \in {p[1], p[2]} : x # None => x \in Children(s)
  BY DEF Children, ChildrenIn, KeysOf, ValuesOf

\* What a step from R reaches are references of R.
LEMMA StepsToChildren ==
    ASSUME TypeOK, NEW R \in SUBSET Slots, NEW x \in ReachStep(R), x \notin R
    PROVE  \E s \in R : x \in Children(s)
  <1>1. CASE \E s \in R : x \in StrongChildren(s)
    BY <1>1, StrongSub
  <1>2. CASE x # None /\ \E s \in R : \E p \in pairs[s] : IsString(p[1]) /\ x = p[1]
    <2>1. PICK s \in R : \E p \in pairs[s] : IsString(p[1]) /\ x = p[1]
      BY <1>2
    <2>2. PICK p \in pairs[s] : x = p[1]
      BY <2>1
    <2> QED
      BY <1>2, <2>2, PairChildren
  <1>3. CASE x # None /\ \E s \in R : /\ wmode[s] = "keys"
                                      /\ \E p \in pairs[s] : /\ IsObject(p[1]) => p[1] \in R
                                                             /\ x = p[2]
    <2>1. PICK s \in R : \E p \in pairs[s] : (IsObject(p[1]) => p[1] \in R) /\ x = p[2]
      BY <1>3
    <2>2. PICK p \in pairs[s] : x = p[2]
      BY <2>1
    <2> QED
      BY <1>3, <2>2, PairChildren
  <1> QED
    BY <1>1, <1>2, <1>3, ReachCases

\* No reference that keeps something alive leaves G.
Closed(G) ==
    \A s \in G :
        /\ StrongChildren(s) \subseteq G
        /\ \A p \in pairs[s] :
              /\ IsString(p[1]) => p[1] \in G
              /\ wmode[s] = "keys" /\ (IsObject(p[1]) => p[1] \in G) /\ p[2] # None => p[2] \in G

\* A step from within a closed set stays within it.
LEMMA ClosedSteps ==
    ASSUME NEW G, Closed(G), NEW R \in SUBSET G, NEW x \in ReachStep(R)
    PROVE  x \in G
  <1>1. CASE \E s \in R : x \in StrongChildren(s)
    BY <1>1 DEF Closed
  <1>2. CASE x # None /\ \E s \in R : \E p \in pairs[s] : IsString(p[1]) /\ x = p[1]
    BY <1>2 DEF Closed
  <1>3. CASE x # None /\ \E s \in R : /\ wmode[s] = "keys"
                                      /\ \E p \in pairs[s] : /\ IsObject(p[1]) => p[1] \in R
                                                             /\ x = p[2]
    BY <1>3 DEF Closed
  <1> QED
    BY <1>1, <1>2, <1>3, ReachCases

\* A closed set that holds the roots holds what is reachable.
LEMMA ReachableWithin ==
    ASSUME NEW G, Roots \subseteq G, Closed(G)
    PROVE  Reachable \subseteq G
  <1>0. NSlots \in Nat
    BY ConstAssumption
  <1>1. PICK r : /\ \A k \in 0 .. NSlots : r[k] = IF k = 0 THEN Roots ELSE ReachStep(r[k - 1])
                 /\ Reachable = r[NSlots]
    BY ReachableChain
  <1>2. \A R \in SUBSET G : ReachStep(R) \subseteq G
    BY ClosedSteps
  <1> DEFINE T == {n \in Nat : n \in 0 .. NSlots => r[n] \subseteq G}
  <1>3. 0 \in T
    BY <1>0, <1>1, Predecessors
  <1>4. ASSUME NEW n \in Nat, n \in T PROVE n + 1 \in T
    <2>1. n + 1 \in Nat /\ n + 1 # 0 /\ (n + 1) - 1 = n
      BY SMT
    <2>2. n + 1 \in 0 .. NSlots => n \in 0 .. NSlots
      BY <1>0, SMT
    <2> QED
      BY <1>1, <1>2, <1>4, <2>1, <2>2
  <1> HIDE DEF T
  <1>5. NSlots \in T
    BY <1>0, <1>3, <1>4, FromZero
  <1>6. r[NSlots] \subseteq G
    BY <1>0, <1>5, Predecessors DEF T
  <1> QED
    BY <1>1, <1>6

\* Live objects only refer to live objects.
LEMMA LiveIsClosed == IInv => Roots \subseteq Live /\ Closed(Live)
  <1> SUFFICES ASSUME IInv PROVE Roots \subseteq Live /\ Closed(Live)
    OBVIOUS
  <1>1. /\ TypeOK /\ Live \subseteq Slots /\ Roots \subseteq Live
        /\ \A s \in Live : Children(s) \subseteq Live
    BY LiveShape DEF IInv, NoDangling
  <1>2. \A s \in Live : StrongChildren(s) \subseteq Live
    BY <1>1, StrongSub
  <1>3. \A s \in Live : \A p \in pairs[s] : \A x \in {p[1], p[2]} : x # None => x \in Live
    BY <1>1, PairChildren
  <1> QED
    BY <1>1, <1>2, <1>3 DEF Closed, IsString

\* When tracing is done, what a marked table keeps alive by itself is marked,
\* even if a minor cycle did not trace the table,
LEMMA TracedMarks ==
    ASSUME IInv, Traced, ~Sealed, NEW s \in Slots, Marked(s), NEW c \in StrongChildren(s)
    PROVE  c \in Slots /\ Marked(c)
  <1>1. TypeOK /\ Control /\ SlotShape /\ phase = "Atomic" /\ work = {}
    BY DEF IInv, Traced, ScanDone
  <1>2. s \in occ /\ c \in Slots
    BY <1>1, ChildTypes DEF occ, SlotShape, Marked
  <1>3. color[s] = "Black"
    BY <1>1 DEF IInv, WorkIsGray, TypeOK, MarkTypes, Colors, Marked
  <1>4. CASE ~Untraced(s)
    BY <1>1, <1>2, <1>3, <1>4 DEF IInv, TriColor
  <1>5. CASE Untraced(s)
    <2>1. mode # "Incremental"
      BY <1>1, <1>5 DEF Control, Untraced
    <2>2. c \in OldChildren
      BY <1>2, <1>5, <2>1 DEF OldChildren, Untraced, White, Marked
    <2> QED
      BY <1>2, <2>2 DEF Traced, Whites, White, Marked
  <1> QED
    BY <1>2, <1>4, <1>5

\* and so are the values of ephemerons with a live key.
LEMMA TracedValues ==
    ASSUME IInv, Traced, ~Sealed, NEW s \in Slots, Marked(s), wmode[s] = "keys",
           NEW p \in pairs[s], IsObject(p[1]) => Marked(p[1]), p[2] # None
    PROVE  p[2] \in Slots /\ Marked(p[2])
  <1>1. TypeOK /\ SlotShape /\ phase = "Atomic" /\ work = {}
    BY DEF IInv, Traced, ScanDone
  <1>2. s \in occ /\ s <= ephCur
    BY <1>1 DEF occ, SlotShape, Marked, Traced, ScanDone
  <1>3. p[2] \in Slots
    BY <1>1, PairChildren, Domains
  <1>4. Marked(p[2])
    BY <1>1, <1>2 DEF IInv, EphemeronsScanned
  <1> QED
    BY <1>3, <1>4

\* Then there is a closed set around the roots whose tables are all marked.
LEMMA TracedIsClosed ==
    ASSUME IInv, Traced
    PROVE  \E M \in SUBSET Slots : /\ Roots \subseteq M /\ Closed(M)
                                   /\ \A x \in M : IsObject(x) => Marked(x)
  <1>1. TypeOK /\ Control /\ SlotShape /\ phase = "Atomic"
    BY DEF IInv, Traced, ScanDone
  <1>2. CASE ~Sealed
    <2> DEFINE M == {s \in Slots : Marked(s) \/ IsString(s)}
    <2>1. Roots \subseteq M
      BY <1>1, Domains DEF IInv, RootsCovered
    <2>2. ASSUME NEW s \in M
          PROVE  /\ StrongChildren(s) \subseteq M
                 /\ \A p \in pairs[s] :
                       /\ IsString(p[1]) => p[1] \in M
                       /\ wmode[s] = "keys" /\ (IsObject(p[1]) => p[1] \in M) /\ p[2] # None => p[2] \in M
      <3>1. CASE Marked(s)
        <4>1. StrongChildren(s) \subseteq M
          BY <1>2, <3>1, TracedMarks
        <4>2. ASSUME NEW p \in pairs[s], IsString(p[1]) PROVE p[1] \in M
          BY <1>1, <4>2, PairChildren, Domains DEF IsString
        <4>3. ASSUME NEW p \in pairs[s], wmode[s] = "keys", IsObject(p[1]) => p[1] \in M, p[2] # None
              PROVE  p[2] \in M
          <5>1. IsObject(p[1]) => Marked(p[1])
            BY <4>3 DEF IsObject, IsString
          <5> QED
            BY <1>2, <3>1, <4>3, <5>1, TracedValues
        <4> HIDE DEF M
        <4> QED
          BY <4>1, <4>2, <4>3
      <3>2. CASE IsString(s)
        <4>1. pairs[s] = {} /\ Children(s) = {}
          BY <1>1, <3>2 DEF IsString, SlotShape, Children, ChildrenIn, KeysOf, ValuesOf
        <4>2. StrongChildren(s) = {}
          BY <1>1, <4>1, StrongSub
        <4> QED
          BY <4>1, <4>2
      <3> QED
        BY <3>1, <3>2
    <2>3. M \in SUBSET Slots /\ \A x \in M : IsObject(x) => Marked(x)
      BY DEF IsObject, IsString
    <2> HIDE DEF M
    <2>4. Closed(M)
      BY <2>2 DEF Closed
    <2> QED
      BY <2>1, <2>3, <2>4
  <1>3. CASE Sealed
    <2>1. Live \in SUBSET Slots /\ \A x \in Live : Marked(x)
      BY <1>1, <1>3, LiveShape
    <2> QED
      BY <2>1, LiveIsClosed
  <1> QED
    BY <1>2, <1>3

\* Before anything is cleared, every object that the roots lead to is marked.
LEMMA ReachableIsMarked ==
    ASSUME IInv, Traced, NEW x \in Reachable, IsObject(x)
    PROVE  ~White(x)
  BY TracedIsClosed, ReachableWithin DEF White, Marked

\* What the atomic step clears has a dead key or a dead value.
LEMMA ClearedIsDead ==
    ASSUME TypeOK, NEW s \in Slots, NEW p \in pairs[s],
           p \notin ClearedValues[s] \/ p \notin AfterValues[s] \/ p \notin FinalPairs[s]
    PROVE  DeadRef(p[1]) \/ DeadRef(p[2])
  <1>1. p \notin ClearedValues[s] => DeadRef(p[2])
    BY DEF ClearedValues
  <1>2. p \notin AfterValues[s] => DeadRef(p[2])
    BY <1>1 DEF AfterValues
  <1>3. p \notin FinalPairs[s] => p \notin AfterValues[s] \/ DeadRef(p[1])
    BY DEF FinalPairs, ClearedKeys
  <1> QED
    BY <1>1, <1>2, <1>3

\* In the atomic phase the barriers of a write find what they mark marked.
LEMMA BarrierIdles ==
    ASSUME IInv, phase = "Atomic", NEW S, S \subseteq RegObjects, Mark(S)
    PROVE  UNCHANGED color
  <1>1. \A s \in S : ~White(s)
    BY Domains DEF IInv, RootsCovered, Marked, White
  <1>2. color = [s \in Slots |-> color[s]]
    BY DEF IInv, TypeOK, MarkTypes
  <1>3. color' = [s \in Slots |-> color[s]]
    BY <1>1 DEF Mark
  <1> QED
    BY <1>2, <1>3

\* The steps that take entries out of tables in the atomic phase.
LEMMA ClearsDead ==
    ASSUME IInv, FreshIsYoungest, Next, phase = "Atomic",
           NEW s \in occ, NEW p \in pairs[s], p \notin pairs'[s]
    PROVE  \/ MutatorRuns /\ UNCHANGED color /\ UNCHANGED stage /\ s \in RegObjects
           \/ \E x \in {p[1], p[2]} : IsObject(x) /\ x \notin Reachable
  <1>1. TypeOK /\ s \in Slots /\ pairs' # pairs /\ phase = "Atomic"
    BY Domains DEF IInv
  <1>2. CASE GcStep
    <2>1. /\ Traced
          /\ pairs' = ClearedValues \/ pairs' = AfterValues \/ pairs' = FinalPairs
      BY <1>1, <1>2 DEF GcStep, objVars, StepBegins, CollectBegins, BeginCycle, MarkRoot,
         TraceRemembered, RootsMarked, Propagate, Propagated, AtomicResume, ScanEphemeron,
         RetraceOld, ClearWeakValues, Separate, ReserveCandidatesFails, RebuildRevives,
         RebuildFails, EnterSweep, FinishAtomic, Separated, ValuesCleared, SweepSlot, EndSweep
    <2>2. DeadRef(p[1]) \/ DeadRef(p[2])
      BY <1>1, <2>1, ClearedIsDead
    <2> QED
      BY <2>1, <2>2, ReachableIsMarked DEF DeadRef
  <1>3. CASE Mutator
    <2>1. CASE AllocateFails
      <3>1. fresh \in Slots /\ pairs[fresh] = {} /\ Reclaim(fresh)
        BY <1>1, <2>1 DEF AllocateFails, FreshIsYoungest, TypeOK, MutTypes
      <3> QED
        BY <1>1, <3>1, ReclaimFacts
    <2>2. CASE \E o \in Slots, k, v \in Slots \cup {None} : RawSet(o, k, v)
      <3>1. PICK o \in Slots, k \in Slots \cup {None}, v \in Slots \cup {None} : RawSet(o, k, v)
        BY <2>2
      <3> DEFINE rest == {q \in pairs[o] : q[1] # k}
                 newKey == IF rest = pairs[o] THEN k ELSE None
      <3>2. /\ MutatorRuns /\ o \in RegObjects /\ UNCHANGED stage
            /\ k \in RegObjects \cup {None} /\ v \in RegObjects \cup {None}
            /\ pairs' = [pairs EXCEPT ![o] = rest \cup {<<k, v>>}]
            /\ Mark(BarrierMarks(o, newKey, v))
        BY <3>1 DEF RawSet
      <3> HIDE DEF rest
      <3>3. BarrierMarks(o, newKey, v) \subseteq RegObjects
        BY <3>2 DEF BarrierMarks
      <3>4. UNCHANGED color
        BY <3>2, <3>3, BarrierIdles
      <3>5. s = o
        BY <1>1, <3>2 DEF TypeOK, ObjTypes
      <3> QED
        BY <3>2, <3>4, <3>5
    <2>3. CASE \E o \in RegObjects : \E q \in pairs[o] : RawClear(o, q)
      BY <1>1, <2>3 DEF RawClear, markVars, cycleVars, TypeOK, ObjTypes
    <2>4. CASE ~(\/ AllocateFails
                 \/ \E o \in Slots, k, v \in Slots \cup {None} : RawSet(o, k, v)
                 \/ \E o \in RegObjects : \E q \in pairs[o] : RawClear(o, q))
      BY <1>1, <1>3, <2>4 DEF Mutator, objVars, Load, DropRoot, Allocate, AllocateAndStep,
         Publish, AllocateReturns, WriteRef, ClearRef, SetWeakMode, RegisterFinalizer, SetGcMode,
         CollectCalled, CollectReturns
    <2> QED
      BY <2>1, <2>2, <2>3, <2>4
  <1>4. CASE Finalizing
    BY <1>1, <1>4 DEF Finalizing, StartFinalizer, FinishFinalizer, objVars
  <1> QED
    BY <1>2, <1>3, <1>4 DEF Next

\* The collector takes an entry out of a weak table (clear_dead_weak_pairs) only if
\* nothing strong leads to its key or to its value, in every kind of cycle, after
\* every write barrier and after every retry of an atomic step that ran out of
\* memory.
THEOREM ClearedIsUnreachable ==
    ASSUME KvStringsKept
    PROVE  Spec => ClearsOnlyUnreachable
  <1>1. IInv /\ FreshIsYoungest /\ [Next]_vars =>
          [phase = "Atomic" =>
             \A s \in occ : \A p \in pairs[s] \ pairs'[s] :
                 \/ MutatorRuns /\ UNCHANGED color /\ UNCHANGED stage /\ s \in RegObjects
                 \/ \E x \in {p[1], p[2]} : IsObject(x) /\ x \notin Reachable]_vars
    BY ClearsDead
  <1> QED
    BY <1>1, Inductive, FreshStaysYoungest, PTL DEF Spec, ClearsOnlyUnreachable

-----------------------------------------------------------------------------
(* Completeness.                                                           *)

\* No table gives up its values.  The key of an entry that goes because of its
\* value is strong, so that it survives the cycle.
NoWeakValues == WeakModes \cap {"values", "all"} = {}

\* A full cycle of Vm::collect has marked nothing that is not reachable.
NoFloating ==
    \A G \in SUBSET Slots :
        Roots \subseteq G /\ Closed(G) => rootsTodo \subseteq G /\ \A s \in Slots : Marked(s) => s \in G
FullInv == collecting = "full" => phase # "Pause" /\ cycle # "Minor" /\ NoFloating

\* A step loses nothing and reaches slots only.
LEMMA ReachStepTypes ==
    ASSUME TypeOK, NEW R \in SUBSET Slots
    PROVE  R \subseteq ReachStep(R) /\ ReachStep(R) \subseteq Slots
  <1>1. R \subseteq ReachStep(R)
    BY DEF ReachStep
  <1>2. ReachStep(R) \subseteq Slots
    BY StepsToChildren, Domains
  <1> QED
    BY <1>1, <1>2

\* A set that a step does not leave is closed.
LEMMA StepCloses ==
    ASSUME NEW R, ReachStep(R) \subseteq R
    PROVE  Closed(R)
  <1>1. \A s \in R : StrongChildren(s) \subseteq R
    BY DEF ReachStep
  <1>2. ASSUME NEW s \in R, NEW p \in pairs[s], IsString(p[1]) PROVE p[1] \in R
    <2>1. p[1] \in KeysOf({q \in pairs[s] : IsString(q[1])})
      BY <1>2 DEF KeysOf, IsString
    <2> QED
      BY <2>1 DEF ReachStep
  <1>3. ASSUME NEW s \in R, NEW p \in pairs[s], wmode[s] = "keys",
               IsObject(p[1]) => p[1] \in R, p[2] # None
        PROVE  p[2] \in R
    <2>1. p[2] \in ValuesOf({q \in pairs[s] : IsObject(q[1]) => q[1] \in R})
      BY <1>3 DEF ValuesOf
    <2> QED
      BY <1>3, <2>1 DEF ReachStep
  <1> QED
    BY <1>1, <1>2, <1>3 DEF Closed

\* A set that grows has one more element.
LEMMA GrowsByOne ==
    ASSUME NEW A \in SUBSET Slots, NEW B \in SUBSET Slots, A \subseteq B, A # B,
           NEW n \in Nat, Cardinality(A) >= n
    PROVE  Cardinality(B) >= n + 1
  <1>1. IsFiniteSet(A) /\ IsFiniteSet(B)
    BY SlotsFinite, FS_Subset
  <1>2. Cardinality(A) \in Nat /\ Cardinality(B) \in Nat
    BY <1>1, FS_CardinalityType
  <1>3. Cardinality(A) < Cardinality(B)
    <2>1. Cardinality(A) <= Cardinality(B) /\ Cardinality(A) # Cardinality(B)
      BY <1>1, FS_Subset
    <2> QED
      BY <1>2, <2>1, SMT
  <1> QED
    BY <1>2, <1>3, SMT

\* No set of slots has more than NSlots elements.
LEMMA AllSlots ==
    ASSUME NEW A \in SUBSET Slots, Cardinality(A) >= NSlots
    PROVE  A = Slots
  <1>1. IsFiniteSet(Slots) /\ Cardinality(Slots) = NSlots /\ NSlots \in Nat
    BY SlotsFinite, ConstAssumption, FS_Interval, SMT DEF Slots
  <1>2. /\ IsFiniteSet(A) /\ Cardinality(A) <= Cardinality(Slots)
        /\ Cardinality(A) = Cardinality(Slots) => A = Slots
    BY <1>1, FS_Subset
  <1>3. Cardinality(A) \in Nat
    BY <1>2, FS_CardinalityType
  <1> QED
    BY <1>1, <1>2, <1>3, SMT

\* The numbers up to m are closed downwards.
LEMMA Below == ASSUME NEW n \in Nat, NEW m \in Nat, n + 1 \in 0 .. m PROVE n \in 0 .. m
  BY SMT

\* As many steps as there are slots reach everything.
LEMMA ReachableIsClosed ==
    TypeOK => Reachable \in SUBSET Slots /\ Roots \subseteq Reachable /\ Closed(Reachable)
  <1> SUFFICES ASSUME TypeOK
               PROVE  Reachable \in SUBSET Slots /\ Roots \subseteq Reachable /\ Closed(Reachable)
    OBVIOUS
  <1>0. NSlots \in Nat /\ Roots \subseteq Slots
    BY ConstAssumption, Domains
  <1>1. PICK r : /\ \A k \in 0 .. NSlots : r[k] = IF k = 0 THEN Roots ELSE ReachStep(r[k - 1])
                 /\ Reachable = r[NSlots]
    BY ReachableChain
  <1>6. \A R \in SUBSET Slots : R \subseteq ReachStep(R) /\ ReachStep(R) \in SUBSET Slots
    BY ReachStepTypes
  <1> DEFINE Done(R) == ReachStep(R) = R
             T == {n \in Nat : n \in 0 .. NSlots =>
                       /\ r[n] \in SUBSET Slots /\ Roots \subseteq r[n]
                       /\ Done(r[n]) \/ Cardinality(r[n]) >= n}
  <1>2. 0 \in T
    <2>1. r[0] = Roots
      BY <1>0, <1>1, Predecessors
    <2>2. Cardinality(Roots) \in Nat
      BY <1>0, SlotsFinite, FS_Subset, FS_CardinalityType
    <2>4. Cardinality(Roots) >= 0
      BY <2>2, SMT
    <2>3. 0 \in Nat
      BY SMT
    <2> QED
      BY <1>0, <2>1, <2>4, <2>3
  <1>3. ASSUME NEW n \in Nat, n \in T PROVE n + 1 \in T
    <2>1. n + 1 \in Nat /\ n + 1 # 0 /\ (n + 1) - 1 = n
      BY SMT
    <2> SUFFICES ASSUME n + 1 \in 0 .. NSlots
                 PROVE  /\ r[n + 1] \in SUBSET Slots /\ Roots \subseteq r[n + 1]
                        /\ Done(r[n + 1]) \/ Cardinality(r[n + 1]) >= n + 1
      BY <2>1
    <2>2. n \in 0 .. NSlots
      BY <1>0, Below
    <2>3. /\ r[n] \in SUBSET Slots /\ Roots \subseteq r[n]
          /\ Done(r[n]) \/ Cardinality(r[n]) >= n
      BY <1>3, <2>2
    <2>4. r[n + 1] = ReachStep(r[n])
      BY <1>1, <2>1
    <2>5. r[n] \subseteq r[n + 1] /\ r[n + 1] \in SUBSET Slots
      <3> DEFINE A == r[n]
                 B == r[n + 1]
      <3>1. A \in SUBSET Slots /\ B = ReachStep(A)
        BY <2>3, <2>4
      <3> HIDE DEF A, B
      <3>2. A \subseteq B /\ B \in SUBSET Slots
        BY <1>6, <3>1
      <3> QED
        BY <3>2 DEF A, B
    <2>6. CASE r[n + 1] = r[n]
      BY <2>3, <2>4, <2>6
    <2>7. CASE r[n + 1] # r[n]
      <3>1. Cardinality(r[n]) >= n
        BY <2>3, <2>4, <2>7
      <3>2. Cardinality(r[n + 1]) >= n + 1
        BY <2>3, <2>5, <2>7, <3>1, GrowsByOne
      <3> QED
        BY <2>3, <2>5, <3>2
    <2> QED
      BY <2>6, <2>7
  <1> HIDE DEF T
  <1>4. NSlots \in T
    BY <1>0, <1>2, <1>3, FromZero
  <1>5. /\ r[NSlots] \in SUBSET Slots /\ Roots \subseteq r[NSlots]
        /\ Done(r[NSlots]) \/ Cardinality(r[NSlots]) >= NSlots
    BY <1>0, <1>4, Predecessors DEF T
  <1>7. ReachStep(Reachable) \subseteq Reachable
    <2>1. CASE Done(r[NSlots])
      BY <1>1, <2>1
    <2>2. CASE Cardinality(r[NSlots]) >= NSlots
      <3>1. Reachable = Slots
        BY <1>1, <1>5, <2>2, AllSlots
      <3> QED
        BY <3>1, ReachStepTypes
    <2> QED
      BY <1>5, <2>1, <2>2
  <1> QED
    BY <1>1, <1>5, <1>7, StepCloses

\* The step leaves the object s as it was, up to ephemerons whose key is not in M.
Steady(s, M) ==
    /\ wmode'[s] = wmode[s] /\ kids'[s] = kids[s]
    /\ \A p \in pairs[s] :
          /\ IsString(p[1])' <=> IsString(p[1])
          /\ IsObject(p[1])' <=> IsObject(p[1])
          /\ IsString(p[2])' <=> IsString(p[2])
          /\ p \in pairs'[s] \/ (wmode[s] = "keys" /\ IsObject(p[1]) /\ p[1] \notin M)

\* Such a step keeps the strong references of the objects it keeps.
LEMMA SteadyStrong ==
    ASSUME TypeOK, NEW s \in Slots, NEW M, Steady(s, M)
    PROVE  StrongChildren(s) \subseteq StrongChildren(s)'
  <1>0. wmode[s] \in {"strong", "keys", "values", "all"} /\ wmode'[s] = wmode[s]
    BY DEF TypeOK, ObjTypes, AllModes, Steady
  <1>1. ASSUME NEW x \in StrongKeys(s) PROVE x \in StrongKeys(s)'
    <2>1. CASE wmode[s] \in {"strong", "values"}
      BY <1>0, <1>1, <2>1 DEF StrongKeys, KeysOf, Steady
    <2>2. CASE wmode[s] = "keys"
      <3>1. PICK p \in pairs[s] : IsString(p[1]) /\ x = p[1] /\ x # None
        BY <1>1, <2>2 DEF StrongKeys, KeysOf
      <3>2. p \in pairs'[s] /\ IsString(p[1])'
        BY <3>1 DEF Steady, IsString, IsObject
      <3> QED
        BY <1>0, <2>2, <3>1, <3>2 DEF StrongKeys, KeysOf
    <2>3. CASE wmode[s] = "all"
      BY <1>1, <2>3 DEF StrongKeys, KeysOf
    <2> QED
      BY <1>0, <2>1, <2>2, <2>3
  <1>2. ASSUME NEW x \in StrongValues(s) PROVE x \in StrongValues(s)'
    <2>1. CASE wmode[s] = "strong"
      BY <1>0, <1>2, <2>1 DEF StrongValues, ValuesOf, Steady
    <2>2. CASE wmode[s] = "keys"
      <3>1. PICK p \in pairs[s] : ~IsObject(p[1]) /\ x = p[2] /\ x # None
        BY <1>2, <2>2 DEF StrongValues, ValuesOf
      <3>2. p \in pairs'[s] /\ ~IsObject(p[1])'
        BY <3>1 DEF Steady
      <3> QED
        BY <1>0, <2>2, <3>1, <3>2 DEF StrongValues, ValuesOf
    <2>3. CASE wmode[s] \in {"values", "all"}
      <3>1. PICK p \in pairs[s] : IsString(p[2]) /\ x = p[2] /\ x # None
        BY <1>2, <2>3 DEF StrongValues, ValuesOf
      <3>2. p \in pairs'[s] /\ IsString(p[2])'
        BY <2>3, <3>1 DEF Steady
      <3> QED
        BY <1>0, <2>3, <3>1, <3>2 DEF StrongValues, ValuesOf
    <2> QED
      BY <1>0, <2>1, <2>2, <2>3
  <1>3. kids'[s] = kids[s]
    BY DEF Steady
  <1> QED
    BY <1>1, <1>2, <1>3 DEF StrongChildren

\* What is closed after the step was closed before it, as far as M goes.
LEMMA ClosedBefore ==
    ASSUME TypeOK, NEW M \in SUBSET Slots, Closed(M), \A s \in M : Steady(s, M),
           NEW G \in SUBSET Slots, Closed(G)'
    PROVE  Closed(G \cap M)
  <1> SUFFICES ASSUME NEW s \in G \cap M
               PROVE  /\ StrongChildren(s) \subseteq G \cap M
                      /\ \A p \in pairs[s] :
                            /\ IsString(p[1]) => p[1] \in G \cap M
                            /\ wmode[s] = "keys" /\ (IsObject(p[1]) => p[1] \in G \cap M) /\ p[2] # None
                                 => p[2] \in G \cap M
    BY DEF Closed
  <1>1. Steady(s, M) /\ s \in Slots
    OBVIOUS
  <1>2. /\ StrongChildren(s) \subseteq M
        /\ \A p \in pairs[s] :
              /\ IsString(p[1]) => p[1] \in M
              /\ wmode[s] = "keys" /\ (IsObject(p[1]) => p[1] \in M) /\ p[2] # None => p[2] \in M
    BY DEF Closed
  <1>3. /\ StrongChildren(s)' \subseteq G
        /\ \A p \in pairs'[s] :
              /\ IsString(p[1])' => p[1] \in G
              /\ wmode'[s] = "keys" /\ (IsObject(p[1])' => p[1] \in G) /\ p[2] # None => p[2] \in G
    BY DEF Closed
  <1>4. StrongChildren(s) \subseteq G
    BY <1>1, <1>3, SteadyStrong
  <1>5. ASSUME NEW p \in pairs[s], IsString(p[1]) PROVE p[1] \in G
    <2>1. p \in pairs'[s] /\ IsString(p[1])'
      BY <1>1, <1>5 DEF Steady, IsString, IsObject
    <2> QED
      BY <1>3, <2>1
  <1>6. ASSUME NEW p \in pairs[s], wmode[s] = "keys", IsObject(p[1]) => p[1] \in G \cap M, p[2] # None
        PROVE  p[2] \in G
    <2>1. p \in pairs'[s] /\ wmode'[s] = "keys" /\ (IsObject(p[1])' => p[1] \in G)
      BY <1>1, <1>6 DEF Steady
    <2> QED
      BY <1>3, <1>6, <2>1
  <1> QED
    BY <1>2, <1>4, <1>5, <1>6

\* A step that leaves the objects alone leaves closed sets alone.
LEMMA ClosedSame ==
    ASSUME TypeOK, UNCHANGED <<kind, kids, pairs, wmode>>, NEW G \in SUBSET Slots, Closed(G)'
    PROVE  Closed(G)
  <1>1. \A s \in Slots : Children(s) \subseteq Slots /\ StrongChildren(s) \subseteq Slots
    BY Domains, ChildTypes
  <1>2. Closed(Slots)
    BY <1>1, PairChildren DEF Closed, IsString
  <1>3. \A s \in Slots : Steady(s, Slots)
    BY DEF Steady, IsString, IsObject
  <1>4. Closed(G \cap Slots) /\ G \cap Slots = G
    BY <1>2, <1>3, ClosedBefore
  <1> QED
    BY <1>4

\* Steps that clear and free, without marking.
LEMMA FloatingCleared ==
    ASSUME TypeOK, NoFloating, NEW M \in SUBSET Slots, Roots \subseteq M, Closed(M),
           \A s \in M : Steady(s, M), Roots \subseteq Roots', rootsTodo' \subseteq rootsTodo,
           \A s \in Slots : Marked(s)' => Marked(s)
    PROVE  NoFloating'
  <1> SUFFICES ASSUME NEW G \in SUBSET Slots, Roots' \subseteq G, Closed(G)'
               PROVE  rootsTodo' \subseteq G /\ \A s \in Slots : Marked(s)' => s \in G
    BY DEF NoFloating
  <1>1. Closed(G \cap M)
    BY ClosedBefore
  <1>2. G \cap M \in SUBSET Slots /\ Roots \subseteq G \cap M
    OBVIOUS
  <1>3. rootsTodo \subseteq G \cap M /\ \A s \in Slots : Marked(s) => s \in G \cap M
    BY <1>1, <1>2 DEF NoFloating
  <1> QED
    BY <1>3

\* Steps that mark what any closed set around the roots holds.
LEMMA FloatingMarked ==
    ASSUME IInv, NoFloating, UNCHANGED <<kind, kids, pairs, wmode>>, Roots \subseteq Roots',
           rootsTodo' \subseteq rootsTodo, NEW S, \A s \in Slots : Marked(s)' => Marked(s) \/ s \in S,
           \A G \in SUBSET Slots :
               /\ Roots' \subseteq G /\ Closed(G) /\ rootsTodo \subseteq G
               /\ \A s \in Slots : Marked(s) => s \in G
               => S \subseteq G
    PROVE  NoFloating'
  <1> SUFFICES ASSUME NEW G \in SUBSET Slots, Roots' \subseteq G, Closed(G)'
               PROVE  rootsTodo' \subseteq G /\ \A s \in Slots : Marked(s)' => s \in G
    BY DEF NoFloating
  <1>1. Closed(G)
    BY ClosedSame DEF IInv
  <1>2. rootsTodo \subseteq G /\ \A s \in Slots : Marked(s) => s \in G
    BY <1>1 DEF NoFloating
  <1>3. S \subseteq G
    BY <1>1, <1>2
  <1> QED
    BY <1>2, <1>3

\* Without weak values the atomic step only clears ephemerons with a dead key.
LEMMA OnlyKeysCleared ==
    ASSUME NoWeakValues, TypeOK, SlotShape
    PROVE  /\ ClearedValues = pairs /\ AfterValues = pairs
           /\ LiveStringKeys(ClearedValues) = {}
           /\ \A s \in Slots :
                 /\ wmode[s] \in {"strong", "keys"}
                 /\ FinalPairs[s] = IF wmode[s] = "keys" THEN {p \in pairs[s] : ~DeadRef(p[1])}
                                    ELSE pairs[s]
  <1>1. \A s \in Slots : wmode[s] \in {"strong", "keys"}
    BY ConstAssumption DEF NoWeakValues, SlotShape, AllModes
  <1>2. \A s \in Slots : wmode[s] \notin {"values", "all"}
    BY <1>1
  <1>3. ClearedValues = [s \in Slots |-> pairs[s]]
    BY <1>2 DEF ClearedValues
  <1>4. pairs = [s \in Slots |-> pairs[s]]
    BY DEF TypeOK, ObjTypes
  <1>5. ClearedValues = pairs /\ AfterValues = pairs
    BY <1>3, <1>4 DEF AfterValues
  <1>6. LiveStringKeys(ClearedValues) = {}
    BY <1>2 DEF LiveStringKeys, occ
  <1>7. \A s \in Slots : FinalPairs[s] = IF wmode[s] = "keys" THEN {p \in pairs[s] : ~DeadRef(p[1])}
                                         ELSE pairs[s]
    BY <1>2, <1>5 DEF FinalPairs, ClearedKeys
  <1> QED
    BY <1>1, <1>5, <1>6, <1>7

\* Then what a marked object refers to is marked, and nothing has to be revived.
LEMMA NoneRevived ==
    ASSUME IInv, NoWeakValues, Traced, cycle # "Minor"
    PROVE  DeadChildren = {}
  <1> SUFFICES ASSUME NEW o \in occ, FutureOld(o), NEW c \in ChildrenIn(FinalPairs, o), FutureDead(c)
               PROVE  FALSE
    BY DEF DeadChildren
  <1>1. TypeOK /\ Control /\ SlotShape /\ o \in Slots /\ Marked(o)
    BY Domains DEF IInv, FutureOld, FutureDead, White, Marked
  <1>2. White(c)
    BY DEF FutureDead
  <1>3. /\ wmode[o] \in {"strong", "keys"}
        /\ FinalPairs[o] = IF wmode[o] = "keys" THEN {p \in pairs[o] : ~DeadRef(p[1])} ELSE pairs[o]
    BY <1>1, OnlyKeysCleared
  <1>4. FinalPairs[o] \subseteq pairs[o]
    BY <1>3
  <1>5. c \in Children(o) /\ c \in occ
    <2>1. c \in Children(o)
      BY <1>4 DEF Children, ChildrenIn, KeysOf, ValuesOf
    <2>2. o \in Live
      BY <1>1, LiveShape DEF IInv
    <2> QED
      BY <1>1, <2>1, <2>2, LiveShape DEF IInv, NoDangling
  <1>6. CASE Sealed
    <2>1. o \in Live /\ \A x \in Live : Marked(x)
      BY <1>1, <1>6, LiveShape
    <2> QED
      BY <1>2, <1>5, <2>1 DEF IInv, NoDangling, White, Marked
  <1>7. CASE ~Sealed
    <2>1. c \notin StrongChildren(o)
      BY <1>1, <1>2, <1>7, TracedMarks DEF White, Marked
    <2>2. PICK p \in FinalPairs[o] : (c = p[1] \/ c = p[2]) /\ c # None
      BY <2>1 DEF ChildrenIn, KeysOf, ValuesOf, StrongChildren
    <2>3. p \in pairs[o] /\ wmode[o] = "keys"
      <3>1. p \in pairs[o]
        BY <1>4, <2>2
      <3>2. wmode[o] # "strong"
        BY <2>1, <2>2, <3>1 DEF StrongChildren, StrongKeys, StrongValues, KeysOf, ValuesOf
      <3> QED
        BY <1>3, <3>1, <3>2
    <2>4. ~DeadRef(p[1])
      BY <1>3, <2>2, <2>3
    <2>5. IsObject(c) \/ IsString(c)
      BY <1>1, <1>5, <2>2 DEF occ, IsObject, IsString, TypeOK, ObjTypes, AllKinds
    <2>6. c # p[1]
      <3>1. IsString(p[1]) => p[1] \in StrongKeys(o)
        BY <2>3 DEF StrongKeys, KeysOf, IsString
      <3> QED
        BY <1>2, <2>1, <2>4, <2>5, <3>1 DEF DeadRef, StrongChildren
    <2>7. Marked(p[2])
      BY <1>1, <1>7, <2>2, <2>3, <2>4, <2>6, TracedValues DEF DeadRef, White, Marked
    <2> QED
      BY <1>2, <2>2, <2>6, <2>7 DEF White, Marked
  <1> QED
    BY <1>6, <1>7

\* The last of the atomic step leaves reachability alone.
LEMMA FloatingFinish ==
    ASSUME IInv, NoWeakValues, NoFloating, Traced, UNCHANGED color, \E n : FinishAtomic(n)
    PROVE  NoFloating'
  <1>1. TypeOK /\ SlotShape /\ pairs' = FinalPairs /\ UNCHANGED <<kind, kids, wmode, rootsTodo>>
    BY DEF IInv, FinishAtomic
  <1>2. Roots' = Roots
    BY DEF FinishAtomic, finVars, mutVars, Roots, RegObjects, QueuedObjects
  <1>3. PICK M \in SUBSET Slots : /\ Roots \subseteq M /\ Closed(M)
                                  /\ \A x \in M : IsObject(x) => Marked(x)
    BY TracedIsClosed
  <1>4. ASSUME NEW s \in M PROVE Steady(s, M)
    <2>1. \A p \in pairs[s] : p \in pairs'[s] \/ (wmode[s] = "keys" /\ IsObject(p[1]) /\ p[1] \notin M)
      BY <1>1, <1>3, OnlyKeysCleared DEF DeadRef, White, Marked
    <2> QED
      BY <1>1, <2>1 DEF Steady, IsString, IsObject
  <1>5. \A s \in Slots : Marked(s)' => Marked(s)
    BY DEF Marked
  <1> QED
    BY <1>1, <1>2, <1>3, <1>4, <1>5, FloatingCleared

\* So does the sweep.
LEMMA FloatingSweep ==
    ASSUME IInv, NoFloating, SweepSlot
    PROVE  NoFloating'
  <1>1. TypeOK /\ Control /\ Live \in SUBSET Slots /\ Roots \subseteq Live /\ Closed(Live)
    BY LiveShape, LiveIsClosed DEF IInv
  <1>2. PICK s \in occ : IF Sweepable(s) THEN Reclaim(s)
                         ELSE UNCHANGED <<objVars, color, rootsTodo>>
    BY DEF SweepSlot
  <1>3. Roots' = Roots
    BY DEF SweepSlot, mutVars, Roots, RegObjects, QueuedObjects
  <1>4. CASE Sweepable(s)
    <2>1. s \in Slots /\ s \notin Live
      BY <1>1, <1>4, Domains DEF SweepSlot, Control, Live, Condemned
    <2>2. \A t \in Live : \A p \in pairs[t] : \A x \in {p[1], p[2]} : x # None => x \in Live
      BY PairChildren DEF IInv, NoDangling
    <2>3. \A t \in Slots \ {s} : /\ kind'[t] = kind[t] /\ kids'[t] = kids[t]
                                 /\ pairs'[t] = pairs[t] /\ wmode'[t] = wmode[t] /\ color'[t] = color[t]
      BY <1>1, <1>2, <1>4, <2>1, ReclaimFacts
    <2>4. \A x \in Live \cup {None} : (IsString(x)' <=> IsString(x)) /\ (IsObject(x)' <=> IsObject(x))
      BY <1>1, <2>1, <2>3 DEF IsString, IsObject
    <2>5. ASSUME NEW t \in Live PROVE Steady(t, Live)
      <3>1. t \in Slots \ {s}
        BY <1>1, <2>1
      <3>2. \A p \in pairs[t] : p[1] \in Live \cup {None} /\ p[2] \in Live \cup {None}
        BY <2>2
      <3> QED
        BY <2>3, <2>4, <3>1, <3>2 DEF Steady
    <2>6. rootsTodo' \subseteq rootsTodo /\ color'[s] = "White"
      BY <1>1, <1>2, <1>4, <2>1, ReclaimFacts
    <2>7. \A t \in Slots : Marked(t)' => Marked(t)
      BY <2>3, <2>6 DEF Marked
    <2> QED
      BY <1>1, <1>3, <2>5, <2>6, <2>7, FloatingCleared
  <1>5. CASE ~Sweepable(s)
    <2>1. UNCHANGED <<kind, kids, pairs, wmode, color, rootsTodo>>
      BY <1>2, <1>5 DEF objVars
    <2>2. \A t \in Live : Steady(t, Live)
      BY <2>1 DEF Steady, IsString, IsObject
    <2>3. \A t \in Slots : Marked(t)' => Marked(t)
      BY <2>1 DEF Marked
    <2> QED
      BY <1>1, <1>3, <2>1, <2>2, <2>3, FloatingCleared
  <1> QED
    BY <1>4, <1>5

\* The steps that trace.
LEMMA FloatingTrace ==
    ASSUME IInv, NoFloating, cycle # "Minor",
           \/ MarkRoot \/ TraceRemembered \/ RootsMarked \/ Propagate \/ Propagated
           \/ AtomicResume \/ ScanEphemeron \/ RetraceOld \/ ReserveCandidatesFails
    PROVE  NoFloating'
  <1>1. TypeOK /\ UNCHANGED <<kind, kids, pairs, wmode, cycle>>
    BY DEF IInv, objVars, cycleVars, MarkRoot, TraceRemembered, RootsMarked, Propagate, Propagated,
       AtomicResume, ScanEphemeron, RetraceOld, ReserveCandidatesFails
  <1>2. Roots' = Roots
    BY DEF finVars, mutVars, Roots, RegObjects, QueuedObjects, MarkRoot, TraceRemembered,
       RootsMarked, Propagate, Propagated, AtomicResume, ScanEphemeron, RetraceOld,
       ReserveCandidatesFails
  <1>3. rootsTodo' \subseteq rootsTodo
    BY DEF cycleVars, MarkRoot, TraceRemembered, RootsMarked, Propagate, Propagated, AtomicResume,
       ScanEphemeron, RetraceOld, ReserveCandidatesFails
  <1>4. CASE MarkRoot
    <2>1. \A s \in Slots : Marked(s)' => Marked(s) \/ s \in rootsTodo
      BY <1>4 DEF MarkRoot, MarkInto, White, Marked
    <2> QED
      BY <1>1, <1>2, <1>3, <2>1, FloatingMarked
  <1>5. CASE Propagate
    <2>1. PICK o \in work : color' = [s \in Slots |->
                                        IF s = o THEN "Black"
                                        ELSE IF s \in StrongChildren(o) /\ White(s) THEN "Gray"
                                        ELSE color[s]]
      BY <1>5 DEF Propagate
    <2>2. o \in Slots /\ Marked(o)
      BY DEF IInv, WorkIsGray, Marked
    <2>3. \A s \in Slots : Marked(s)' => Marked(s) \/ s \in StrongChildren(o)
      BY <2>1, <2>2 DEF White, Marked
    <2>4. \A G \in SUBSET Slots :
              Closed(G) /\ (\A s \in Slots : Marked(s) => s \in G) => StrongChildren(o) \subseteq G
      BY <2>2 DEF Closed
    <2> QED
      BY <1>1, <1>2, <1>3, <2>3, <2>4, FloatingMarked
  <1>6. CASE ScanEphemeron
    <2>1. PICK o \in occ : color' = [s \in Slots |->
                                      IF s \in Whites(EphemeronValues(o)) /\ White(s) THEN "Gray"
                                      ELSE color[s]]
      BY <1>6 DEF ScanEphemeron, MarkInto
    <2>2. o \in Slots
      BY <1>1, Domains
    <2>3. \A s \in Slots : Marked(s)' => Marked(s) \/ s \in EphemeronValues(o)
      BY <2>1 DEF Whites, White, Marked
    <2>4. ASSUME NEW G \in SUBSET Slots, Closed(G), \A s \in Slots : Marked(s) => s \in G,
                 NEW x \in EphemeronValues(o)
          PROVE  x \in G
      <3>1. Marked(o) /\ wmode[o] = "keys"
            /\ \E p \in pairs[o] : (IsObject(p[1]) => ~White(p[1])) /\ x = p[2] /\ x # None
        BY <2>4 DEF EphemeronValues, ValuesOf, White, Marked
      <3>2. PICK p \in pairs[o] : (IsObject(p[1]) => ~White(p[1])) /\ x = p[2] /\ x # None
        BY <3>1
      <3>3. IsObject(p[1]) => p[1] \in G
        BY <1>1, <2>2, <2>4, <3>2, PairTypes DEF IsObject, White, Marked
      <3> QED
        BY <2>2, <2>4, <3>1, <3>2, <3>3 DEF Closed
    <2> QED
      BY <1>1, <1>2, <1>3, <2>3, <2>4, FloatingMarked
  <1>7. CASE RetraceOld
    <2>1. \A s \in Slots : Marked(s)' => Marked(s) \/ s \in OldChildren
      BY <1>7 DEF RetraceOld, BackToPropagate, MarkInto, White, Marked
    <2>2. \A G \in SUBSET Slots :
              Closed(G) /\ (\A s \in Slots : Marked(s) => s \in G) => OldChildren \subseteq G
      BY <1>1, Domains DEF Closed, OldChildren, White, Marked
    <2> QED
      BY <1>1, <1>2, <1>3, <2>1, <2>2, FloatingMarked
  <1>8. CASE RootsMarked \/ Propagated \/ AtomicResume \/ ReserveCandidatesFails
    <2>1. \A s \in Slots : Marked(s)' => Marked(s) \/ s \in {}
      BY <1>8 DEF RootsMarked, Propagated, AtomicResume, ReserveCandidatesFails, markVars, Marked
    <2> QED
      BY <1>1, <1>2, <1>3, <2>1, FloatingMarked
  <1>9. ~TraceRemembered
    BY DEF TraceRemembered
  <1> QED
    BY <1>4, <1>5, <1>6, <1>7, <1>8, <1>9

\* Dead objects with a finalizer become roots, and are marked as such.
LEMMA FloatingSeparate ==
    ASSUME IInv, NoWeakValues, NoFloating, Separate
    PROVE  NoFloating'
  <1>1. TypeOK /\ SlotShape
    BY DEF IInv
  <1>2. UNCHANGED <<kind, kids, pairs, wmode, rootsTodo>>
    BY <1>1, OnlyKeysCleared DEF Separate
  <1>3. Roots \subseteq Roots' /\ DeadFinalizable \subseteq Roots'
    <2>1. queue \subseteq queue' /\ \A s \in DeadFinalizable : [obj |-> s, ord |-> order[s]] \in queue'
      BY DEF Separate
    <2>2. QueuedObjects \subseteq QueuedObjects' /\ DeadFinalizable \subseteq QueuedObjects'
      BY <2>1, EntryParts DEF QueuedObjects
    <2> QED
      BY <2>2 DEF Separate, mutVars, Roots, RegObjects
  <1>4. \A s \in Slots : Marked(s)' => Marked(s) \/ s \in DeadFinalizable
    BY DEF Separate, BackToPropagate, MarkInto, White, Marked
  <1> QED
    BY <1>2, <1>3, <1>4, FloatingMarked

\* Every step of the collector within its cycle.
LEMMA FloatingGcStep ==
    ASSUME IInv, NoWeakValues, FullInv, GcStep, collecting' = "full"
    PROVE  phase' # "Pause" /\ cycle' # "Minor" /\ NoFloating'
  <1>1. CASE CollectBegins
    <2>1. phase' = "RootMark" /\ cycle' # "Minor" /\ rootsTodo' = Roots
          /\ \A s \in Slots : color'[s] = "White"
      BY <1>1 DEF CollectBegins, BeginCycle
    <2>2. Roots' = Roots
      BY <1>1 DEF CollectBegins, BeginCycle, finVars, Roots, RegObjects, QueuedObjects
    <2>3. NoFloating'
      BY <2>1, <2>2 DEF NoFloating, Marked
    <2> QED
      BY <2>1, <2>3
  <1>2. CASE ~CollectBegins
    <2>1. /\ ~StepBegins /\ ~EndSweep
          /\ collecting = "full" /\ phase # "Pause" /\ cycle # "Minor" /\ NoFloating
      <3>1. ~StepBegins /\ ~EndSweep
        BY DEF StepBegins, EndSweep
      <3>2. collecting = "full"
        BY <1>2, <3>1 DEF GcStep, mutVars, MarkRoot, TraceRemembered, RootsMarked, Propagate,
           Propagated, AtomicResume, ScanEphemeron, RetraceOld, ClearWeakValues, Separate,
           ReserveCandidatesFails, RebuildRevives, RebuildFails, EnterSweep, FinishAtomic, SweepSlot
      <3> QED
        BY <3>1, <3>2 DEF FullInv
    <2>2. phase' # "Pause" /\ cycle' = cycle
      BY <1>2, <2>1 DEF GcStep, markVars, cycleVars, MarkRoot, TraceRemembered, RootsMarked, Propagate,
         Propagated, AtomicResume, ScanEphemeron, RetraceOld, ClearWeakValues, Separate,
         ReserveCandidatesFails, RebuildRevives, RebuildFails, EnterSweep, FinishAtomic, SweepSlot,
         MarkInto, BackToPropagate
    <2>3. ~ClearWeakValues
      <3>1. Whites(LiveStringKeys(ClearedValues)) = {}
        BY OnlyKeysCleared DEF IInv, Whites
      <3> QED
        BY <3>1 DEF ClearWeakValues
    <2>4. ~RebuildRevives
      BY <2>1, NoneRevived DEF RebuildRevives, Separated, ValuesCleared
    <2>5. CASE RebuildFails \/ EnterSweep
      <3>1. Traced /\ UNCHANGED color /\ \E n : FinishAtomic(n)
        BY <2>5 DEF RebuildFails, EnterSweep, Separated, ValuesCleared, markVars
      <3> QED
        BY <2>1, <2>2, <3>1, FloatingFinish
    <2>6. CASE SweepSlot
      BY <2>1, <2>2, <2>6, FloatingSweep
    <2>7. CASE Separate
      BY <2>1, <2>2, <2>7, FloatingSeparate
    <2> QED
      BY <1>2, <2>1, <2>2, <2>3, <2>4, <2>5, <2>6, <2>7, FloatingTrace DEF GcStep
  <1> QED
    BY <1>1, <1>2

\* Nobody but the collector runs during the full cycle of Vm::collect.
LEMMA FullStep ==
    ASSUME IInv, NoWeakValues, FullInv, [Next]_vars
    PROVE  FullInv'
  <1> SUFFICES ASSUME collecting' = "full"
               PROVE  phase' # "Pause" /\ cycle' # "Minor" /\ NoFloating'
    BY DEF FullInv
  <1>1. CASE GcStep
    BY <1>1, FloatingGcStep
  <1>2. ASSUME collecting = "full" PROVE fresh = None /\ ~running /\ ~MutatorRuns /\ phase # "Pause"
    BY <1>2 DEF FullInv, IInv, Control, MutatorRuns
  <1>3. CASE Mutator
    <2>1. collecting = "full"
      BY <1>3, ZenonT(40) DEF Mutator, mutVars, Publish, Load, DropRoot, Allocate,
         AllocateAndStep, AllocateReturns, AllocateFails, WriteRef, ClearRef, RawSet, RawClear, SetWeakMode, RegisterFinalizer,
         SetGcMode, CollectCalled, CollectReturns
    <2> QED
      BY <1>2, <1>3, <2>1 DEF Mutator, Load, DropRoot, Allocate, AllocateAndStep, AllocateReturns,
         AllocateFails, WriteRef, ClearRef, RawSet, RawClear, SetWeakMode, RegisterFinalizer,
         SetGcMode, CollectCalled, CollectReturns
  <1>4. CASE Finalizing
    BY <1>2, <1>4 DEF Finalizing, StartFinalizer, FinishFinalizer, mutVars
  <1>5. CASE UNCHANGED vars
    <2>1. /\ UNCHANGED <<kind, kids, pairs, wmode, rootsTodo, color, phase, cycle>>
          /\ UNCHANGED <<queue, regs, fresh, collecting>>
      BY <1>5 DEF vars, objVars, finVars, markVars, cycleVars, mutVars
    <2>2. Roots' = Roots /\ \A s \in Slots : Marked(s)' => Marked(s) \/ s \in {}
      BY <2>1 DEF Roots, RegObjects, QueuedObjects, Marked
    <2>3. phase # "Pause" /\ cycle # "Minor" /\ NoFloating
      BY <2>1 DEF FullInv
    <2>4. NoFloating'
      BY <2>1, <2>2, <2>3, FloatingMarked
    <2> QED
      BY <2>1, <2>3, <2>4
  <1> QED
    BY <1>1, <1>3, <1>4, <1>5 DEF Next

\* Nothing reachable was freed.
LEMMA ReachableIsThere == IInv => Reachable \subseteq occ
  BY LiveIsClosed, ReachableWithin, LiveShape DEF IInv

\* When the full cycle ends, the slots left are the ones that are reachable.
LEMMA FullCycleEnds ==
    ASSUME IInv, IInv', FullInv, Next, collecting = "full", collecting' = "done"
    PROVE  occ' = Reachable'
  <1>1. EndSweep
    <2>1. ~MutatorRuns /\ fresh = None
      BY DEF FullInv, IInv, Control, MutatorRuns
    <2> QED
      BY <2>1 DEF Next, GcStep, Mutator, Finalizing, mutVars, StepBegins, CollectBegins, MarkRoot,
         TraceRemembered, RootsMarked, Propagate, Propagated, AtomicResume, ScanEphemeron, RetraceOld,
         ClearWeakValues, Separate, ReserveCandidatesFails, RebuildRevives, RebuildFails, EnterSweep,
         FinishAtomic, SweepSlot, Publish, Load, DropRoot, Allocate, AllocateAndStep, AllocateReturns,
         AllocateFails, WriteRef, ClearRef, RawSet, RawClear, SetWeakMode, RegisterFinalizer,
         SetGcMode, CollectCalled, CollectReturns, StartFinalizer, FinishFinalizer
  <1>2. UNCHANGED <<kind, kids, pairs, wmode, queue, regs, fresh>>
    BY <1>1 DEF EndSweep, objVars, finVars
  <1>3. Roots' = Roots /\ occ' = occ
    BY <1>2 DEF Roots, RegObjects, QueuedObjects, occ
  <1>4. Reachable' \subseteq occ'
    <2>1. (IInv => Reachable \subseteq occ)'
      BY ReachableIsThere, PTL
    <2> QED
      BY <2>1
  <1>5. Reachable' \in SUBSET Slots /\ Roots \subseteq Reachable' /\ Closed(Reachable)'
    <2>1. (TypeOK => Reachable \in SUBSET Slots /\ Roots \subseteq Reachable /\ Closed(Reachable))'
      BY ReachableIsClosed, PTL
    <2> QED
      BY <1>3, <2>1 DEF IInv
  <1>6. PICK G \in SUBSET Slots : G = Reachable'
    BY <1>5
  <1>7. Closed(G)
    <2>1. Closed(G)'
      BY <1>5, <1>6 DEF Closed
    <2> QED
      BY <1>2, <2>1, ClosedSame DEF IInv
  <1>8. \A s \in Slots : Marked(s) => s \in G
    BY <1>5, <1>6, <1>7 DEF FullInv, NoFloating
  <1>9. \A s \in occ : Marked(s) /\ s \in Slots
    BY <1>1, Domains DEF EndSweep, IInv, SweptIsLive
  <1> QED
    BY <1>3, <1>4, <1>6, <1>8, <1>9

\* Vm::collect leaves exactly what is reachable, whatever cycle it found half
\* done, whatever finalizers the cycle separates and in either mode of the
\* collector, unless a table has weak values.
THEOREM CollectIsExact ==
    ASSUME NoWeakValues
    PROVE  Spec => CollectIsComplete
  <1>1. KvStringsKept
    BY DEF NoWeakValues, KvStringsKept
  <1>2. Init => FullInv
    BY DEF Init, FullInv
  <1>3. IInv /\ FullInv /\ [Next]_vars => FullInv'
    BY FullStep
  <1>4. IInv /\ IInv' /\ FullInv /\ [Next]_vars =>
          [collecting = "full" /\ collecting' = "done" => occ' = Reachable']_vars
    BY FullCycleEnds
  <1> QED
    BY <1>1, <1>2, <1>3, <1>4, Inductive, PTL DEF Spec, CollectIsComplete

=============================================================================
