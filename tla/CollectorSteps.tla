--------------------------- MODULE CollectorSteps ---------------------------
(***************************************************************************)
(* Type correctness of Collector, and the facts about its operators that   *)
(* the safety proofs share; then why nothing reachable is ever freed: the  *)
(* steps of the collector preserve the invariant IInv.  First come the     *)
(* facts that every step uses: what a step keeps that takes references     *)
(* away and marks objects that are alive; then tracing, the atomic step,   *)
(* the sweep and the beginning of a cycle.                                 *)
(***************************************************************************)
EXTENDS Collector, FiniteSetTheorems, TLAPS

\* The leaves are proved by Zenon unless they cite another prover.
USE Zenon

\* Slots are positive integers and finitely many.
LEMMA SlotsFinite == IsFiniteSet(Slots) /\ Slots \subseteq Nat /\ None \notin Slots
  <1>1. NSlots \in Nat
    BY ConstAssumption
  <1>2. IsFiniteSet(Slots)
    BY SMT, <1>1, FS_Interval DEF Slots
  <1> QED
    BY SMT, <1>1, <1>2 DEF Slots, None

\* The heap is finite and the scan bound is a number.
LEMMA ScanEndType ==
    ScanEnd \in Nat /\ IsFiniteSet(occ) /\ Cardinality(occ) \in Nat /\ Cardinality(occ) \in Int
  <1>1. IsFiniteSet({s \in Slots : \E t \in occ : s <= t})
    BY SlotsFinite, FS_Subset
  <1>2. IsFiniteSet(occ)
    BY SlotsFinite, FS_Subset DEF occ
  <1> QED
    BY SMT, <1>1, <1>2, FS_CardinalityType DEF ScanEnd

\* The numbers that cursors and counters take.
LEMMA NumberTypes ==
    /\ 0 \in Nat /\ 0 \in Int
    /\ \A n \in Nat : n + 1 \in Nat /\ (n > 0 => n - 1 \in Nat)
    /\ \A n \in Int : n + 1 \in Int /\ n - 1 \in Int
  BY SMT

\* Room for n objects becomes room for one more, or one less.
LEMMA RoomForMore ==
    \A n, c \in Int : \A m :
        m = n + 1 /\ n <= c => m <= IF n >= c THEN c + 1 ELSE c
  BY SMT

LEMMA RoomForLess ==
    \A n, c \in Int : /\ n <= n
                      /\ \A m : m = n - 1 /\ n <= c => m <= c /\ m <= c - 1
  BY SMT

\* Survival counts keep their order when both grow, or the larger one does.
LEMMA SurvivalNumbers ==
    \A m, n, p \in Nat : /\ 0 <= n
                         /\ m <= n => m + 1 <= n + 1 /\ m <= n + 1
                         /\ m <= n /\ m + 1 >= p => n + 1 >= p
  BY SMT

\* Registration orders, and the entries of the finalizer queue.
LEMMA SameOrder == \A m, n \in Nat : m <= n /\ n <= m => m = n
  BY SMT

LEMMA NextOrder ==
    \A n \in Nat : n < n + 1 /\ \A m \in Nat : m < n => m < n + 1 /\ m # n
  BY SMT

LEMMA EntryParts ==
    \A s, n : [obj |-> s, ord |-> n].obj = s /\ [obj |-> s, ord |-> n].ord = n
  OBVIOUS

LEMMA EntryTypes ==
    TypeOK => /\ \A e \in queue : e.obj \in Slots /\ e.ord \in Nat
              /\ \A s \in Slots : order[s] \in Nat
              /\ nextOrder \in Nat /\ running \in BOOLEAN
  BY DEF TypeOK, FinTypes

\* The references of an object are slots.
LEMMA ChildTypes ==
    ASSUME TypeOK, NEW s \in Slots
    PROVE  /\ Children(s) \subseteq Slots /\ StrongChildren(s) \subseteq Slots
           /\ EphemeronValues(s) \subseteq Slots
  <1>1. ASSUME NEW ps \in SUBSET pairs[s] PROVE KeysOf(ps) \subseteq Slots /\ ValuesOf(ps) \subseteq Slots
    <2>1. pairs[s] \in SUBSET ((Slots \cup {None}) \X (Slots \cup {None}))
      BY DEF TypeOK, ObjTypes
    <2> QED
      BY <1>1, <2>1 DEF KeysOf, ValuesOf
  <1>2. kids[s] \subseteq Slots
    BY DEF TypeOK, ObjTypes
  <1>3. Children(s) \subseteq Slots
    BY <1>1, <1>2 DEF Children, ChildrenIn
  <1>4. wmode[s] \in {"strong", "keys", "values", "all"}
    BY DEF TypeOK, ObjTypes, AllModes
  <1>5. StrongKeys(s) \subseteq Slots
    <2>1. {p \in pairs[s] : IsString(p[1])} \subseteq pairs[s] /\ {} \subseteq pairs[s]
      OBVIOUS
    <2> QED
      BY <1>1, <1>4, <2>1 DEF StrongKeys
  <1>6. StrongValues(s) \subseteq Slots
    <2>1. /\ {p \in pairs[s] : ~IsObject(p[1])} \subseteq pairs[s]
          /\ {p \in pairs[s] : IsString(p[2])} \subseteq pairs[s]
      OBVIOUS
    <2> QED
      BY <1>1, <1>4, <2>1 DEF StrongValues
  <1>7. EphemeronValues(s) \subseteq Slots
    BY <1>1 DEF EphemeronValues
  <1> QED
    BY <1>2, <1>3, <1>5, <1>6, <1>7 DEF StrongChildren

\* The sets of objects that the collector computes are sets of slots.
LEMMA SetTypes ==
    ASSUME TypeOK
    PROVE  /\ occ \subseteq Slots /\ Roots \subseteq Slots /\ RegObjects \subseteq Slots
           /\ OldChildren \subseteq Slots /\ DeadFinalizable \subseteq Slots
           /\ DeadChildren \subseteq Slots /\ YoungOwners \subseteq Slots
  <1>1. occ \subseteq Slots
    BY DEF occ
  <1>2. RegObjects \subseteq Slots /\ Roots \subseteq Slots
    BY ZenonT(40) DEF TypeOK, MutTypes, FinTypes, RegObjects, Roots, QueuedObjects
  <1>3. OldChildren \subseteq Slots
    BY <1>1, ChildTypes DEF OldChildren
  <1>4. DeadFinalizable \subseteq Slots /\ DeadChildren \subseteq Slots /\ YoungOwners \subseteq Slots
    BY <1>1 DEF DeadFinalizable, DeadChildren, YoungOwners, Whites
  <1> QED
    BY <1>1, <1>2, <1>3, <1>4

\* Clearing weak entries keeps the type of pairs.
LEMMA ClearTypes ==
    ASSUME TypeOK
    PROVE  LET T == [Slots -> SUBSET ((Slots \cup {None}) \X (Slots \cup {None}))]
           IN  ClearedValues \in T /\ AfterValues \in T /\ FinalPairs \in T
  <1> DEFINE T == [Slots -> SUBSET ((Slots \cup {None}) \X (Slots \cup {None}))]
  <1>1. pairs \in T
    BY DEF TypeOK, ObjTypes
  <1> HIDE DEF T
  <1>2. ClearedValues \in T
    BY <1>1 DEF ClearedValues, T
  <1>3. AfterValues \in T
    BY <1>1, <1>2 DEF AfterValues
  <1>4. ASSUME NEW ps \in T PROVE ClearedKeys(ps) \in T
    BY <1>4 DEF ClearedKeys, T
  <1> QED
    BY <1>2, <1>3, <1>4 DEF FinalPairs, T

\* Marking slots keeps the types of color, work and phase.
LEMMA MarkType ==
    ASSUME TypeOK, NEW S \in SUBSET Slots, Mark(S)
    PROVE  MarkTypes'
  BY DEF TypeOK, MarkTypes, Mark, Whites, White, Colors

LEMMA MarkIntoType ==
    ASSUME TypeOK, NEW S \in SUBSET Slots,
           NEW p \in {"RootMark", "Propagate", "Atomic"}, MarkInto(S, p)
    PROVE  MarkTypes'
  BY DEF TypeOK, MarkTypes, MarkInto, Whites, White, Colors

\* What a step leaves alone keeps its type.
LEMMA SameTypes ==
    ASSUME TypeOK
    PROVE  /\ UNCHANGED objVars => ObjTypes'
           /\ UNCHANGED ageVars => AgeTypes'
           /\ UNCHANGED finVars => FinTypes'
           /\ UNCHANGED markVars => MarkTypes'
           /\ UNCHANGED <<cycleVars, remembered>> => CycleTypes'
           /\ UNCHANGED capVars => CapTypes'
           /\ UNCHANGED mutVars => MutTypes'
  <1>1. UNCHANGED objVars => ObjTypes'
    BY DEF TypeOK, ObjTypes, objVars
  <1>2. UNCHANGED ageVars => AgeTypes'
    BY DEF TypeOK, AgeTypes, ageVars
  <1>3. UNCHANGED finVars => FinTypes'
    BY DEF TypeOK, FinTypes, finVars
  <1>4. UNCHANGED markVars => MarkTypes'
    BY DEF TypeOK, MarkTypes, markVars
  <1>5. UNCHANGED <<cycleVars, remembered>> => CycleTypes'
    BY DEF TypeOK, CycleTypes, cycleVars
  <1>6. UNCHANGED capVars => CapTypes'
    BY DEF TypeOK, CapTypes, capVars
  <1>7. UNCHANGED mutVars => MutTypes'
    BY DEF TypeOK, MutTypes, mutVars
  <1> QED
    BY <1>1, <1>2, <1>3, <1>4, <1>5, <1>6, <1>7

LEMMA TypeInit == Init => TypeOK
  <1> SUFFICES ASSUME Init PROVE TypeOK
    OBVIOUS
  <1> USE ConstAssumption, SlotsFinite, NumberTypes DEF Init
  <1>1. ObjTypes
    BY DEF ObjTypes, AllKinds, AllModes
  <1>2. AgeTypes /\ FinTypes
    BY DEF AgeTypes, FinTypes, FinalizerStates
  <1>3. MarkTypes /\ CapTypes
    BY DEF MarkTypes, CapTypes, Colors
  <1>4. CycleTypes
    BY DEF CycleTypes
  <1>5. MutTypes
    BY DEF MutTypes
  <1> QED
    BY <1>1, <1>2, <1>3, <1>4, <1>5 DEF TypeOK

\* A cycle begins.
LEMMA BeginTypes ==
    ASSUME TypeOK, NEW c \in {"Full", "Minor", "Major"}, BeginCycle(c)
    PROVE  ObjTypes' /\ AgeTypes' /\ FinTypes' /\ MarkTypes' /\ CycleTypes' /\ CapTypes'
  <1>1. AgeTypes' /\ FinTypes'
    BY SameTypes DEF BeginCycle
  <1>2. ObjTypes'
    BY DEF TypeOK, ObjTypes, BeginCycle
  <1>3. MarkTypes'
    BY DEF MarkTypes, Colors, BeginCycle
  <1>4. CycleTypes'
    BY SetTypes, NumberTypes DEF TypeOK, CycleTypes, BeginCycle
  <1>5. CapTypes'
    BY ScanEndType DEF TypeOK, CapTypes, BeginCycle
  <1> QED
    BY <1>1, <1>2, <1>3, <1>4, <1>5

LEMMA TypeStepBegins == ASSUME TypeOK, StepBegins PROVE TypeOK'
  <1>1. PICK c \in CycleKinds : BeginCycle(c)
    BY DEF StepBegins
  <1>2. c \in {"Full", "Minor", "Major"}
    BY DEF CycleKinds
  <1>3. MutTypes'
    BY <1>1 DEF TypeOK, MutTypes, StepBegins, BeginCycle
  <1> QED
    BY <1>1, <1>2, <1>3, BeginTypes DEF TypeOK

LEMMA TypeCollectBegins == ASSUME TypeOK, CollectBegins PROVE TypeOK'
  <1>1. PICK c \in {"Full", "Minor", "Major"} : BeginCycle(c)
    BY DEF CollectBegins
  <1>2. MutTypes'
    BY <1>1 DEF TypeOK, MutTypes, CollectBegins, BeginCycle
  <1> QED
    BY <1>1, <1>2, BeginTypes DEF TypeOK

LEMMA TypeMarkRoot == ASSUME TypeOK, MarkRoot PROVE TypeOK'
  <1> USE SlotsFinite, ScanEndType, NumberTypes
      DEF MarkRoot, objVars, ageVars, finVars, markVars, cycleVars, capVars, mutVars
  <1>1. ObjTypes' /\ AgeTypes' /\ FinTypes' /\ CycleTypes' /\ CapTypes' /\ MutTypes'
    BY DEF TypeOK, ObjTypes, AgeTypes, FinTypes, CycleTypes, CapTypes, MutTypes
  <1>2. MarkTypes'
    <2> PICK r \in rootsTodo : MarkInto({r}, phase)
      OBVIOUS
    <2>1. {r} \in SUBSET Slots
      BY DEF TypeOK, CycleTypes
    <2> QED
      BY <2>1, MarkIntoType
  <1> QED
    BY <1>1, <1>2 DEF TypeOK

LEMMA TypeTraceRemembered == ASSUME TypeOK, TraceRemembered PROVE TypeOK'
  <1> USE SlotsFinite, ScanEndType, NumberTypes
      DEF TraceRemembered, objVars, ageVars, finVars, markVars, cycleVars, capVars, mutVars
  <1>1. ObjTypes' /\ AgeTypes' /\ FinTypes' /\ CycleTypes' /\ CapTypes' /\ MutTypes'
    BY DEF TypeOK, ObjTypes, AgeTypes, FinTypes, CycleTypes, CapTypes, MutTypes
  <1>2. MarkTypes'
    <2> PICK o \in remTodo : MarkInto({o} \cup StrongChildren(o), phase)
      OBVIOUS
    <2>1. {o} \cup StrongChildren(o) \in SUBSET Slots
      BY ChildTypes DEF TypeOK, CycleTypes
    <2> QED
      BY <2>1, MarkIntoType
  <1> QED
    BY <1>1, <1>2 DEF TypeOK

LEMMA TypeRootsMarked == ASSUME TypeOK, RootsMarked PROVE TypeOK'
  <1> USE SlotsFinite, ScanEndType, NumberTypes
      DEF RootsMarked, objVars, ageVars, finVars, markVars, cycleVars, capVars, mutVars
  <1>1. ObjTypes' /\ AgeTypes' /\ FinTypes' /\ CapTypes' /\ MutTypes'
    BY SameTypes
  <1>2. MarkTypes' /\ CycleTypes'
    BY DEF TypeOK, MarkTypes, CycleTypes, Colors
  <1> QED
    BY <1>1, <1>2 DEF TypeOK

LEMMA TypePropagate == ASSUME TypeOK, Propagate PROVE TypeOK'
  <1> USE SlotsFinite, ScanEndType, NumberTypes
      DEF Propagate, objVars, ageVars, finVars, markVars, cycleVars, capVars, mutVars
  <1>1. ObjTypes' /\ AgeTypes' /\ FinTypes' /\ CycleTypes' /\ CapTypes' /\ MutTypes'
    BY DEF TypeOK, ObjTypes, AgeTypes, FinTypes, CycleTypes, CapTypes, MutTypes
  <1>2. MarkTypes'
    <2> PICK o \in work :
          /\ color' = [s \in Slots |-> IF s = o THEN "Black"
                         ELSE IF s \in StrongChildren(o) /\ White(s) THEN "Gray" ELSE color[s]]
          /\ work' = (work \ {o}) \cup Whites(StrongChildren(o))
      OBVIOUS
    <2>1. StrongChildren(o) \subseteq Slots
      BY ChildTypes DEF TypeOK, MarkTypes
    <2> QED
      BY <2>1 DEF TypeOK, MarkTypes, Colors, Whites
  <1> QED
    BY <1>1, <1>2 DEF TypeOK

LEMMA TypePropagated == ASSUME TypeOK, Propagated PROVE TypeOK'
  <1> USE SlotsFinite, ScanEndType, NumberTypes
      DEF Propagated, objVars, ageVars, finVars, markVars, cycleVars, capVars, mutVars
  <1>1. ObjTypes' /\ AgeTypes' /\ FinTypes' /\ MarkTypes' /\ CycleTypes' /\ CapTypes' /\ MutTypes'
    BY DEF TypeOK, ObjTypes, AgeTypes, FinTypes, MarkTypes, CycleTypes, CapTypes, MutTypes,
           Colors
  <1> QED
    BY <1>1 DEF TypeOK

LEMMA TypeAtomicResume == ASSUME TypeOK, AtomicResume PROVE TypeOK'
  <1> USE SlotsFinite, ScanEndType, NumberTypes
      DEF AtomicResume, objVars, ageVars, finVars, markVars, cycleVars, capVars, mutVars
  <1>1. ObjTypes' /\ AgeTypes' /\ FinTypes' /\ MarkTypes' /\ CycleTypes' /\ CapTypes' /\ MutTypes'
    BY DEF TypeOK, ObjTypes, AgeTypes, FinTypes, MarkTypes, CycleTypes, CapTypes, MutTypes,
           Colors
  <1> QED
    BY <1>1 DEF TypeOK

LEMMA TypeScanEphemeron == ASSUME TypeOK, ScanEphemeron PROVE TypeOK'
  <1> USE SlotsFinite, ScanEndType, NumberTypes
      DEF ScanEphemeron, objVars, ageVars, finVars, markVars, cycleVars, capVars, mutVars
  <1>1. ObjTypes' /\ AgeTypes' /\ FinTypes' /\ CapTypes' /\ MutTypes'
    BY DEF TypeOK, ObjTypes, AgeTypes, FinTypes, CapTypes, MutTypes
  <1>2. MarkTypes'
    <2> PICK s \in occ : MarkInto(Whites(EphemeronValues(s)),
              IF Whites(EphemeronValues(s)) = {} THEN "Atomic" ELSE "Propagate")
      OBVIOUS
    <2>1. Whites(EphemeronValues(s)) \in SUBSET Slots
      BY ChildTypes, SetTypes DEF Whites
    <2> QED
      BY <2>1, MarkIntoType
  <1>3. CycleTypes'
    <2>1. PICK s \in occ : ephCur' = s \/ ephCur' = 0
      OBVIOUS
    <2>2. s \in Nat
      BY DEF occ
    <2>3. ephCur' \in Nat
      BY <2>1, <2>2
    <2> QED
      BY <2>3 DEF TypeOK, CycleTypes
  <1> QED
    BY <1>1, <1>2, <1>3 DEF TypeOK

LEMMA TypeRetraceOld == ASSUME TypeOK, RetraceOld PROVE TypeOK'
  <1> USE SlotsFinite, ScanEndType, NumberTypes
      DEF RetraceOld, BackToPropagate, objVars, ageVars, finVars, markVars, cycleVars, capVars,
          mutVars
  <1>1. ObjTypes' /\ AgeTypes' /\ FinTypes' /\ CycleTypes' /\ CapTypes' /\ MutTypes'
    BY DEF TypeOK, ObjTypes, AgeTypes, FinTypes, CycleTypes, CapTypes, MutTypes
  <1>2. MarkTypes'
    BY SetTypes, MarkIntoType
  <1> QED
    BY <1>1, <1>2 DEF TypeOK

LEMMA TypeClearWeakValues == ASSUME TypeOK, ClearWeakValues PROVE TypeOK'
  <1> USE SlotsFinite, ScanEndType, NumberTypes
      DEF ClearWeakValues, BackToPropagate, objVars, ageVars, finVars, markVars, cycleVars,
          capVars, mutVars
  <1>1. AgeTypes' /\ FinTypes' /\ CycleTypes' /\ CapTypes' /\ MutTypes'
    BY DEF TypeOK, AgeTypes, FinTypes, CycleTypes, CapTypes, MutTypes
  <1>2. ObjTypes'
    BY ClearTypes DEF TypeOK, ObjTypes
  <1>3. MarkTypes'
    <2>1. LiveStringKeys(ClearedValues) \in SUBSET Slots
      <3>1. ASSUME NEW s \in Slots PROVE KeysOf({p \in ClearedValues[s] : IsString(p[1])}) \subseteq Slots
        <4>1. ClearedValues[s] \in SUBSET ((Slots \cup {None}) \X (Slots \cup {None}))
          BY ClearTypes
        <4> QED
          BY <4>1 DEF KeysOf
      <3> QED
        BY <3>1, SetTypes DEF LiveStringKeys
    <2> QED
      BY <2>1, MarkIntoType
  <1> QED
    BY <1>1, <1>2, <1>3 DEF TypeOK

LEMMA TypeSeparate == ASSUME TypeOK, Separate PROVE TypeOK'
  <1> USE SlotsFinite, ScanEndType, NumberTypes
      DEF Separate, BackToPropagate, objVars, ageVars, finVars, markVars, cycleVars, capVars,
          mutVars
  <1>1. AgeTypes' /\ CycleTypes' /\ CapTypes' /\ MutTypes'
    BY DEF TypeOK, AgeTypes, CycleTypes, CapTypes, MutTypes
  <1>2. ObjTypes'
    BY ClearTypes DEF TypeOK, ObjTypes
  <1>3. FinTypes'
    <2>1. fin' \in [Slots -> FinalizerStates]
      BY DEF TypeOK, FinTypes, FinalizerStates
    <2>2. queue' \subseteq [obj : Slots, ord : Nat]
      <3>1. ASSUME NEW s \in DeadFinalizable PROVE [obj |-> s, ord |-> order[s]] \in [obj : Slots, ord : Nat]
        BY SetTypes DEF TypeOK, FinTypes
      <3>2. queue \subseteq [obj : Slots, ord : Nat]
        BY DEF TypeOK, FinTypes
      <3> QED
        BY <3>1, <3>2
    <2> QED
      BY <2>1, <2>2 DEF TypeOK, FinTypes
  <1>4. MarkTypes'
    BY SetTypes, MarkIntoType
  <1> QED
    BY <1>1, <1>2, <1>3, <1>4 DEF TypeOK

LEMMA TypeReserveCandidatesFails == ASSUME TypeOK, ReserveCandidatesFails PROVE TypeOK'
  <1> USE SlotsFinite, ScanEndType, NumberTypes
      DEF ReserveCandidatesFails, objVars, ageVars, finVars, markVars, cycleVars, capVars,
          mutVars
  <1>1. ObjTypes' /\ AgeTypes' /\ FinTypes' /\ MarkTypes' /\ CycleTypes' /\ CapTypes' /\ MutTypes'
    BY DEF TypeOK, ObjTypes, AgeTypes, FinTypes, MarkTypes, CycleTypes, CapTypes, MutTypes,
           Colors
  <1> QED
    BY <1>1 DEF TypeOK

LEMMA TypeRebuildRevives == ASSUME TypeOK, RebuildRevives PROVE TypeOK'
  <1> USE SlotsFinite, ScanEndType, NumberTypes
      DEF RebuildRevives, FinishAtomic, BackToPropagate, objVars, ageVars, finVars, markVars,
          cycleVars, capVars, mutVars
  <1>1. AgeTypes' /\ FinTypes' /\ CycleTypes' /\ CapTypes' /\ MutTypes'
    BY DEF TypeOK, AgeTypes, FinTypes, CycleTypes, CapTypes, MutTypes
  <1>2. ObjTypes'
    BY ClearTypes DEF TypeOK, ObjTypes
  <1>3. MarkTypes'
    BY SetTypes, MarkIntoType
  <1> QED
    BY <1>1, <1>2, <1>3 DEF TypeOK

LEMMA TypeRebuildFails == ASSUME TypeOK, RebuildFails PROVE TypeOK'
  <1> USE SlotsFinite, ScanEndType, NumberTypes
      DEF RebuildFails, FinishAtomic, objVars, ageVars, finVars, markVars, cycleVars, capVars,
          mutVars
  <1>1. AgeTypes' /\ FinTypes' /\ MarkTypes' /\ CycleTypes' /\ CapTypes' /\ MutTypes'
    BY DEF TypeOK, AgeTypes, FinTypes, MarkTypes, CycleTypes, CapTypes, MutTypes, Colors
  <1>2. ObjTypes'
    BY ClearTypes DEF TypeOK, ObjTypes
  <1> QED
    BY <1>1, <1>2 DEF TypeOK

LEMMA TypeEnterSweep == ASSUME TypeOK, EnterSweep PROVE TypeOK'
  <1> USE SlotsFinite, ScanEndType, NumberTypes
      DEF EnterSweep, FinishAtomic, objVars, ageVars, finVars, markVars, cycleVars, capVars,
          mutVars
  <1>1. AgeTypes' /\ FinTypes' /\ MarkTypes' /\ CapTypes' /\ MutTypes'
    BY DEF TypeOK, AgeTypes, FinTypes, MarkTypes, CapTypes, MutTypes, Colors
  <1>2. ObjTypes'
    BY ClearTypes DEF TypeOK, ObjTypes
  <1>3. CycleTypes'
    BY SetTypes DEF TypeOK, CycleTypes
  <1> QED
    BY <1>1, <1>2, <1>3 DEF TypeOK

\* An emptied slot has the types of any other.
LEMMA ReclaimTypes ==
    ASSUME TypeOK, NEW s \in Slots, Reclaim(s)
    PROVE  /\ ObjTypes' /\ AgeTypes'
           /\ fin' \in [Slots -> FinalizerStates] /\ order' \in [Slots -> Nat]
           /\ remarked' \in [Slots -> BOOLEAN]
  <1>1. ObjTypes'
    BY DEF TypeOK, Reclaim, EmptySlot, ObjTypes, AllModes
  <1>2. AgeTypes'
    BY NumberTypes DEF TypeOK, Reclaim, EmptySlot, AgeTypes
  <1>3. fin' \in [Slots -> FinalizerStates]
    BY DEF TypeOK, FinTypes, Reclaim, EmptySlot, FinalizerStates
  <1>4. order' \in [Slots -> Nat]
    BY NumberTypes DEF TypeOK, FinTypes, Reclaim, EmptySlot
  <1>5. remarked' \in [Slots -> BOOLEAN]
    BY Zenon DEF TypeOK, FinTypes, Reclaim, EmptySlot
  <1> QED
    BY <1>1, <1>2, <1>3, <1>4, <1>5

LEMMA TypeSweepSlot == ASSUME TypeOK, SweepSlot PROVE TypeOK'
  <1> USE SlotsFinite, ScanEndType, NumberTypes
      DEF SweepSlot, objVars, ageVars, finVars, markVars, cycleVars, capVars, mutVars
  <1>0. PICK s \in Slots : Reclaim(s) \/ UNCHANGED <<objVars, ageVars, fin, order, remarked>>
    BY SetTypes
  <1>1. CapTypes' /\ MutTypes'
    BY DEF TypeOK, CapTypes, MutTypes
  <1>2. ObjTypes'
    BY <1>0, ReclaimTypes DEF TypeOK, ObjTypes
  <1>3. AgeTypes'
    BY <1>0, ReclaimTypes DEF TypeOK, AgeTypes
  <1>4. FinTypes'
    BY <1>0, ReclaimTypes DEF TypeOK, FinTypes
  <1>5. MarkTypes'
    BY SetTypes DEF TypeOK, Reclaim, EmptySlot, MarkTypes, Colors
  <1>6. CycleTypes'
    BY SetTypes DEF TypeOK, Reclaim, EmptySlot, CycleTypes
  <1> QED
    BY <1>1, <1>2, <1>3, <1>4, <1>5, <1>6 DEF TypeOK

LEMMA TypeEndSweep == ASSUME TypeOK, EndSweep PROVE TypeOK'
  <1> USE SlotsFinite, ScanEndType, NumberTypes
      DEF EndSweep, objVars, ageVars, finVars, markVars, cycleVars, capVars, mutVars
  <1>1. ObjTypes' /\ AgeTypes' /\ FinTypes' /\ MarkTypes' /\ CycleTypes' /\ CapTypes' /\ MutTypes'
    BY DEF TypeOK, ObjTypes, AgeTypes, FinTypes, MarkTypes, CycleTypes, CapTypes, MutTypes,
           Colors
  <1> QED
    BY <1>1 DEF TypeOK

LEMMA TypeSetGcMode == ASSUME TypeOK, SetGcMode PROVE TypeOK'
  <1> USE SlotsFinite, ScanEndType, NumberTypes
      DEF SetGcMode, objVars, ageVars, finVars, markVars, cycleVars, capVars, mutVars
  <1>1. ObjTypes' /\ AgeTypes' /\ FinTypes' /\ MarkTypes' /\ CapTypes' /\ MutTypes'
    BY DEF TypeOK, ObjTypes, AgeTypes, FinTypes, MarkTypes, CapTypes, MutTypes, Colors
  <1>2. CycleTypes'
    BY ConstAssumption DEF TypeOK, CycleTypes
  <1> QED
    BY <1>1, <1>2 DEF TypeOK

LEMMA TypeCollectCalled == ASSUME TypeOK, CollectCalled PROVE TypeOK'
  <1> USE SlotsFinite, ScanEndType, NumberTypes
      DEF CollectCalled, objVars, ageVars, finVars, markVars, cycleVars, capVars, mutVars
  <1>1. ObjTypes' /\ AgeTypes' /\ FinTypes' /\ MarkTypes' /\ CycleTypes' /\ CapTypes' /\ MutTypes'
    BY DEF TypeOK, ObjTypes, AgeTypes, FinTypes, MarkTypes, CycleTypes, CapTypes, MutTypes,
           Colors
  <1> QED
    BY <1>1 DEF TypeOK

LEMMA TypeCollectReturns == ASSUME TypeOK, CollectReturns PROVE TypeOK'
  <1> USE SlotsFinite, ScanEndType, NumberTypes
      DEF CollectReturns, objVars, ageVars, finVars, markVars, cycleVars, capVars, mutVars
  <1>1. ObjTypes' /\ AgeTypes' /\ FinTypes' /\ MarkTypes' /\ CycleTypes' /\ CapTypes' /\ MutTypes'
    BY DEF TypeOK, ObjTypes, AgeTypes, FinTypes, MarkTypes, CycleTypes, CapTypes, MutTypes,
           Colors
  <1> QED
    BY <1>1 DEF TypeOK

LEMMA TypeLoad == ASSUME TypeOK, NEW r \in Regs, NEW o \in Slots, Load(r, o) PROVE TypeOK'
  <1> USE SlotsFinite, ScanEndType, NumberTypes
      DEF Load, SetRoot, objVars, ageVars, finVars, markVars, cycleVars, capVars, mutVars
  <1>0. MutTypes'
    BY DEF TypeOK, MutTypes
  <1>1. ObjTypes' /\ AgeTypes' /\ FinTypes' /\ CycleTypes' /\ CapTypes'
    BY SameTypes
  <1>2. MarkTypes'
    <2>1. {o} \in SUBSET Slots
      BY SetTypes, ChildTypes DEF TypeOK, MutTypes, FinTypes
    <2> QED
      BY <2>1, MarkType
  <1> QED
    BY <1>0, <1>1, <1>2 DEF TypeOK

LEMMA TypeDropRoot == ASSUME TypeOK, NEW r \in Regs, DropRoot(r) PROVE TypeOK'
  <1> USE SlotsFinite, ScanEndType, NumberTypes
      DEF DropRoot, objVars, ageVars, finVars, markVars, cycleVars, capVars, mutVars
  <1>1. ObjTypes' /\ AgeTypes' /\ FinTypes' /\ MarkTypes' /\ CycleTypes' /\ CapTypes'
    BY SameTypes
  <1>2. MutTypes'
    BY DEF TypeOK, MutTypes
  <1> QED
    BY <1>1, <1>2 DEF TypeOK

LEMMA TypeAllocate ==
    ASSUME TypeOK, NEW s \in Slots, NEW k \in Kinds, NEW init \in Inits, NEW r \in Regs, Allocate(s, k, init, r)
    PROVE  TypeOK'
  <1> USE SlotsFinite, ScanEndType, NumberTypes
      DEF Allocate, SetRoot, Publish, GrowWork, objVars, ageVars, finVars, markVars, cycleVars,
          capVars, mutVars
  <1>1. AgeTypes' /\ FinTypes' /\ CycleTypes' /\ CapTypes' /\ MutTypes'
    BY DEF TypeOK, AgeTypes, FinTypes, CycleTypes, CapTypes, MutTypes
  <1>2. ObjTypes'
    BY ConstAssumption, SetTypes DEF TypeOK, ObjTypes, Inits
  <1>3. MarkTypes'
    <2>1. {s} \in SUBSET Slots
      BY SetTypes, ChildTypes DEF TypeOK, MutTypes, FinTypes
    <2> QED
      BY <2>1, MarkType
  <1> QED
    BY <1>1, <1>2, <1>3 DEF TypeOK

LEMMA TypeAllocateAndStep ==
    ASSUME TypeOK, NEW s \in Slots, NEW k \in Kinds, NEW init \in Inits, AllocateAndStep(s, k, init)
    PROVE  TypeOK'
  <1> USE SlotsFinite, ScanEndType, NumberTypes
      DEF AllocateAndStep, Publish, GrowWork, objVars, ageVars, finVars, markVars, cycleVars,
          capVars, mutVars
  <1>1. AgeTypes' /\ FinTypes' /\ CycleTypes' /\ CapTypes' /\ MutTypes'
    BY DEF TypeOK, AgeTypes, FinTypes, CycleTypes, CapTypes, MutTypes
  <1>2. ObjTypes'
    BY ConstAssumption, SetTypes DEF TypeOK, ObjTypes, Inits
  <1>3. MarkTypes'
    <2>1. {s} \in SUBSET Slots
      BY SetTypes, ChildTypes DEF TypeOK, MutTypes, FinTypes
    <2> QED
      BY <2>1, MarkType
  <1> QED
    BY <1>1, <1>2, <1>3 DEF TypeOK

LEMMA TypeAllocateReturns == ASSUME TypeOK, NEW r \in Regs, AllocateReturns(r) PROVE TypeOK'
  <1> USE SlotsFinite, ScanEndType, NumberTypes
      DEF AllocateReturns, SetRoot, objVars, ageVars, finVars, markVars, cycleVars, capVars,
          mutVars
  <1>0. MutTypes'
    BY DEF TypeOK, MutTypes
  <1>1. ObjTypes' /\ AgeTypes' /\ FinTypes' /\ CycleTypes' /\ CapTypes'
    BY SameTypes
  <1>2. MarkTypes'
    <2>1. {fresh} \in SUBSET Slots
      BY SetTypes, ChildTypes DEF TypeOK, MutTypes, FinTypes
    <2> QED
      BY <2>1, MarkType
  <1> QED
    BY <1>0, <1>1, <1>2 DEF TypeOK

LEMMA TypeAllocateFails == ASSUME TypeOK, AllocateFails PROVE TypeOK'
  <1> USE SlotsFinite, ScanEndType, NumberTypes
      DEF AllocateFails, ReleaseGrowth, objVars, ageVars, finVars, markVars, cycleVars, capVars,
          mutVars
  <1>1. MutTypes'
    BY DEF TypeOK, MutTypes
  <1>2. ObjTypes'
    BY DEF TypeOK, MutTypes, Reclaim, EmptySlot, ObjTypes, AllModes
  <1>3. AgeTypes'
    BY DEF TypeOK, MutTypes, Reclaim, EmptySlot, AgeTypes
  <1>4. FinTypes'
    BY DEF TypeOK, MutTypes, Reclaim, EmptySlot, FinTypes, FinalizerStates
  <1>5. MarkTypes'
    BY DEF TypeOK, MutTypes, Reclaim, MarkTypes, Colors
  <1>6. CycleTypes'
    BY DEF TypeOK, Reclaim, CycleTypes
  <1>7. CapTypes'
    BY DEF TypeOK, MutTypes, CapTypes
  <1> QED
    BY <1>1, <1>2, <1>3, <1>4, <1>5, <1>6, <1>7 DEF TypeOK

LEMMA TypeWriteRef == ASSUME TypeOK, NEW o \in Slots, NEW c \in Slots, WriteRef(o, c) PROVE TypeOK'
  <1> USE SlotsFinite, ScanEndType, NumberTypes
      DEF WriteRef, Remember, objVars, ageVars, finVars, markVars, cycleVars, capVars, mutVars
  <1>0. ObjTypes' /\ CycleTypes'
    BY DEF TypeOK, ObjTypes, CycleTypes
  <1>1. AgeTypes' /\ FinTypes' /\ CapTypes' /\ MutTypes'
    BY SameTypes
  <1>2. MarkTypes'
    <2>1. (IF color[o] = "Black" THEN {c} ELSE {}) \in SUBSET Slots
      OBVIOUS
    <2> QED
      BY <2>1, MarkType
  <1> QED
    BY <1>0, <1>1, <1>2 DEF TypeOK

LEMMA TypeClearRef == ASSUME TypeOK, NEW o \in Slots, NEW c \in Slots, ClearRef(o, c) PROVE TypeOK'
  <1> USE SlotsFinite, ScanEndType, NumberTypes
      DEF ClearRef, objVars, ageVars, finVars, markVars, cycleVars, capVars, mutVars
  <1>1. AgeTypes' /\ FinTypes' /\ MarkTypes' /\ CycleTypes' /\ CapTypes' /\ MutTypes'
    BY SameTypes
  <1>2. ObjTypes'
    BY DEF TypeOK, ObjTypes
  <1> QED
    BY <1>1, <1>2 DEF TypeOK

LEMMA TypeRawSet ==
    ASSUME TypeOK, NEW o \in Slots, NEW k \in Slots \cup {None}, NEW v \in Slots \cup {None}, RawSet(o, k, v)
    PROVE  TypeOK'
  <1> USE SlotsFinite, ScanEndType, NumberTypes
      DEF RawSet, Remember, objVars, ageVars, finVars, markVars, cycleVars, capVars, mutVars
  <1>0. CycleTypes'
    BY DEF TypeOK, CycleTypes
  <1>1. AgeTypes' /\ FinTypes' /\ CapTypes' /\ MutTypes'
    BY SameTypes
  <1>2. ObjTypes'
    <2>1. pairs' = [pairs EXCEPT ![o] = {p \in pairs[o] : p[1] # k} \cup {<<k, v>>}]
      OBVIOUS
    <2>2. pairs' \in [Slots -> SUBSET ((Slots \cup {None}) \X (Slots \cup {None}))]
      <3> DEFINE P == (Slots \cup {None}) \X (Slots \cup {None})
      <3>1. <<k, v>> \in P
        OBVIOUS
      <3>2. pairs \in [Slots -> SUBSET P]
        BY DEF TypeOK, ObjTypes
      <3> HIDE DEF P
      <3>3. {p \in pairs[o] : p[1] # k} \cup {<<k, v>>} \in SUBSET P
        BY <3>1, <3>2
      <3>4. pairs' \in [Slots -> SUBSET P]
        BY <2>1, <3>2, <3>3
      <3> QED
        BY <3>4 DEF P
    <2> QED
      BY <2>2 DEF TypeOK, ObjTypes
  <1>3. MarkTypes'
    <2>1. ASSUME NEW n \in {k, None} PROVE BarrierMarks(o, n, v) \in SUBSET Slots
      BY <2>1 DEF BarrierMarks
    <2> QED
      BY <2>1, MarkType
  <1> QED
    BY <1>0, <1>1, <1>2, <1>3 DEF TypeOK

LEMMA TypeRawClear ==
    ASSUME TypeOK, NEW o \in Slots, NEW p \in pairs[o], RawClear(o, p)
    PROVE  TypeOK'
  <1> USE SlotsFinite, ScanEndType, NumberTypes
      DEF RawClear, objVars, ageVars, finVars, markVars, cycleVars, capVars, mutVars
  <1>1. AgeTypes' /\ FinTypes' /\ MarkTypes' /\ CycleTypes' /\ CapTypes' /\ MutTypes'
    BY SameTypes
  <1>2. ObjTypes'
    BY DEF TypeOK, ObjTypes
  <1> QED
    BY <1>1, <1>2 DEF TypeOK

LEMMA TypeSetWeakMode ==
    ASSUME TypeOK, NEW o \in Slots, NEW m \in WeakModes, SetWeakMode(o, m)
    PROVE  TypeOK'
  <1> USE SlotsFinite, ScanEndType, NumberTypes
      DEF SetWeakMode, objVars, ageVars, finVars, markVars, cycleVars, capVars, mutVars
  <1>1. AgeTypes' /\ FinTypes' /\ MarkTypes' /\ CycleTypes' /\ CapTypes' /\ MutTypes'
    BY SameTypes
  <1>2. ObjTypes'
    BY ConstAssumption DEF TypeOK, ObjTypes
  <1> QED
    BY <1>1, <1>2 DEF TypeOK

LEMMA TypeRegisterFinalizer == ASSUME TypeOK, NEW o \in Slots, RegisterFinalizer(o) PROVE TypeOK'
  <1> USE SlotsFinite, ScanEndType, NumberTypes
      DEF RegisterFinalizer, objVars, ageVars, finVars, markVars, cycleVars, capVars, mutVars
  <1>1. ObjTypes' /\ AgeTypes' /\ MarkTypes' /\ CycleTypes' /\ CapTypes' /\ MutTypes'
    BY SameTypes
  <1>2. FinTypes'
    <2>1. fin' \in [Slots -> FinalizerStates]
      BY DEF TypeOK, FinTypes, FinalizerStates
    <2>2. remarked' \in [Slots -> BOOLEAN]
      BY Zenon DEF TypeOK, FinTypes
    <2> QED
      BY <2>1, <2>2 DEF TypeOK, FinTypes
  <1> QED
    BY <1>1, <1>2 DEF TypeOK

LEMMA TypeStartFinalizer ==
    ASSUME TypeOK, NEW e \in queue, NEW r \in Regs, StartFinalizer(e, r)
    PROVE  TypeOK'
  <1> USE SlotsFinite, ScanEndType, NumberTypes
      DEF StartFinalizer, SetRoot, objVars, ageVars, finVars, markVars, cycleVars, capVars,
          mutVars
  <1>1. ObjTypes' /\ AgeTypes' /\ CycleTypes' /\ CapTypes'
    BY SameTypes
  <1>2. FinTypes'
    BY DEF TypeOK, FinTypes, FinalizerStates
  <1>3. MarkTypes'
    <2>1. {e.obj} \in SUBSET Slots
      BY SetTypes, ChildTypes DEF TypeOK, MutTypes, FinTypes
    <2> QED
      BY <2>1, MarkType
  <1>4. MutTypes'
    BY DEF TypeOK, FinTypes, MutTypes
  <1> QED
    BY <1>1, <1>2, <1>3, <1>4 DEF TypeOK

LEMMA TypeFinishFinalizer == ASSUME TypeOK, NEW e \in queue, FinishFinalizer(e) PROVE TypeOK'
  <1> USE SlotsFinite, ScanEndType, NumberTypes
      DEF FinishFinalizer, objVars, ageVars, finVars, markVars, cycleVars, capVars, mutVars
  <1>1. ObjTypes' /\ AgeTypes' /\ MarkTypes' /\ CycleTypes' /\ CapTypes' /\ MutTypes'
    BY SameTypes
  <1>2. FinTypes'
    BY DEF TypeOK, FinTypes, FinalizerStates
  <1> QED
    BY <1>1, <1>2 DEF TypeOK

\* Every step keeps the types.
LEMMA TypeStep == TypeOK /\ [Next]_vars => TypeOK'
  <1> SUFFICES ASSUME TypeOK, [Next]_vars PROVE TypeOK'
    OBVIOUS
  <1>1. CASE GcStep
    <2>1. CASE \/ StepBegins \/ CollectBegins \/ MarkRoot \/ TraceRemembered \/ RootsMarked
               \/ Propagate \/ Propagated \/ AtomicResume \/ ScanEphemeron \/ RetraceOld
      BY <2>1, TypeStepBegins, TypeCollectBegins, TypeMarkRoot, TypeTraceRemembered,
         TypeRootsMarked, TypePropagate, TypePropagated, TypeAtomicResume, TypeScanEphemeron,
         TypeRetraceOld
    <2>2. CASE \/ ClearWeakValues \/ Separate \/ ReserveCandidatesFails \/ RebuildRevives
               \/ RebuildFails \/ EnterSweep \/ SweepSlot \/ EndSweep
      BY <2>2, TypeClearWeakValues, TypeSeparate, TypeReserveCandidatesFails,
         TypeRebuildRevives, TypeRebuildFails, TypeEnterSweep, TypeSweepSlot, TypeEndSweep
    <2> QED
      BY <1>1, <2>1, <2>2 DEF GcStep
  <1>2. CASE Mutator
    BY <1>2, SetTypes, TypeSetGcMode, TypeCollectCalled, TypeCollectReturns, TypeLoad,
       TypeDropRoot, TypeAllocate, TypeAllocateAndStep, TypeAllocateReturns, TypeAllocateFails,
       TypeWriteRef, TypeClearRef, TypeRawSet, TypeRawClear, TypeSetWeakMode,
       TypeRegisterFinalizer
       DEF Mutator
  <1>3. CASE Finalizing
    BY <1>3, TypeStartFinalizer, TypeFinishFinalizer DEF Finalizing
  <1>4. CASE UNCHANGED vars
    BY <1>4, SameTypes DEF TypeOK, vars
  <1> QED
    BY <1>1, <1>2, <1>3, <1>4 DEF Next

\* The state of the collector, the heap and the finalizer queue stays within
\* the types of the fields of GcState, Slot and Vm.
THEOREM TypeCorrect == Spec => []TypeOK
  BY TypeInit, TypeStep, PTL DEF Spec

-----------------------------------------------------------------------------
(* What every step of the collector keeps.                                 *)

\* The step takes references out of objects, and adds none.
Shrinks ==
    /\ UNCHANGED <<kind, wmode>>
    /\ \A s \in Slots : kids'[s] \subseteq kids[s] /\ pairs'[s] \subseteq pairs[s]

\* The step unmarks nothing, and marks live objects only.
MarksLive == \A s \in Slots : (Marked(s) => Marked(s)') /\ (Marked(s)' => s \in Live)

\* What becomes of the string keys of tables that are weak both ways depends on
\* the mode (KvStringKeysKept): there are none, or every object that survives a
\* cycle is old at once, and rebuild_remembered_set then revives such keys.
KvStringsKept ==
    \/ ~("all" \in WeakModes /\ "string" \in Kinds)
    \/ GcModes = {"Generational"} /\ Promote = 1

-----------------------------------------------------------------------------
(* The references of an object.                                            *)

\* The sets the steps quantify over consist of slots.
LEMMA Domains ==
    TypeOK => /\ occ \subseteq Slots /\ Roots \subseteq Slots /\ RegObjects \subseteq Roots
              /\ QueuedObjects \subseteq Roots
              /\ \A s \in Slots : Children(s) \subseteq Slots
  BY SetTypes, ChildTypes DEF Roots

\* Slots are positive numbers, which cursors at zero have not passed.
LEMMA SlotNumbers == ~(0 > 0) /\ \A s \in Slots : s \in Nat /\ s > 0 /\ ~(s <= 0)
  BY SMT, ConstAssumption DEF Slots

\* The cursor e has passed everything up to o but o itself.
LEMMA Passed ==
    ASSUME NEW s \in Nat, NEW o \in Nat, NEW e \in Nat, s <= o, s > e => o <= s
    PROVE  s <= e \/ s = o
  BY SMT

\* A slot below a number makes the number positive.
LEMMA Positive == ASSUME NEW s \in Nat, NEW n \in Nat, s > 0, s <= n PROVE n > 0
  BY SMT

\* Keys and values of pairs.
LEMMA PairTypes ==
    /\ TypeOK => \A s \in Slots : \A p \in pairs[s] :
                    p[1] \in Slots \cup {None} /\ p[2] \in Slots \cup {None}
    /\ TypeOK' => \A s \in Slots : \A p \in pairs'[s] :
                    p[1] \in Slots \cup {None} /\ p[2] \in Slots \cup {None}
  BY SMT DEF TypeOK, ObjTypes

\* Strong children are children.
LEMMA StrongSub == \A s \in Slots : TypeOK => StrongChildren(s) \subseteq Children(s)
  <1> SUFFICES ASSUME NEW s \in Slots, TypeOK PROVE StrongChildren(s) \subseteq Children(s)
    OBVIOUS
  <1>0. wmode[s] \in AllModes
    BY DEF TypeOK, ObjTypes
  <1>1. StrongKeys(s) \subseteq KeysOf(pairs[s])
    BY <1>0 DEF StrongKeys, KeysOf, AllModes
  <1>2. StrongValues(s) \subseteq ValuesOf(pairs[s])
    BY <1>0 DEF StrongValues, ValuesOf, AllModes
  <1> QED
    BY <1>1, <1>2 DEF StrongChildren, Children, ChildrenIn

\* What a step that only takes references away leaves as it was.
LEMMA ShrinkFacts ==
    ASSUME TypeOK, Shrinks
    PROVE  /\ occ' = occ
           /\ \A s \in Slots : /\ Children(s)' \subseteq Children(s)
                               /\ StrongChildren(s)' \subseteq StrongChildren(s)
           /\ \A s \in Slots \cup {None} : /\ IsString(s)' = IsString(s)
                                           /\ IsObject(s)' = IsObject(s)
  <1>1. occ' = occ
    BY DEF occ, Shrinks
  <1>2. \A s \in Slots \cup {None} : IsString(s)' = IsString(s) /\ IsObject(s)' = IsObject(s)
    BY DEF IsString, IsObject, Shrinks
  <1>3. \A s \in Slots : Children(s)' \subseteq Children(s)
    BY DEF Children, ChildrenIn, KeysOf, ValuesOf, Shrinks
  <1>4. ASSUME NEW s \in Slots PROVE StrongChildren(s)' \subseteq StrongChildren(s)
    <2>0. wmode[s] \in {"strong", "keys", "values", "all"} /\ wmode'[s] = wmode[s]
      BY DEF TypeOK, ObjTypes, AllModes, Shrinks
    <2>1. StrongKeys(s)' \subseteq StrongKeys(s)
      BY <2>0 DEF StrongKeys, KeysOf, IsString, Shrinks
    <2>2. StrongValues(s)' \subseteq StrongValues(s)
      BY <2>0 DEF StrongValues, ValuesOf, IsString, IsObject, Shrinks
    <2>3. kids'[s] \subseteq kids[s]
      BY DEF Shrinks
    <2> QED
      BY <2>1, <2>2, <2>3 DEF StrongChildren
  <1> QED
    BY <1>1, <1>2, <1>3, <1>4

\* A step that leaves the objects alone takes references away.
LEMMA QuietShrinks == TypeOK /\ UNCHANGED <<kind, kids, pairs, wmode>> => Shrinks
  BY DEF Shrinks

-----------------------------------------------------------------------------
(* Live objects and marking.                                               *)

\* All objects are live until the heap is sealed, then the marked ones.
LEMMA LiveShape ==
    TypeOK /\ Control =>
        /\ Live \subseteq occ /\ occ \subseteq Slots
        /\ ~Sealed => Live = occ
        /\ Sealed => Live = {s \in occ : Marked(s)}
        /\ Sealed => phase \in {"Propagate", "Atomic", "Sweep"}
  <1> SUFFICES ASSUME TypeOK, Control
               PROVE  /\ Live \subseteq occ /\ occ \subseteq Slots
                      /\ ~Sealed => Live = occ
                      /\ Sealed => Live = {s \in occ : Marked(s)}
                      /\ Sealed => phase \in {"Propagate", "Atomic", "Sweep"}
    OBVIOUS
  <1>1. Live \subseteq occ /\ (~Sealed => Live = occ) /\ occ \subseteq Slots
    BY DEF Live, Condemned, occ
  <1>2. Sealed => phase \in {"Propagate", "Atomic", "Sweep"}
    BY DEF TypeOK, MarkTypes, Control, Sealed
  <1>3. Sealed => Live = {s \in occ : Marked(s)}
    BY <1>2 DEF Control, Live, Condemned, Sweepable, Marked, White
  <1> QED
    BY <1>1, <1>2, <1>3

\* The same, for the state after a step.
LEMMA LiveShapeNext ==
    TypeOK' /\ Control' =>
        /\ Live' \subseteq occ' /\ occ' \subseteq Slots
        /\ ~Sealed' => Live' = occ'
        /\ Sealed' => Live' = {s \in occ' : Marked(s)'}
  <1>1. (TypeOK /\ Control =>
           /\ Live \subseteq occ /\ occ \subseteq Slots
           /\ ~Sealed => Live = occ
           /\ Sealed => Live = {s \in occ : Marked(s)}
           /\ Sealed => phase \in {"Propagate", "Atomic", "Sweep"})'
    BY LiveShape, PTL
  <1> QED
    BY <1>1

\* A marked object is not condemned.
LEMMA MarkedLive == IInv => \A s \in Slots : Marked(s) => s \in Live
  BY LiveShape DEF IInv, SlotShape, Marked, occ

\* gc_mark_slot, as allocation and barriers use it: it grays white objects
\* only, and reopens a sweep.
LEMMA MarkFacts ==
    ASSUME TypeOK, WorkIsGray, NEW S \in SUBSET Slots, Mark(S)
    PROVE  /\ \A s \in Slots : Marked(s)' <=> Marked(s) \/ (phase # "Pause" /\ s \in S)
           /\ \A s \in Slots : color'[s] = "Black" <=> color[s] = "Black"
           /\ WorkIsGray'
           /\ phase' = phase \/ (phase = "Sweep" /\ phase' = "Propagate" /\ Whites(S) # {})
           /\ Whites(S) = {} => UNCHANGED markVars
           /\ work' \subseteq work \cup S
  BY DEF TypeOK, MarkTypes, WorkIsGray, Mark, Marked, White, Whites, Colors, markVars

\* gc_mark_slot, as the units of a cycle use it.
LEMMA MarkIntoFacts ==
    ASSUME TypeOK, WorkIsGray, NEW S \in SUBSET Slots,
           NEW p \in {"RootMark", "Propagate", "Atomic"}, MarkInto(S, p)
    PROVE  /\ \A s \in Slots : Marked(s)' <=> Marked(s) \/ s \in S
           /\ \A s \in Slots : color'[s] = "Black" <=> color[s] = "Black"
           /\ WorkIsGray'
           /\ phase' = p
           /\ work' \subseteq work \cup S
  BY DEF TypeOK, MarkTypes, WorkIsGray, MarkInto, Marked, White, Whites, Colors

-----------------------------------------------------------------------------
(* What a step keeps that shrinks the heap and marks live objects.         *)

\* The Keep lemmas: each part of IInv survives a step that takes references
\* away and marks what is alive.
LEMMA KeepLive ==
    ASSUME IInv, TypeOK', Control', Shrinks, MarksLive, Sealed' = Sealed
    PROVE  Live' = Live
  <1>1. occ' = occ
    BY ShrinkFacts DEF IInv
  <1>2. CASE ~Sealed
    BY <1>1, <1>2, LiveShape, LiveShapeNext DEF IInv
  <1>3. CASE Sealed
    BY <1>1, <1>3, LiveShape, LiveShapeNext DEF IInv, MarksLive
  <1> QED
    BY <1>2, <1>3

LEMMA KeepChildren ==
    ASSUME IInv, TypeOK', Control', Shrinks, MarksLive, Sealed' = Sealed
    PROVE  \A s \in Live' : Children(s)' \subseteq Live'
  BY KeepLive, ShrinkFacts, LiveShape DEF IInv, NoDangling

LEMMA KeepSlotShape ==
    ASSUME IInv, Shrinks, MarksLive,
           \A s \in Slots : want'[s] \in WeakModes \cup {"strong"},
           \A s \in Slots \ occ : fin'[s] = fin[s]
    PROVE  SlotShape'
  <1> SUFFICES ASSUME NEW s \in Slots
               PROVE (/\ kind[s] \in Kinds \cup {"free"}
                      /\ want[s] \in WeakModes \cup {"strong"} /\ wmode[s] \in WeakModes \cup {"strong"}
                      /\ kind[s] # "table" => kids[s] = {} /\ pairs[s] = {}
                      /\ kind[s] = "free" => /\ color[s] = "White" /\ wmode[s] = "strong"
                                             /\ fin[s] = "Unregistered")'
    BY DEF SlotShape
  <1>1. kids'[s] \subseteq kids[s] /\ pairs'[s] \subseteq pairs[s] /\ kind' = kind /\ wmode' = wmode
    BY DEF Shrinks
  <1>2. kind[s] = "free" => s \notin occ /\ color'[s] = "White"
    BY LiveShape DEF occ, MarksLive, Marked, IInv
  <1> QED
    BY <1>1, <1>2 DEF IInv, SlotShape

LEMMA KeepTriColor ==
    ASSUME IInv, Shrinks, MarksLive, UNCHANGED <<cycle, age>>,
           phase' = "Pause" \/ phase # "Pause", phase' = "RootMark" => phase = "RootMark",
           \A s \in Slots : color'[s] = "Black" => color[s] = "Black"
    PROVE  TriColor'
  <1> SUFFICES ASSUME phase' # "Pause", NEW s \in occ', color'[s] = "Black", ~Untraced(s)'
               PROVE  phase' # "RootMark" /\ \A c \in StrongChildren(s)' : Marked(c)'
    BY DEF TriColor
  <1>1. s \in occ /\ s \in Slots
    BY ShrinkFacts, Domains DEF IInv
  <1>2. color[s] = "Black" /\ ~Untraced(s) /\ phase # "Pause"
    BY <1>1 DEF Untraced
  <1>3. phase # "RootMark" /\ \A c \in StrongChildren(s) : Marked(c)
    BY <1>1, <1>2 DEF IInv, TriColor
  <1>4. StrongChildren(s)' \subseteq StrongChildren(s) /\ StrongChildren(s) \subseteq Slots
    BY <1>1, ShrinkFacts, ChildTypes DEF IInv
  <1> QED
    BY <1>3, <1>4 DEF MarksLive

LEMMA KeepWeakValues ==
    ASSUME IInv, Shrinks, MarksLive, stage' = stage, Sealed' = Sealed
    PROVE  WeakValuesCleared'
  <1> SUFFICES ASSUME stage # "BeforeWeakValues", ~Sealed, NEW s \in occ',
                      wmode'[s] \in {"values", "all"}, NEW p \in pairs'[s]
               PROVE  ~DeadRef(p[2])'
    BY DEF WeakValuesCleared
  <1>1. s \in occ /\ s \in Slots /\ wmode'[s] = wmode[s] /\ p \in pairs[s]
    BY ShrinkFacts, Domains DEF IInv, Shrinks
  <1>2. ~DeadRef(p[2])
    BY <1>1 DEF IInv, WeakValuesCleared
  <1>3. p[2] \in Slots \cup {None}
    BY <1>1, PairTypes DEF IInv
  <1> QED
    BY <1>2, <1>3, ShrinkFacts DEF IInv, DeadRef, IsObject, MarksLive, Marked, White

LEMMA KeepFresh ==
    ASSUME IInv, TypeOK', Control', Shrinks, MarksLive, Sealed' = Sealed,
           fresh' \in {fresh, None}, fresh' # None => fin'[fresh] = fin[fresh],
           fresh \notin RegObjects' \cup QueuedObjects' \/ fresh' = None
    PROVE  FreshUnknown'
  <1> SUFFICES ASSUME fresh' # None
               PROVE  /\ fresh' \notin RegObjects' \cup QueuedObjects'
                      /\ fin'[fresh'] = "Unregistered"
                      /\ \A s \in Live' : fresh' \notin Children(s)'
    BY DEF FreshUnknown
  <1>1. fresh' = fresh /\ fresh # None
    OBVIOUS
  <1>2. \A s \in Live' : fresh' \notin Children(s)'
    BY <1>1, KeepLive, ShrinkFacts, LiveShape DEF IInv, FreshUnknown
  <1> QED
    BY <1>1, <1>2 DEF IInv, FreshUnknown

LEMMA KeepSwept ==
    ASSUME IInv, Shrinks, MarksLive, sweepCur' = sweepCur
    PROVE  SweptIsLive'
  BY ShrinkFacts, Domains DEF IInv, SweptIsLive, MarksLive

LEMMA KeepSeparated ==
    ASSUME IInv, Shrinks, MarksLive, stage' = stage,
           \A s \in Slots : fin'[s] = "Registered" => fin[s] = "Registered"
    PROVE  FinalizersSeparated'
  BY ShrinkFacts, Domains DEF IInv, FinalizersSeparated, MarksLive

\* The lists and the roots still lead to live objects.
LEMMA KeepNoDangling ==
    ASSUME IInv, TypeOK', Control', Shrinks, MarksLive, Sealed' = Sealed,
           Roots' \subseteq Live, rootsTodo' \subseteq Live, work' \subseteq Live,
           remTodo' \subseteq remembered', remembered' \subseteq occ
    PROVE  NoDangling'
  <1>1. Live' = Live /\ occ' = occ
    BY KeepLive, ShrinkFacts DEF IInv
  <1>2. \A s \in Live' : Children(s)' \subseteq Live'
    BY KeepChildren
  <1> QED
    BY <1>1, <1>2 DEF NoDangling

\* Away from the end of the ephemeron scan.
LEMMA NotScanned ==
    ASSUME phase' # "Atomic" \/ Sealed' \/ ~(work' \subseteq {fresh'})
    PROVE  EphemeronsScanned'
  BY DEF EphemeronsScanned

LEMMA KeepScanned ==
    ASSUME IInv, Shrinks, MarksLive, Sealed' = Sealed, ephCur' = ephCur,
           phase' = "Atomic" /\ work' \subseteq {fresh'} =>
               /\ phase = "Atomic" /\ work \subseteq {fresh}
               /\ \A s \in Slots : Marked(s)' = Marked(s)
    PROVE  EphemeronsScanned'
  <1> SUFFICES ASSUME phase' = "Atomic", work' \subseteq {fresh'}, ~Sealed,
                      NEW s \in occ', s <= ephCur, Marked(s)', wmode'[s] = "keys",
                      NEW p \in pairs'[s], (IsObject(p[1]) => Marked(p[1]))', p[2] # None
               PROVE  Marked(p[2])'
    BY DEF EphemeronsScanned
  <1>1. s \in occ /\ s \in Slots /\ wmode[s] = "keys" /\ p \in pairs[s]
    BY ShrinkFacts, Domains DEF IInv, Shrinks
  <1>2. p[1] \in Slots \cup {None} /\ p[2] \in Slots \cup {None}
    BY <1>1, PairTypes DEF IInv
  <1>3. IsObject(p[1]) => Marked(p[1])
    <2>1. IsObject(p[1])' = IsObject(p[1])
      BY <1>2, ShrinkFacts DEF IInv
    <2>2. IsObject(p[1]) => p[1] \in Slots
      BY <1>2 DEF IsObject
    <2> QED
      BY <2>1, <2>2
  <1> QED
    BY <1>1, <1>2, <1>3 DEF IInv, EphemeronsScanned

\* A step that takes references away and marks live objects, once the parts of
\* IInv that depend on the phase are known to hold after it.
LEMMA InvKept ==
    ASSUME IInv, TypeOK', Shrinks, MarksLive, Sealed' = Sealed,
           UNCHANGED <<want, fin, queue, fresh, stage, sweepCur>>,
           RegObjects' \subseteq RegObjects, rootsTodo' \subseteq Live, work' \subseteq Live,
           remTodo' \subseteq remembered', remembered' \subseteq occ,
           Control', WorkIsGray', RootsCovered', TriColor', EphemeronsScanned'
    PROVE  IInv'
  <1>1. SlotShape'
    BY KeepSlotShape DEF IInv, SlotShape
  <1>2. WeakValuesCleared'
    BY KeepWeakValues
  <1>3. QueuedObjects' = QueuedObjects
    BY DEF QueuedObjects
  <1>4. FreshUnknown'
    BY <1>3, KeepFresh DEF IInv, FreshUnknown
  <1>5. SweptIsLive'
    BY KeepSwept
  <1>6. FinalizersSeparated'
    BY KeepSeparated
  <1>7. QueueIsPending'
    BY <1>3 DEF IInv, QueueIsPending
  <1>8. NoDangling'
    BY <1>3, KeepNoDangling DEF IInv, NoDangling, Roots
  <1> QED
    BY <1>1, <1>2, <1>4, <1>5, <1>6, <1>7, <1>8 DEF IInv

\* A step that takes references away and marks nothing.
LEMMA InvQuiet ==
    ASSUME IInv, TypeOK', Shrinks, Sealed' = Sealed,
           UNCHANGED <<want, fin, queue, fresh, stage, sweepCur, cycle, age, color, work, rootsTodo,
                       remTodo, remembered>>,
           RegObjects' \subseteq RegObjects,
           phase' = phase \/ (phase # "Pause" /\ phase' \in {"Propagate", "Atomic"} /\ rootsTodo = {}),
           Control', EphemeronsScanned'
    PROVE  IInv'
  <1>1. MarksLive /\ \A s \in Slots : Marked(s)' = Marked(s)
    BY MarkedLive DEF MarksLive, Marked
  <1>2. WorkIsGray'
    BY DEF IInv, WorkIsGray
  <1>3. RootsCovered'
    <2>1. Roots' \subseteq Roots /\ Roots \subseteq Slots
      BY Domains DEF IInv, Roots, QueuedObjects
    <2>2. phase # "Pause" => phase \in {"RootMark", "Propagate", "Atomic", "Sweep"}
      BY DEF IInv, TypeOK, MarkTypes
    <2> QED
      BY <1>1, <2>1, <2>2 DEF IInv, RootsCovered
  <1>4. TriColor'
    BY <1>1, KeepTriColor
  <1>5. /\ rootsTodo' \subseteq Live /\ work' \subseteq Live /\ remTodo' \subseteq remembered'
        /\ remembered' \subseteq occ
    BY DEF IInv, NoDangling
  <1> QED
    BY <1>1, <1>2, <1>3, <1>4, <1>5, InvKept

\* A step of the mutator that takes references away.
LEMMA InvDrops ==
    ASSUME IInv, TypeOK', Shrinks,
           UNCHANGED <<want, fin, queue, fresh, running, age, markVars, cycleVars, remembered>>,
           RegObjects' \subseteq RegObjects,
           collecting' \in {"idle", collecting} \/ (fresh = None /\ ~running)
    PROVE  IInv'
  <1>1. Sealed' = Sealed /\ \A s \in Slots : Marked(s)' = Marked(s)
    BY DEF Sealed, Marked, markVars, cycleVars
  <1>2. MarksLive
    BY <1>1, MarkedLive DEF MarksLive
  <1>3. Control'
    BY <1>1, ShrinkFacts, Domains DEF IInv, Control, markVars, cycleVars
  <1>4. EphemeronsScanned'
    BY <1>1, <1>2, KeepScanned DEF IInv, TypeOK, MarkTypes, markVars, cycleVars
  <1> QED
    BY <1>1, <1>3, <1>4, InvQuiet DEF markVars, cycleVars

-----------------------------------------------------------------------------
(* Slots that are filled or emptied.                                       *)

\* A slot is filled or emptied that the object t does not refer to.
LEMMA Elsewhere ==
    ASSUME TypeOK, NEW s \in Slots, NEW k, kind' = [kind EXCEPT ![s] = k],
           NEW t \in Slots \ {s}, s \notin Children(t),
           kids'[t] = kids[t], pairs'[t] = pairs[t], wmode'[t] = wmode[t]
    PROVE  /\ Children(t)' = Children(t) /\ StrongChildren(t)' = StrongChildren(t)
           /\ \A p \in pairs[t] : /\ p[1] \in Slots \cup {None} /\ p[2] \in Slots \cup {None}
                                  /\ p[1] # s /\ p[2] # s
                                  /\ IsObject(p[1])' = IsObject(p[1])
                                  /\ IsObject(p[2])' = IsObject(p[2])
  <1>1. Children(t)' = Children(t)
    BY DEF Children, ChildrenIn, KeysOf, ValuesOf
  <1>2. ASSUME NEW p \in pairs[t]
        PROVE  /\ p[1] \in Slots \cup {None} /\ p[2] \in Slots \cup {None}
               /\ p[1] # s /\ p[2] # s
    <2>1. p[1] \in Slots \cup {None} /\ p[2] \in Slots \cup {None}
      BY <1>2, PairTypes
    <2>2. p[1] # s /\ p[2] # s
      BY <1>2, SlotsFinite DEF Children, ChildrenIn, KeysOf, ValuesOf
    <2> QED
      BY <2>1, <2>2
  <1>3. \A x \in (Slots \cup {None}) \ {s} : IsObject(x)' = IsObject(x) /\ IsString(x)' = IsString(x)
    BY DEF IsObject, IsString, TypeOK, ObjTypes
  <1>4. wmode[t] \in {"strong", "keys", "values", "all"}
    BY DEF TypeOK, ObjTypes, AllModes
  <1>5. StrongKeys(t)' = StrongKeys(t)
    <2>1. {p \in pairs'[t] : IsString(p[1])'} = {p \in pairs[t] : IsString(p[1])}
      BY <1>2, <1>3
    <2> QED
      BY <1>4, <2>1 DEF StrongKeys, KeysOf
  <1>6. StrongValues(t)' = StrongValues(t)
    <2>1. {p \in pairs'[t] : IsString(p[2])'} = {p \in pairs[t] : IsString(p[2])}
      BY <1>2, <1>3
    <2>2. {p \in pairs'[t] : ~IsObject(p[1])'} = {p \in pairs[t] : ~IsObject(p[1])}
      BY <1>2, <1>3
    <2> QED
      BY <1>4, <2>1, <2>2 DEF StrongValues, ValuesOf
  <1> QED
    BY <1>1, <1>2, <1>3, <1>5, <1>6 DEF StrongChildren

\* Freeing a slot empties it and touches no other.
LEMMA ReclaimFacts ==
    ASSUME TypeOK, NEW s \in Slots, Reclaim(s)
    PROVE  /\ occ' = occ \ {s} /\ kind' = [kind EXCEPT ![s] = "free"]
           /\ kind'[s] = "free" /\ kids'[s] = {} /\ pairs'[s] = {} /\ color'[s] = "White"
           /\ want'[s] = "strong" /\ wmode'[s] = "strong" /\ fin'[s] = "Unregistered"
           /\ \A t \in Slots \ {s} : /\ kind'[t] = kind[t] /\ want'[t] = want[t]
                                     /\ kids'[t] = kids[t] /\ pairs'[t] = pairs[t]
                                     /\ wmode'[t] = wmode[t] /\ color'[t] = color[t]
                                     /\ fin'[t] = fin[t] /\ age'[t] = age[t]
           /\ work' = work \ {s} /\ rootsTodo' = rootsTodo \ {s}
           /\ remembered' = remembered \ {s} /\ remTodo' = remTodo \ {s}
  <1>1. kind' = [kind EXCEPT ![s] = "free"] /\ kind'[s] = "free" /\ \A t \in Slots \ {s} : kind'[t] = kind[t]
    BY DEF TypeOK, ObjTypes, Reclaim, EmptySlot
  <1>2. occ' = occ \ {s}
    BY <1>1 DEF occ
  <1>3. /\ kids'[s] = {} /\ pairs'[s] = {}
        /\ \A t \in Slots \ {s} : kids'[t] = kids[t] /\ pairs'[t] = pairs[t]
    BY DEF TypeOK, ObjTypes, Reclaim, EmptySlot
  <1>4. /\ want'[s] = "strong" /\ wmode'[s] = "strong"
        /\ \A t \in Slots \ {s} : want'[t] = want[t] /\ wmode'[t] = wmode[t]
    BY DEF TypeOK, ObjTypes, Reclaim, EmptySlot
  <1>5. /\ color'[s] = "White" /\ fin'[s] = "Unregistered"
        /\ \A t \in Slots \ {s} : color'[t] = color[t] /\ fin'[t] = fin[t] /\ age'[t] = age[t]
    BY DEF TypeOK, MarkTypes, FinTypes, AgeTypes, Reclaim, EmptySlot
  <1> QED
    BY <1>1, <1>2, <1>3, <1>4, <1>5 DEF Reclaim, EmptySlot

-----------------------------------------------------------------------------
(* Root marking, propagation, ephemerons.                                  *)

LEMMA InvMarkRoot == ASSUME IInv, MarkRoot PROVE IInv'
  <1>1. TypeOK /\ TypeOK'
    BY TypeMarkRoot DEF IInv
  <1>2. PICK r \in rootsTodo : rootsTodo' = rootsTodo \ {r} /\ MarkInto({r}, "RootMark")
    BY DEF MarkRoot, objVars, ageVars, finVars, markVars, cycleVars, capVars, mutVars
  <1>3. r \in Live /\ Live \subseteq Slots
    BY <1>2, LiveShape DEF IInv, NoDangling
  <1>4. Shrinks
    BY <1>1, QuietShrinks
       DEF MarkRoot, objVars, ageVars, finVars, markVars, cycleVars, capVars, mutVars
  <1>5. /\ \A s \in Slots : Marked(s)' <=> Marked(s) \/ s \in {r}
        /\ \A s \in Slots : color'[s] = "Black" <=> color[s] = "Black"
        /\ WorkIsGray' /\ phase' = "RootMark" /\ work' \subseteq work \cup {r}
    <2>1. {r} \in SUBSET Slots
      BY <1>3
    <2> QED
      BY <1>1, <2>1, <1>2, MarkIntoFacts DEF IInv
  <1>6. Sealed' = Sealed
    BY DEF Sealed, MarkRoot, objVars, ageVars, finVars, markVars, cycleVars, capVars, mutVars
  <1>7. MarksLive
    BY <1>3, <1>5, MarkedLive DEF MarksLive
  <1>8. Control'
    BY <1>1, <1>5, <1>6, Domains
       DEF IInv, Control, occ, Sealed, Shrinks, MarkRoot, objVars, ageVars, finVars, markVars,
           cycleVars, capVars, mutVars
  <1>9. RootsCovered'
    BY <1>2, <1>1, <1>5, Domains
       DEF IInv, RootsCovered, Roots, RegObjects, QueuedObjects, MarkRoot, objVars, ageVars,
           finVars, markVars, cycleVars, capVars, mutVars
  <1>10. TriColor'
    BY <1>5, <1>4, <1>7, KeepTriColor
       DEF MarkRoot, objVars, ageVars, finVars, markVars, cycleVars, capVars, mutVars
  <1>11. EphemeronsScanned'
    BY <1>5, NotScanned
  <1>12. /\ rootsTodo' \subseteq Live /\ work' \subseteq Live /\ remTodo' \subseteq remembered'
         /\ remembered' \subseteq occ /\ RegObjects' \subseteq RegObjects
    BY <1>2, <1>3, <1>5
       DEF IInv, NoDangling, RegObjects, MarkRoot, objVars, ageVars, finVars, markVars,
           cycleVars, capVars, mutVars
  <1> QED
    BY <1>1, <1>4, <1>5, <1>6, <1>7, <1>8, <1>9, <1>10, <1>11, <1>12, InvKept
       DEF MarkRoot, objVars, ageVars, finVars, markVars, cycleVars, capVars, mutVars

LEMMA InvTraceRemembered == ASSUME IInv, TraceRemembered PROVE IInv'
  <1>1. TypeOK /\ TypeOK'
    BY TypeTraceRemembered DEF IInv
  <1>2. PICK o \in remTodo : /\ MarkInto({o} \cup StrongChildren(o), "RootMark")
                              /\ remTodo' = remTodo \ {o}
    BY DEF TraceRemembered, objVars, ageVars, finVars, markVars, cycleVars, capVars, mutVars
  <1>3. {o} \cup StrongChildren(o) \subseteq Live /\ Live \subseteq Slots
    <2>1. Live = occ /\ occ \subseteq Slots
      BY LiveShape
         DEF IInv, Control, Sealed, TraceRemembered, objVars, ageVars, finVars, markVars,
             cycleVars, capVars, mutVars
    <2> QED
      BY <2>1, <1>1, StrongSub DEF IInv, NoDangling
  <1>4. Shrinks
    BY <1>1, QuietShrinks
       DEF TraceRemembered, objVars, ageVars, finVars, markVars, cycleVars, capVars, mutVars
  <1>5. /\ \A s \in Slots : Marked(s)' <=> Marked(s) \/ s \in ({o} \cup StrongChildren(o))
        /\ \A s \in Slots : color'[s] = "Black" <=> color[s] = "Black"
        /\ WorkIsGray' /\ phase' = "RootMark" /\ work' \subseteq work \cup ({o} \cup StrongChildren(o))
    <2>1. {o} \cup StrongChildren(o) \in SUBSET Slots
      BY <1>3
    <2> QED
      BY <1>1, <2>1, <1>2, MarkIntoFacts DEF IInv
  <1>6. Sealed' = Sealed
    BY DEF Sealed, TraceRemembered, objVars, ageVars, finVars, markVars, cycleVars, capVars,
           mutVars
  <1>7. MarksLive
    BY <1>3, <1>5, MarkedLive DEF MarksLive
  <1>8. Control'
    BY <1>1, <1>5, <1>6, Domains
       DEF IInv, Control, occ, Sealed, Shrinks, TraceRemembered, objVars, ageVars, finVars,
           markVars, cycleVars, capVars, mutVars
  <1>9. RootsCovered'
    BY <1>1, <1>5, Domains
       DEF IInv, RootsCovered, Roots, RegObjects, QueuedObjects, TraceRemembered, objVars,
           ageVars, finVars, markVars, cycleVars, capVars, mutVars
  <1>10. TriColor'
    BY <1>5, <1>4, <1>7, KeepTriColor
       DEF TraceRemembered, objVars, ageVars, finVars, markVars, cycleVars, capVars, mutVars
  <1>11. EphemeronsScanned'
    BY <1>5, NotScanned
  <1>12. /\ rootsTodo' \subseteq Live /\ work' \subseteq Live /\ remTodo' \subseteq remembered'
         /\ remembered' \subseteq occ /\ RegObjects' \subseteq RegObjects
    BY <1>2, <1>3, <1>5
       DEF IInv, NoDangling, RegObjects, TraceRemembered, objVars, ageVars, finVars, markVars,
           cycleVars, capVars, mutVars
  <1> QED
    BY <1>1, <1>4, <1>5, <1>6, <1>7, <1>8, <1>9, <1>10, <1>11, <1>12, InvKept
       DEF TraceRemembered, objVars, ageVars, finVars, markVars, cycleVars, capVars, mutVars

LEMMA InvRootsMarked == ASSUME IInv, RootsMarked PROVE IInv'
  <1>1. TypeOK /\ TypeOK' /\ Sealed' = Sealed /\ RegObjects' = RegObjects /\ rootsTodo = {}
    BY TypeRootsMarked
       DEF IInv, Control, Sealed, RegObjects, RootsMarked, objVars, ageVars, finVars, markVars,
           cycleVars, capVars, mutVars
  <1>2. Shrinks
    BY <1>1, QuietShrinks
       DEF RootsMarked, objVars, ageVars, finVars, markVars, cycleVars, capVars, mutVars
  <1>3. Control'
    BY <1>1, Domains
       DEF IInv, Control, occ, Marked, RootsMarked, objVars, ageVars, finVars, markVars,
           cycleVars, capVars, mutVars
  <1>4. EphemeronsScanned'
    BY NotScanned
       DEF RootsMarked, objVars, ageVars, finVars, markVars, cycleVars, capVars, mutVars
  <1> QED
    BY <1>1, <1>2, <1>3, <1>4, InvQuiet
       DEF RootsMarked, objVars, ageVars, finVars, markVars, cycleVars, capVars, mutVars

LEMMA InvPropagate == ASSUME IInv, Propagate PROVE IInv'
  <1>1. TypeOK /\ TypeOK'
    BY TypePropagate DEF IInv
  <1>2. PICK o \in work :
          /\ color' = [s \in Slots |-> IF s = o THEN "Black"
                         ELSE IF s \in StrongChildren(o) /\ White(s) THEN "Gray" ELSE color[s]]
          /\ work' = (work \ {o}) \cup Whites(StrongChildren(o))
    BY DEF Propagate, objVars, ageVars, finVars, markVars, cycleVars, capVars, mutVars
  <1>3. o \in Live /\ StrongChildren(o) \subseteq Live /\ Live \subseteq Slots /\ Marked(o)
    BY <1>1, StrongSub, LiveShape DEF IInv, NoDangling, WorkIsGray, Marked
  <1>4. Shrinks
    BY <1>1, QuietShrinks
       DEF Propagate, objVars, ageVars, finVars, markVars, cycleVars, capVars, mutVars
  <1>5. /\ \A s \in Slots : Marked(s)' <=> Marked(s) \/ s \in StrongChildren(o)
        /\ \A s \in Slots : color'[s] = "Black" => color[s] = "Black" \/ s = o
        /\ WorkIsGray' /\ work' \subseteq work \cup StrongChildren(o)
    BY <1>1, <1>2, <1>3
       DEF IInv, TypeOK, MarkTypes, WorkIsGray, Marked, White, Whites, Colors, Propagate,
           objVars, ageVars, finVars, markVars, cycleVars, capVars, mutVars
  <1>6. Sealed' = Sealed
    BY DEF Sealed, Propagate, objVars, ageVars, finVars, markVars, cycleVars, capVars, mutVars
  <1>7. MarksLive
    BY <1>3, <1>5, MarkedLive DEF MarksLive
  <1>8. Control'
    BY <1>1, <1>5, <1>6, Domains
       DEF IInv, Control, occ, Sealed, Shrinks, Propagate, objVars, ageVars, finVars, markVars,
           cycleVars, capVars, mutVars
  <1>9. RootsCovered'
    <2>1. Roots' = Roots /\ UNCHANGED <<phase, rootsTodo>>
      BY DEF Roots, RegObjects, QueuedObjects, Propagate, finVars, cycleVars, mutVars
    <2> QED
      BY <1>1, <1>5, <2>1, Domains DEF IInv, RootsCovered
  <1>10. TriColor'
    <2> SUFFICES ASSUME NEW s \in occ', color'[s] = "Black", ~Untraced(s)'
                 PROVE  \A c \in StrongChildren(s)' : Marked(c)'
      BY DEF TriColor, Propagate, objVars, ageVars, finVars, markVars, cycleVars, capVars,
             mutVars
    <2>1. s \in Slots /\ s \in occ /\ StrongChildren(s) \subseteq Slots
      BY <1>1, <1>4, ShrinkFacts, Domains, ChildTypes
    <2>2. \A c \in StrongChildren(s) : Marked(c)'
      BY <2>1, <1>5
         DEF IInv, TriColor, Untraced, Propagate, objVars, ageVars, finVars, markVars,
             cycleVars, capVars, mutVars
    <2> QED
      BY <2>1, <2>2, <1>1, <1>4, ShrinkFacts
  <1>11. EphemeronsScanned'
    BY <1>5, NotScanned
       DEF Propagate, objVars, ageVars, finVars, markVars, cycleVars, capVars, mutVars
  <1>12. /\ rootsTodo' \subseteq Live /\ work' \subseteq Live /\ remTodo' \subseteq remembered'
         /\ remembered' \subseteq occ /\ RegObjects' \subseteq RegObjects
    BY <1>3, <1>5
       DEF IInv, NoDangling, RegObjects, Propagate, objVars, ageVars, finVars, markVars,
           cycleVars, capVars, mutVars
  <1> QED
    BY <1>1, <1>3, <1>4, <1>5, <1>6, <1>7, <1>8, <1>9, <1>10, <1>11, <1>12, InvKept
       DEF Propagate, objVars, ageVars, finVars, markVars, cycleVars, capVars, mutVars

LEMMA InvPropagated == ASSUME IInv, Propagated PROVE IInv'
  <1>1. TypeOK /\ TypeOK' /\ Sealed' = Sealed /\ RegObjects' = RegObjects /\ rootsTodo = {}
    BY TypePropagated
       DEF IInv, Control, Sealed, RegObjects, Propagated, objVars, ageVars, finVars, markVars,
           cycleVars, capVars, mutVars
  <1>2. Shrinks
    BY <1>1, QuietShrinks
       DEF Propagated, objVars, ageVars, finVars, markVars, cycleVars, capVars, mutVars
  <1>3. Control'
    BY <1>1, Domains
       DEF IInv, Control, occ, Marked, Propagated, objVars, ageVars, finVars, markVars,
           cycleVars, capVars, mutVars
  <1>4. EphemeronsScanned'
    <2> SUFFICES ASSUME ~Sealed, NEW s \in occ', s <= ephCur' PROVE FALSE
      BY <1>1 DEF EphemeronsScanned
    <2>1. s \in Slots
      BY <1>1, <1>2, ShrinkFacts, Domains
    <2>2. ephCur' = 0
      BY DEF IInv, Control, Propagated, objVars, ageVars, finVars, markVars, cycleVars, capVars,
             mutVars
    <2> QED
      BY <2>1, <2>2, SlotNumbers
  <1> QED
    BY <1>1, <1>2, <1>3, <1>4, InvQuiet
       DEF Propagated, objVars, ageVars, finVars, markVars, cycleVars, capVars, mutVars

LEMMA InvAtomicResume == ASSUME IInv, AtomicResume PROVE IInv'
  <1>1. TypeOK /\ TypeOK' /\ Sealed' = Sealed /\ RegObjects' = RegObjects /\ rootsTodo = {}
    BY TypeAtomicResume
       DEF IInv, Control, Sealed, RegObjects, AtomicResume, objVars, ageVars, finVars, markVars,
           cycleVars, capVars, mutVars
  <1>2. Shrinks
    BY <1>1, QuietShrinks
       DEF AtomicResume, objVars, ageVars, finVars, markVars, cycleVars, capVars, mutVars
  <1>3. Control'
    BY <1>1, Domains
       DEF IInv, Control, occ, Marked, AtomicResume, objVars, ageVars, finVars, markVars,
           cycleVars, capVars, mutVars
  <1>4. EphemeronsScanned'
    BY NotScanned
       DEF AtomicResume, objVars, ageVars, finVars, markVars, cycleVars, capVars, mutVars
  <1> QED
    BY <1>1, <1>2, <1>3, <1>4, InvQuiet
       DEF AtomicResume, objVars, ageVars, finVars, markVars, cycleVars, capVars, mutVars

LEMMA InvScanEphemeron == ASSUME IInv, ScanEphemeron PROVE IInv'
  <1>1. TypeOK /\ TypeOK'
    BY TypeScanEphemeron DEF IInv
  <1>2. PICK o \in occ :
          /\ o > ephCur /\ \A t \in occ : t > ephCur => o <= t
          /\ ephCur' = IF Whites(EphemeronValues(o)) = {} THEN o ELSE 0
          /\ MarkInto(Whites(EphemeronValues(o)),
                IF Whites(EphemeronValues(o)) = {} THEN "Atomic" ELSE "Propagate")
    BY DEF ScanEphemeron, objVars, ageVars, finVars, markVars, cycleVars, capVars, mutVars
  <1>3. Whites(EphemeronValues(o)) \subseteq Live /\ Live \subseteq Slots /\ o \in Slots
    <2>1. o \in Slots /\ Live \subseteq Slots
      BY <1>1, Domains, LiveShape DEF IInv
    <2>2. Whites(EphemeronValues(o)) \subseteq Children(o)
      BY DEF Whites, EphemeronValues, Children, ChildrenIn, ValuesOf
    <2>3. White(o) => Whites(EphemeronValues(o)) = {}
      BY DEF Whites, EphemeronValues
    <2>4. ~White(o) => o \in Live
      BY <2>1, MarkedLive DEF White, Marked
    <2> QED
      BY <2>1, <2>2, <2>3, <2>4 DEF IInv, NoDangling
  <1>4. Sealed => Whites(EphemeronValues(o)) = {}
    BY <1>1, <1>3, LiveShape DEF Whites, White, Marked, IInv
  <1>5. Shrinks
    BY <1>1, QuietShrinks
       DEF ScanEphemeron, objVars, ageVars, finVars, markVars, cycleVars, capVars, mutVars
  <1>6. /\ \A s \in Slots : Marked(s)' <=> Marked(s) \/ s \in Whites(EphemeronValues(o))
        /\ \A s \in Slots : color'[s] = "Black" <=> color[s] = "Black"
        /\ WorkIsGray' /\ phase' = (IF Whites(EphemeronValues(o)) = {} THEN "Atomic" ELSE "Propagate")
        /\ work' \subseteq work \cup Whites(EphemeronValues(o))
    <2>1. Whites(EphemeronValues(o)) \in SUBSET Slots
      BY <1>3
    <2> QED
      BY <1>1, <2>1, <1>2, MarkIntoFacts DEF IInv
  <1>7. Sealed' = Sealed
    BY DEF Sealed, ScanEphemeron, objVars, ageVars, finVars, markVars, cycleVars, capVars,
           mutVars
  <1>8. MarksLive
    BY <1>3, <1>6, MarkedLive DEF MarksLive
  <1>9. Control'
    BY <1>2, <1>4, <1>1, <1>6, <1>7, Domains
       DEF IInv, Control, occ, Sealed, Shrinks, ScanEphemeron, objVars, ageVars, finVars,
           markVars, cycleVars, capVars, mutVars
  <1>10. RootsCovered'
    BY <1>1, <1>6, Domains
       DEF IInv, RootsCovered, Roots, RegObjects, QueuedObjects, ScanEphemeron, objVars,
           ageVars, finVars, markVars, cycleVars, capVars, mutVars
  <1>11. TriColor'
    BY <1>6, <1>5, <1>8, KeepTriColor
       DEF ScanEphemeron, objVars, ageVars, finVars, markVars, cycleVars, capVars, mutVars
  <1>12. EphemeronsScanned'
    <2>1. CASE Whites(EphemeronValues(o)) # {}
      BY <2>1, <1>6, NotScanned
    <2>2. CASE Whites(EphemeronValues(o)) = {}
      <3> SUFFICES ASSUME ~Sealed, NEW s \in occ', s <= ephCur', Marked(s)', wmode'[s] = "keys",
                          NEW p \in pairs'[s], (IsObject(p[1]) => Marked(p[1]))', p[2] # None
                   PROVE  Marked(p[2])'
        BY <1>7 DEF EphemeronsScanned
      <3>1. s \in Slots /\ s \in occ /\ p \in pairs[s] /\ Marked(s) /\ ephCur' = o
        BY <2>2, <1>1, <1>2, <1>6, <1>5, ShrinkFacts, Domains
           DEF IInv, ScanEphemeron, objVars, ageVars, finVars, markVars, cycleVars, capVars,
               mutVars
      <3>2. p[1] \in Slots \cup {None} /\ p[2] \in Slots
        BY <3>1, <1>1, PairTypes
      <3>3. IsObject(p[1]) => Marked(p[1])
        BY <2>2, <3>2, <1>6
           DEF IsObject, ScanEphemeron, objVars, ageVars, finVars, markVars, cycleVars, capVars,
               mutVars
      <3>4. CASE s = o
        <4>1. p[2] \in EphemeronValues(o)
          BY <3>1, <3>2, <3>3, <3>4
             DEF EphemeronValues, ValuesOf, White, Marked, None, Slots, ScanEphemeron, objVars,
                 ageVars, finVars, markVars, cycleVars, capVars, mutVars
        <4> QED
          BY <4>1, <2>2, <3>2, <1>6 DEF Whites, White, Marked
      <3>5. CASE s # o
        <4>1. s <= ephCur
          <5>1. s \in Nat /\ o \in Nat /\ ephCur \in Nat
            BY <3>1, <1>3, <1>1, SlotsFinite DEF TypeOK, CycleTypes
          <5>2. s <= o /\ (s > ephCur => o <= s)
            BY <3>1, <1>2
          <5> QED
            BY <3>5, <5>1, <5>2, Passed
        <4>2. Marked(p[2])
          BY <3>1, <3>2, <3>3, <4>1
             DEF IInv, EphemeronsScanned, ScanEphemeron, objVars, ageVars, finVars, markVars,
                 cycleVars, capVars, mutVars
        <4> QED
          BY <4>2, <3>2, <1>6
      <3> QED
        BY <3>4, <3>5
    <2> QED
      BY <2>1, <2>2
  <1>13. /\ rootsTodo' \subseteq Live /\ work' \subseteq Live /\ remTodo' \subseteq remembered'
         /\ remembered' \subseteq occ /\ RegObjects' \subseteq RegObjects
    BY <1>3, <1>6
       DEF IInv, NoDangling, RegObjects, ScanEphemeron, objVars, ageVars, finVars, markVars,
           cycleVars, capVars, mutVars
  <1> QED
    BY <1>1, <1>4, <1>5, <1>6, <1>7, <1>8, <1>9, <1>10, <1>11, <1>12, <1>13, InvKept
       DEF ScanEphemeron, objVars, ageVars, finVars, markVars, cycleVars, capVars, mutVars

LEMMA InvRetraceOld == ASSUME IInv, RetraceOld PROVE IInv'
  <1>1. TypeOK /\ TypeOK'
    BY TypeRetraceOld DEF IInv
  <1>2. OldChildren \subseteq Live /\ Live \subseteq Slots
    <2>1. Live \subseteq Slots /\ occ \subseteq Slots
      BY <1>1, LiveShape DEF IInv
    <2>2. ASSUME NEW s \in occ, ~White(s) PROVE StrongChildren(s) \subseteq Live
      BY <2>1, <2>2, <1>1, MarkedLive, StrongSub DEF IInv, NoDangling, White, Marked
    <2> QED
      BY <2>1, <2>2 DEF OldChildren
  <1>3. ~Sealed
    BY <1>1, <1>2, LiveShape
       DEF Whites, White, Marked, IInv, RetraceOld, BackToPropagate, ScanDone, objVars, ageVars,
           finVars, markVars, cycleVars, capVars, mutVars
  <1>4. Shrinks
    BY <1>1, QuietShrinks
       DEF RetraceOld, BackToPropagate, ScanDone, objVars, ageVars, finVars, markVars,
           cycleVars, capVars, mutVars
  <1>5. /\ \A s \in Slots : Marked(s)' <=> Marked(s) \/ s \in OldChildren
        /\ \A s \in Slots : color'[s] = "Black" <=> color[s] = "Black"
        /\ WorkIsGray' /\ phase' = "Propagate" /\ work' \subseteq work \cup OldChildren
    <2>1. OldChildren \in SUBSET Slots
      BY <1>2
    <2> QED
      BY <1>1, <2>1, <1>2, MarkIntoFacts
         DEF IInv, RetraceOld, BackToPropagate, ScanDone, objVars, ageVars, finVars, markVars,
             cycleVars, capVars, mutVars
  <1>6. Sealed' = Sealed
    BY DEF Sealed, RetraceOld, BackToPropagate, ScanDone, objVars, ageVars, finVars, markVars,
           cycleVars, capVars, mutVars
  <1>7. MarksLive
    BY <1>2, <1>5, MarkedLive DEF MarksLive
  <1>8. Control'
    BY <1>3, <1>1, <1>5, <1>6, Domains
       DEF IInv, Control, occ, Sealed, Shrinks, RetraceOld, BackToPropagate, ScanDone, objVars,
           ageVars, finVars, markVars, cycleVars, capVars, mutVars
  <1>9. RootsCovered'
    BY <1>1, <1>5, Domains
       DEF IInv, RootsCovered, Roots, RegObjects, QueuedObjects, RetraceOld, BackToPropagate,
           ScanDone, objVars, ageVars, finVars, markVars, cycleVars, capVars, mutVars
  <1>10. TriColor'
    BY <1>5, <1>4, <1>7, KeepTriColor
       DEF RetraceOld, BackToPropagate, ScanDone, objVars, ageVars, finVars, markVars,
           cycleVars, capVars, mutVars
  <1>11. EphemeronsScanned'
    BY <1>5, NotScanned
  <1>12. /\ rootsTodo' \subseteq Live /\ work' \subseteq Live /\ remTodo' \subseteq remembered'
         /\ remembered' \subseteq occ /\ RegObjects' \subseteq RegObjects
    BY <1>2, <1>5
       DEF IInv, NoDangling, RegObjects, RetraceOld, BackToPropagate, ScanDone, objVars,
           ageVars, finVars, markVars, cycleVars, capVars, mutVars
  <1> QED
    BY <1>1, <1>4, <1>5, <1>6, <1>7, <1>8, <1>9, <1>10, <1>11, <1>12, InvKept
       DEF RetraceOld, BackToPropagate, ScanDone, objVars, ageVars, finVars, markVars,
           cycleVars, capVars, mutVars

LEMMA InvReserveCandidatesFails == ASSUME IInv, ReserveCandidatesFails PROVE IInv'
  <1>1. TypeOK /\ TypeOK' /\ Sealed' = Sealed /\ RegObjects' = RegObjects /\ rootsTodo = {}
    BY TypeReserveCandidatesFails
       DEF IInv, Control, Sealed, RegObjects, ReserveCandidatesFails, Traced, ScanDone, objVars,
           ageVars, finVars, markVars, cycleVars, capVars, mutVars
  <1>2. Shrinks
    BY <1>1, QuietShrinks
       DEF ReserveCandidatesFails, Traced, ScanDone, objVars, ageVars, finVars, markVars,
           cycleVars, capVars, mutVars
  <1>3. Control'
    BY ScanEndType, <1>1, Domains
       DEF IInv, Control, occ, Marked, ReserveCandidatesFails, Traced, ScanDone, objVars,
           ageVars, finVars, markVars, cycleVars, capVars, mutVars
  <1>4. EphemeronsScanned'
    <2> SUFFICES ASSUME ~Sealed PROVE EphemeronsScanned'
      BY <1>1 DEF EphemeronsScanned
    <2>1. UNCHANGED <<occ, wmode, pairs>> /\ \A s \in Slots \cup {None} : IsObject(s)' = IsObject(s)
      BY <1>1, <1>2, ShrinkFacts
         DEF ReserveCandidatesFails, Traced, ScanDone, objVars, ageVars, finVars, markVars,
             cycleVars, capVars, mutVars
    <2>2. occ \subseteq Slots /\ \A s \in Slots : Marked(s)' = Marked(s)
      BY <1>1, Domains
         DEF Marked, ReserveCandidatesFails, Traced, ScanDone, objVars, ageVars, finVars,
             markVars, cycleVars, capVars, mutVars
    <2> SUFFICES ASSUME NEW s \in occ', Marked(s)', wmode'[s] = "keys",
                        NEW p \in pairs'[s], (IsObject(p[1]) => Marked(p[1]))', p[2] # None
                 PROVE  Marked(p[2])'
      BY <1>1 DEF EphemeronsScanned
    <2>3. p[1] \in Slots \cup {None} /\ p[2] \in Slots
      BY <2>1, <2>2, <1>1, PairTypes
    <2>4. IsObject(p[1]) => Marked(p[1])
      BY <2>1, <2>2, <2>3 DEF IsObject
    <2> QED
      BY <2>1, <2>2, <2>3, <2>4
         DEF IInv, EphemeronsScanned, ReserveCandidatesFails, Traced, ScanDone, objVars,
             ageVars, finVars, markVars, cycleVars, capVars, mutVars
  <1> QED
    BY <1>1, <1>2, <1>3, <1>4, InvQuiet
       DEF ReserveCandidatesFails, Traced, ScanDone, objVars, ageVars, finVars, markVars,
           cycleVars, capVars, mutVars

-----------------------------------------------------------------------------
(* Weak tables.                                                            *)

\* Keys and values of the pairs that clearing leaves.
LEMMA ClearedPairTypes ==
    ASSUME TypeOK
    PROVE  \A s \in Slots : \A p \in ClearedValues[s] \cup AfterValues[s] : p[2] \in Slots \cup {None}
  BY SMT, ClearTypes

\* Clearing takes entries out of tables.
LEMMA ClearSub ==
    ASSUME NEW s \in Slots
    PROVE  /\ ClearedValues[s] \subseteq pairs[s]
           /\ AfterValues[s] \subseteq pairs[s]
           /\ FinalPairs[s] \subseteq AfterValues[s]
           /\ wmode[s] \in {"keys", "all"} => \A p \in FinalPairs[s] : ~DeadRef(p[1])
  <1>1. ClearedValues[s] \subseteq pairs[s]
    BY DEF ClearedValues
  <1>2. AfterValues[s] \subseteq pairs[s]
    BY <1>1 DEF AfterValues
  <1>3. FinalPairs[s] = IF wmode[s] \in {"keys", "all"}
                        THEN {p \in AfterValues[s] : ~DeadRef(p[1])} ELSE AfterValues[s]
    BY DEF FinalPairs, ClearedKeys
  <1> QED
    BY <1>1, <1>2, <1>3

-----------------------------------------------------------------------------
(* The steps of the collector.                                             *)

LEMMA InvClearWeakValues == ASSUME IInv, ClearWeakValues PROVE IInv'
  <1>1. TypeOK /\ TypeOK'
    BY TypeClearWeakValues DEF IInv
  <1>2. ~Sealed /\ ~Sealed'
    BY DEF Sealed, ClearWeakValues, BackToPropagate, Traced, ScanDone, objVars, ageVars,
           finVars, markVars, cycleVars, capVars, mutVars
  <1>3. LiveStringKeys(ClearedValues) \subseteq Live /\ Live \subseteq Slots
    <2>1. Live = occ /\ occ \subseteq Slots
      BY <1>2, LiveShape DEF IInv
    <2>2. ASSUME NEW s \in occ PROVE KeysOf({p \in ClearedValues[s] : IsString(p[1])}) \subseteq Children(s)
      BY <2>1, <1>1, ClearSub DEF KeysOf, Children, ChildrenIn
    <2> QED
      BY <2>1, <2>2 DEF LiveStringKeys, IInv, NoDangling
  <1>4. Shrinks
    BY ConstAssumption, <1>1, ClearSub
       DEF Shrinks, ClearWeakValues, BackToPropagate, Traced, ScanDone, objVars, ageVars,
           finVars, markVars, cycleVars, capVars, mutVars
  <1>5. /\ \A s \in Slots : Marked(s)' <=> Marked(s) \/ s \in LiveStringKeys(ClearedValues)
        /\ \A s \in Slots : color'[s] = "Black" <=> color[s] = "Black"
        /\ WorkIsGray' /\ phase' = "Propagate" /\ work' \subseteq work \cup LiveStringKeys(ClearedValues)
    <2>1. LiveStringKeys(ClearedValues) \in SUBSET Slots
      BY <1>3
    <2> QED
      BY <1>1, <2>1, <1>3, MarkIntoFacts
         DEF IInv, ClearWeakValues, BackToPropagate, Traced, ScanDone, objVars, ageVars,
             finVars, markVars, cycleVars, capVars, mutVars
  <1>6. Sealed' = Sealed
    BY <1>2 DEF Sealed
  <1>7. MarksLive
    BY <1>3, <1>5, MarkedLive DEF MarksLive
  <1>8. Control'
    BY <1>2, <1>1, <1>5, <1>6, Domains
       DEF IInv, Control, occ, Sealed, Shrinks, ClearWeakValues, BackToPropagate, Traced,
           ScanDone, objVars, ageVars, finVars, markVars, cycleVars, capVars, mutVars
  <1>9. WorkIsGray'
    BY <1>5
  <1>10. RootsCovered'
    BY <1>1, <1>5, Domains
       DEF IInv, RootsCovered, Roots, RegObjects, QueuedObjects, ClearWeakValues,
           BackToPropagate, Traced, ScanDone, objVars, ageVars, finVars, markVars, cycleVars,
           capVars, mutVars
  <1>11. SlotShape'
    BY <1>4, <1>7, KeepSlotShape
       DEF IInv, SlotShape, ClearWeakValues, BackToPropagate, Traced, ScanDone, objVars,
           ageVars, finVars, markVars, cycleVars, capVars, mutVars
  <1>12. TriColor'
    BY <1>5, <1>4, <1>7, KeepTriColor
       DEF ClearWeakValues, BackToPropagate, Traced, ScanDone, objVars, ageVars, finVars,
           markVars, cycleVars, capVars, mutVars
  <1>13. WeakValuesCleared'
    <2> SUFFICES ASSUME NEW s \in occ', wmode'[s] \in {"values", "all"}, NEW p \in pairs'[s]
                 PROVE  ~DeadRef(p[2])'
      BY DEF WeakValuesCleared
    <2>1. s \in Slots /\ wmode'[s] = wmode[s] /\ p \in ClearedValues[s]
      BY <1>1, <1>4, ShrinkFacts, Domains
         DEF ClearWeakValues, BackToPropagate, Traced, ScanDone, objVars, ageVars, finVars,
             markVars, cycleVars, capVars, mutVars
    <2>2. ~DeadRef(p[2])
      BY <2>1 DEF ClearedValues
    <2>3. p[2] \in Slots \cup {None}
      BY <2>1, <1>1, ClearedPairTypes
    <2> QED
      BY <2>2, <2>3, <1>1, <1>4, <1>7, ShrinkFacts
         DEF DeadRef, IsObject, MarksLive, Marked, White
  <1>14. EphemeronsScanned'
    BY <1>5, NotScanned
  <1>15. FreshUnknown'
    BY <1>1, <1>8, <1>4, <1>7, <1>6, KeepFresh
       DEF IInv, FreshUnknown, RegObjects, QueuedObjects, ClearWeakValues, BackToPropagate,
           Traced, ScanDone, objVars, ageVars, finVars, markVars, cycleVars, capVars, mutVars
  <1>16. SweptIsLive'
    BY <1>4, <1>7, KeepSwept
       DEF ClearWeakValues, BackToPropagate, Traced, ScanDone, objVars, ageVars, finVars,
           markVars, cycleVars, capVars, mutVars
  <1>17. FinalizersSeparated'
    BY DEF FinalizersSeparated, ClearWeakValues, BackToPropagate, Traced, ScanDone, objVars,
           ageVars, finVars, markVars, cycleVars, capVars, mutVars
  <1>18. QueueIsPending'
    BY DEF IInv, QueueIsPending, QueuedObjects, ClearWeakValues, BackToPropagate, Traced,
           ScanDone, objVars, ageVars, finVars, markVars, cycleVars, capVars, mutVars
  <1>19. NoDangling'
    BY <1>3, <1>1, <1>8, <1>4, <1>7, <1>6, <1>5, KeepNoDangling
       DEF IInv, NoDangling, Roots, RegObjects, QueuedObjects, ClearWeakValues, BackToPropagate,
           Traced, ScanDone, objVars, ageVars, finVars, markVars, cycleVars, capVars, mutVars
  <1> QED
    BY <1>1, <1>8, <1>9, <1>10, <1>11, <1>12, <1>13, <1>14, <1>15, <1>16, <1>17, <1>18, <1>19
       DEF IInv

LEMMA InvSeparate == ASSUME IInv, Separate PROVE IInv'
  <1>1. TypeOK /\ TypeOK'
    BY TypeSeparate DEF IInv
  <1>2. ~Sealed /\ ~Sealed'
    BY DEF Sealed, Separate, BackToPropagate, ValuesCleared, Traced, ScanDone, objVars, ageVars,
           finVars, markVars, cycleVars, capVars, mutVars
  <1>3. DeadFinalizable \subseteq Live /\ Live \subseteq Slots /\ Live = occ
    BY <1>2, LiveShape DEF IInv, DeadFinalizable, Whites
  <1>4. /\ QueuedObjects' = QueuedObjects \cup DeadFinalizable /\ RegObjects' = RegObjects
        /\ Roots' = Roots \cup DeadFinalizable
    <2>1. QueuedObjects' = QueuedObjects \cup DeadFinalizable
      <3>1. ASSUME NEW x \in QueuedObjects' PROVE x \in QueuedObjects \cup DeadFinalizable
        <4>1. PICK e \in queue' : x = e.obj
          BY <3>1 DEF QueuedObjects
        <4>2. e \in queue \/ \E s \in DeadFinalizable : e = [obj |-> s, ord |-> order[s]]
          BY <4>1 DEF Separate
        <4>3. ASSUME NEW s \in DeadFinalizable, e = [obj |-> s, ord |-> order[s]] PROVE x = s
          BY <4>1, <4>3
        <4> QED
          BY <4>1, <4>2, <4>3 DEF QueuedObjects
      <3>2. ASSUME NEW x \in DeadFinalizable PROVE x \in QueuedObjects'
        <4>1. [obj |-> x, ord |-> order[x]] \in queue' /\ [obj |-> x, ord |-> order[x]].obj = x
          BY DEF Separate, BackToPropagate, ValuesCleared, Traced, ScanDone, objVars, ageVars,
                 finVars, markVars, cycleVars, capVars, mutVars
        <4> QED
          BY <4>1, Zenon DEF QueuedObjects
      <3>3. QueuedObjects \subseteq QueuedObjects'
        BY DEF QueuedObjects, Separate, BackToPropagate, ValuesCleared, Traced, ScanDone,
               objVars, ageVars, finVars, markVars, cycleVars, capVars, mutVars
      <3> QED
        BY <3>1, <3>2, <3>3
    <2>2. UNCHANGED <<regs, fresh>>
      BY DEF Separate, BackToPropagate, ValuesCleared, Traced, ScanDone, objVars, ageVars,
             finVars, markVars, cycleVars, capVars, mutVars
    <2> QED
      BY <2>1, <2>2 DEF RegObjects, Roots
  <1>5. Shrinks
    BY ConstAssumption, <1>1, ClearSub
       DEF Shrinks, Separate, BackToPropagate, ValuesCleared, Traced, ScanDone, objVars,
           ageVars, finVars, markVars, cycleVars, capVars, mutVars
  <1>6. /\ \A s \in Slots : Marked(s)' <=> Marked(s) \/ s \in DeadFinalizable
        /\ \A s \in Slots : color'[s] = "Black" <=> color[s] = "Black"
        /\ WorkIsGray' /\ phase' = "Propagate" /\ work' \subseteq work \cup DeadFinalizable
    <2>1. DeadFinalizable \in SUBSET Slots
      BY <1>3
    <2> QED
      BY <1>1, <2>1, <1>3, MarkIntoFacts
         DEF IInv, Separate, BackToPropagate, ValuesCleared, Traced, ScanDone, objVars, ageVars,
             finVars, markVars, cycleVars, capVars, mutVars
  <1>7. Sealed' = Sealed
    BY <1>2 DEF Sealed
  <1>8. MarksLive
    BY <1>3, <1>6, MarkedLive DEF MarksLive
  <1>9. Control'
    BY <1>2, <1>1, <1>6, <1>7, Domains
       DEF IInv, Control, occ, Sealed, Shrinks, Separate, BackToPropagate, ValuesCleared,
           Traced, ScanDone, objVars, ageVars, finVars, markVars, cycleVars, capVars, mutVars
  <1>10. WorkIsGray'
    BY <1>6
  <1>11. RootsCovered'
    BY <1>1, <1>6, <1>4, <1>3, Domains
       DEF IInv, RootsCovered, Separate, BackToPropagate, ValuesCleared, Traced, ScanDone,
           objVars, ageVars, finVars, markVars, cycleVars, capVars, mutVars
  <1>12. SlotShape'
    BY <1>1, <1>3, <1>5, <1>8, KeepSlotShape
       DEF IInv, SlotShape, TypeOK, FinTypes, Separate, BackToPropagate, ValuesCleared, Traced,
           ScanDone, objVars, ageVars, finVars, markVars, cycleVars, capVars, mutVars
  <1>13. TriColor'
    BY <1>6, <1>5, <1>8, KeepTriColor
       DEF Separate, BackToPropagate, ValuesCleared, Traced, ScanDone, objVars, ageVars,
           finVars, markVars, cycleVars, capVars, mutVars
  <1>14. WeakValuesCleared'
    <2> SUFFICES ASSUME NEW s \in occ', wmode'[s] \in {"values", "all"}, NEW p \in pairs'[s]
                 PROVE  ~DeadRef(p[2])'
      BY DEF WeakValuesCleared
    <2>1. s \in Slots /\ s \in occ /\ wmode'[s] = wmode[s] /\ p \in AfterValues[s]
      BY <1>1, <1>5, ShrinkFacts, Domains, ClearSub
         DEF Separate, BackToPropagate, ValuesCleared, Traced, ScanDone, objVars, ageVars,
             finVars, markVars, cycleVars, capVars, mutVars
    <2>2. ~DeadRef(p[2])
      BY <2>1, <1>2 DEF AfterValues, ClearedValues, IInv, WeakValuesCleared
    <2>3. p[2] \in Slots \cup {None}
      BY <2>1, <1>1, ClearedPairTypes
    <2> QED
      BY <2>2, <2>3, <1>1, <1>5, <1>8, ShrinkFacts
         DEF DeadRef, IsObject, MarksLive, Marked, White
  <1>15. EphemeronsScanned'
    BY <1>6, NotScanned
  <1>16. FreshUnknown'
    <2>1. fresh # None => fresh \notin DeadFinalizable
      BY DEF IInv, FreshUnknown, DeadFinalizable
    <2>2. fresh # None => fresh \notin RegObjects' \cup QueuedObjects' /\ fin'[fresh] = fin[fresh]
      BY <1>1, <1>4, <2>1
         DEF IInv, FreshUnknown, TypeOK, FinTypes, MutTypes, Separate, BackToPropagate,
             ValuesCleared, Traced, ScanDone, objVars, ageVars, finVars, markVars, cycleVars,
             capVars, mutVars
    <2> QED
      BY <2>2, <1>1, <1>9, <1>5, <1>8, <1>7, KeepFresh
         DEF Separate, BackToPropagate, ValuesCleared, Traced, ScanDone, objVars, ageVars,
             finVars, markVars, cycleVars, capVars, mutVars
  <1>17. SweptIsLive'
    BY <1>5, <1>8, KeepSwept
       DEF Separate, BackToPropagate, ValuesCleared, Traced, ScanDone, objVars, ageVars,
           finVars, markVars, cycleVars, capVars, mutVars
  <1>18. FinalizersSeparated'
    BY <1>1, <1>3, <1>6, <1>5, ShrinkFacts
       DEF FinalizersSeparated, DeadFinalizable, Whites, White, Marked, Separate,
           BackToPropagate, ValuesCleared, Traced, ScanDone, objVars, ageVars, finVars,
           markVars, cycleVars, capVars, mutVars
  <1>19. QueueIsPending'
    BY <1>1, <1>4
       DEF IInv, QueueIsPending, Separate, BackToPropagate, ValuesCleared, Traced, ScanDone,
           objVars, ageVars, finVars, markVars, cycleVars, capVars, mutVars
  <1>20. NoDangling'
    BY <1>1, <1>3, <1>4, <1>6, <1>9, <1>5, <1>8, <1>7, KeepNoDangling
       DEF IInv, NoDangling, Separate, BackToPropagate, ValuesCleared, Traced, ScanDone,
           objVars, ageVars, finVars, markVars, cycleVars, capVars, mutVars
  <1> QED
    BY <1>1, <1>9, <1>10, <1>11, <1>12, <1>13, <1>14, <1>15, <1>16, <1>17, <1>18, <1>19, <1>20
       DEF IInv

LEMMA InvRebuildRevives == ASSUME IInv, RebuildRevives PROVE IInv'
  <1>1. TypeOK /\ TypeOK'
    BY TypeRebuildRevives DEF IInv
  <1>2. PICK c \in DeadChildren : MarkInto({c}, "Propagate")
    BY DEF RebuildRevives, FinishAtomic, BackToPropagate, Separated, ValuesCleared, Traced,
           ScanDone, objVars, ageVars, finVars, markVars, cycleVars, capVars, mutVars
  <1>3. /\ c \in Live /\ c \in Slots /\ FutureDead(c)
        /\ mode # "Incremental"
    <2>1. PICK o \in occ : FutureOld(o) /\ c \in ChildrenIn(FinalPairs, o)
      BY DEF DeadChildren
    <2>2. c \in Slots /\ FutureDead(c) /\ mode # "Incremental"
      BY DEF DeadChildren
    <2>3. o \in Live
      BY <2>1 DEF FutureOld, FutureDead, Live, Condemned, Sweepable
    <2>4. c \in Children(o)
      BY <2>1, <2>3, <1>1, Domains, ClearSub DEF Children, ChildrenIn, KeysOf, ValuesOf
    <2> QED
      BY <2>2, <2>3, <2>4 DEF IInv, NoDangling
  <1>4. ~Sealed /\ ~Sealed'
    BY <1>3
       DEF Sealed, Live, Condemned, Sweepable, FutureDead, RebuildRevives, FinishAtomic,
           BackToPropagate, Separated, ValuesCleared, Traced, ScanDone, objVars, ageVars,
           finVars, markVars, cycleVars, capVars, mutVars
  <1>5. Live \subseteq Slots /\ Live = occ
    BY <1>4, LiveShape DEF IInv
  <1>6. Shrinks
    BY ConstAssumption, <1>1, ClearSub
       DEF Shrinks, RebuildRevives, FinishAtomic, BackToPropagate, Separated, ValuesCleared,
           Traced, ScanDone, objVars, ageVars, finVars, markVars, cycleVars, capVars, mutVars
  <1>7. /\ \A s \in Slots : Marked(s)' <=> Marked(s) \/ s \in {c}
        /\ \A s \in Slots : color'[s] = "Black" <=> color[s] = "Black"
        /\ WorkIsGray' /\ phase' = "Propagate" /\ work' \subseteq work \cup {c}
    <2>1. {c} \in SUBSET Slots
      BY <1>3
    <2> QED
      BY <1>1, <2>1, <1>2, MarkIntoFacts DEF IInv
  <1>8. Sealed' = Sealed
    BY <1>4 DEF Sealed
  <1>9. MarksLive
    BY <1>3, <1>7, MarkedLive DEF MarksLive
  <1>10. Control'
    BY <1>4, <1>1, <1>7, <1>8, Domains
       DEF IInv, Control, occ, Sealed, Shrinks, RebuildRevives, FinishAtomic, BackToPropagate,
           Separated, ValuesCleared, Traced, ScanDone, objVars, ageVars, finVars, markVars,
           cycleVars, capVars, mutVars
  <1>11. WorkIsGray'
    BY <1>7
  <1>12. RootsCovered'
    BY <1>1, <1>7, Domains
       DEF IInv, RootsCovered, Roots, RegObjects, QueuedObjects, RebuildRevives, FinishAtomic,
           BackToPropagate, Separated, ValuesCleared, Traced, ScanDone, objVars, ageVars,
           finVars, markVars, cycleVars, capVars, mutVars
  <1>13. SlotShape'
    BY <1>6, <1>9, KeepSlotShape
       DEF IInv, SlotShape, RebuildRevives, FinishAtomic, BackToPropagate, Separated,
           ValuesCleared, Traced, ScanDone, objVars, ageVars, finVars, markVars, cycleVars,
           capVars, mutVars
  <1>14. TriColor'
    BY <1>7, <1>6, <1>9, KeepTriColor
       DEF RebuildRevives, FinishAtomic, BackToPropagate, Separated, ValuesCleared, Traced,
           ScanDone, objVars, ageVars, finVars, markVars, cycleVars, capVars, mutVars
  <1>15. WeakValuesCleared'
    <2> SUFFICES ASSUME NEW s \in occ', wmode'[s] \in {"values", "all"}, NEW p \in pairs'[s]
                 PROVE  ~DeadRef(p[2])'
      BY DEF WeakValuesCleared
    <2>1. s \in Slots /\ s \in occ /\ wmode'[s] = wmode[s] /\ p \in AfterValues[s]
      BY <1>1, <1>6, ShrinkFacts, Domains, ClearSub
         DEF RebuildRevives, FinishAtomic, BackToPropagate, Separated, ValuesCleared, Traced,
             ScanDone, objVars, ageVars, finVars, markVars, cycleVars, capVars, mutVars
    <2>2. ~DeadRef(p[2])
      BY <2>1, <1>4 DEF AfterValues, ClearedValues, IInv, WeakValuesCleared
    <2>3. p[2] \in Slots \cup {None}
      BY <2>1, <1>1, ClearedPairTypes
    <2> QED
      BY <2>2, <2>3, <1>1, <1>6, <1>9, ShrinkFacts
         DEF DeadRef, IsObject, MarksLive, Marked, White
  <1>16. EphemeronsScanned'
    BY <1>7, NotScanned
  <1>17. FreshUnknown'
    BY <1>1, <1>10, <1>6, <1>9, <1>8, KeepFresh
       DEF IInv, FreshUnknown, RegObjects, QueuedObjects, RebuildRevives, FinishAtomic,
           BackToPropagate, Separated, ValuesCleared, Traced, ScanDone, objVars, ageVars,
           finVars, markVars, cycleVars, capVars, mutVars
  <1>18. SweptIsLive'
    BY <1>6, <1>9, KeepSwept
       DEF RebuildRevives, FinishAtomic, BackToPropagate, Separated, ValuesCleared, Traced,
           ScanDone, objVars, ageVars, finVars, markVars, cycleVars, capVars, mutVars
  <1>19. FinalizersSeparated'
    BY <1>1, <1>5, <1>7, <1>6, ShrinkFacts
       DEF IInv, FinalizersSeparated, DeadFinalizable, Whites, White, Marked, RebuildRevives,
           FinishAtomic, BackToPropagate, Separated, ValuesCleared, Traced, ScanDone, objVars,
           ageVars, finVars, markVars, cycleVars, capVars, mutVars
  <1>20. QueueIsPending'
    BY DEF IInv, QueueIsPending, QueuedObjects, RebuildRevives, FinishAtomic, BackToPropagate,
           Separated, ValuesCleared, Traced, ScanDone, objVars, ageVars, finVars, markVars,
           cycleVars, capVars, mutVars
  <1>21. NoDangling'
    BY <1>3, <1>5, <1>1, <1>10, <1>6, <1>9, <1>8, <1>7, KeepNoDangling
       DEF IInv, NoDangling, Roots, RegObjects, QueuedObjects, RebuildRevives, FinishAtomic,
           BackToPropagate, Separated, ValuesCleared, Traced, ScanDone, objVars, ageVars,
           finVars, markVars, cycleVars, capVars, mutVars
  <1> QED
    BY <1>1, <1>10, <1>11, <1>12, <1>13, <1>14, <1>15, <1>16, <1>17, <1>18, <1>19, <1>20, <1>21
       DEF IInv

\* With a promotion threshold of one cycle every marked object will be old, so
\* that rebuild_remembered_set would revive a child that is not marked.
LEMMA OldOwnersHeap ==
    ASSUME IInv, GcModes = {"Generational"}, Promote = 1, DeadChildren = {},
           NEW s \in occ, Marked(s), NEW c \in occ, c \in ChildrenIn(FinalPairs, s), phase = "Atomic"
    PROVE  Marked(c)
  <1>1. TypeOK /\ mode = "Generational" /\ s \in Slots /\ c \in Slots
    BY Domains DEF IInv, TypeOK, CycleTypes
  <1>2. FutureOld(s)
    <2>1. survivals[s] + 1 >= Promote
      <3>1. survivals[s] \in Nat
        BY <1>1 DEF TypeOK, AgeTypes
      <3> QED
        BY SMT, <3>1
    <2> QED
      BY <1>1, <2>1 DEF FutureOld, FutureDead, White, Marked
  <1>3. ~FutureDead(c)
    BY <1>1, <1>2 DEF DeadChildren
  <1> QED
    BY <1>1, <1>3 DEF FutureDead, White, Marked, IInv, Control

\* When the atomic step ends, a marked object refers to marked objects only:
\* tracing is complete and the dead weak entries are gone.
LEMMA SealedHeap ==
    ASSUME IInv, KvStringsKept, Separated, DeadChildren = {}, NEW s \in occ, Marked(s),
           NEW c \in ChildrenIn(FinalPairs, s)
    PROVE  Marked(c)
  <1>1. TypeOK /\ s \in Slots /\ work = {} /\ phase = "Atomic" /\ \A t \in occ : t <= ephCur
    BY Domains DEF IInv, Separated, ValuesCleared, Traced, ScanDone
  <1>2. FinalPairs[s] \subseteq AfterValues[s] /\ AfterValues[s] \subseteq pairs[s]
    BY <1>1, ClearSub
  <1>3. c \in Children(s)
    BY <1>2 DEF Children, ChildrenIn, KeysOf, ValuesOf
  <1>4. CASE Sealed
    BY <1>1, <1>3, <1>4, LiveShape DEF IInv, NoDangling
  <1>5. CASE ~Sealed
    <2>1. c \in occ /\ c \in Slots /\ c # None
      BY <1>1, <1>3, <1>5, LiveShape, Domains, SlotsFinite DEF IInv, NoDangling
    <2>2. color[s] = "Black"
      BY <1>1 DEF IInv, WorkIsGray, Marked, TypeOK, MarkTypes, Colors
    <2>3. \A d \in StrongChildren(s) : Marked(d)
      <3>1. CASE Untraced(s)
        <4>1. mode # "Incremental" /\ age[s] = "Old"
          BY <1>1, <3>1 DEF IInv, Control, Untraced
        <4>2. StrongChildren(s) \subseteq OldChildren
          BY <4>1 DEF OldChildren, Marked, White
        <4> QED
          BY <4>2 DEF Separated, ValuesCleared, Traced, Whites, White, Marked
      <3>2. CASE ~Untraced(s)
        BY <1>1, <2>2, <3>2 DEF IInv, TriColor
      <3> QED
        BY <3>1, <3>2
    <2>4. wmode[s] \in {"strong", "keys", "values", "all"}
      BY <1>1 DEF TypeOK, ObjTypes, AllModes
    <2>5. kind[c] \in {"table", "string"}
      BY <1>1, <2>1 DEF TypeOK, ObjTypes, AllKinds, occ
    <2>6. wmode[s] = "all" => kind[c] = "table" \/ Marked(c)
      <3>1. CASE ~("all" \in WeakModes /\ "string" \in Kinds)
        BY <1>1, <2>1, <2>5, <3>1 DEF IInv, SlotShape, occ
      <3>2. CASE GcModes = {"Generational"} /\ Promote = 1
        BY <1>1, <2>1, <3>2, OldOwnersHeap
      <3> QED
        BY <3>1, <3>2 DEF KvStringsKept
    <2>7. CASE c \in kids[s]
      BY <2>3, <2>7 DEF StrongChildren
    <2>8. ASSUME NEW p \in FinalPairs[s], c = p[1] PROVE Marked(c)
      <3>1. p \in pairs[s]
        BY <1>2
      <3>2. CASE wmode[s] \in {"keys", "all"} /\ kind[c] = "table"
        BY <1>1, <2>1, <2>8, <3>2, ClearSub DEF DeadRef, IsObject, White, Marked
      <3>3. CASE ~(wmode[s] \in {"keys", "all"} /\ kind[c] = "table")
        <4>1. c \in StrongKeys(s) \/ Marked(c)
          BY <2>1, <2>4, <2>5, <2>6, <2>8, <3>1, <3>3 DEF StrongKeys, KeysOf, IsString
        <4> QED
          BY <2>3, <4>1 DEF StrongChildren
      <3> QED
        BY <3>2, <3>3
    <2>9. ASSUME NEW p \in FinalPairs[s], c = p[2] PROVE Marked(c)
      <3>1. p \in pairs[s] /\ p \in AfterValues[s]
        BY <1>2
      <3>2. CASE c \in StrongValues(s)
        BY <2>3, <3>2 DEF StrongChildren
      <3>3. CASE wmode[s] \in {"values", "all"} /\ kind[c] = "table"
        <4>1. ~DeadRef(p[2])
          BY <1>1, <1>5, <3>1, <3>3 DEF AfterValues, ClearedValues, IInv, WeakValuesCleared
        <4> QED
          BY <2>1, <2>9, <3>3, <4>1 DEF DeadRef, IsObject, White, Marked
      <3>4. CASE wmode[s] = "keys" /\ IsObject(p[1])
        <4>1. Marked(p[1])
          BY <1>1, <3>4, ClearSub DEF DeadRef, White, Marked
        <4>2. s <= ephCur
          BY <1>1
        <4> QED
          BY <1>1, <1>5, <2>1, <2>9, <3>1, <3>4, <4>1, <4>2 DEF IInv, EphemeronsScanned
      <3>5. \/ c \in StrongValues(s)
            \/ wmode[s] \in {"values", "all"} /\ kind[c] = "table"
            \/ wmode[s] = "keys" /\ IsObject(p[1])
        BY <2>1, <2>4, <2>5, <2>9, <3>1 DEF StrongValues, ValuesOf, IsString
      <3> QED
        BY <3>2, <3>3, <3>4, <3>5
    <2> QED
      BY <2>7, <2>8, <2>9 DEF ChildrenIn, KeysOf, ValuesOf
  <1> QED
    BY <1>4, <1>5

\* The end of the atomic step, whether the sweep begins or the remembered set
\* could not be rebuilt.
LEMMA InvSeals ==
    ASSUME IInv, TypeOK', KvStringsKept, Separated, DeadChildren = {}, FinishAtomic("Sweep"),
           UNCHANGED <<color, work>>, phase' \in {"Atomic", "Sweep"},
           remTodo' \subseteq remembered', remembered' \subseteq occ
    PROVE  IInv'
  <1>1. TypeOK /\ phase = "Atomic" /\ work = {} /\ rootsTodo = {}
    BY DEF IInv, Separated, ValuesCleared, Traced, ScanDone, Control
  <1>2. Sealed'
    BY DEF Sealed, FinishAtomic, objVars, ageVars, finVars, mutVars
  <1>3. Shrinks
    BY <1>1, ClearSub DEF Shrinks, FinishAtomic, objVars, ageVars, finVars, mutVars
  <1>4. occ' = occ /\ occ \subseteq Slots /\ \A s \in Slots : Marked(s)' = Marked(s)
    BY <1>1, <1>3, ShrinkFacts, Domains DEF Marked
  <1>5. MarksLive
    BY <1>4, MarkedLive DEF MarksLive
  <1>6. Control'
    BY <1>1, <1>2, <1>4 DEF IInv, Control, FinishAtomic, objVars, ageVars, finVars, mutVars
  <1>7. Live' = {s \in occ : Marked(s)}
    BY <1>2, <1>4, <1>6, LiveShapeNext
  <1>8. \A s \in Live' : Children(s)' \subseteq Live'
    <2> SUFFICES ASSUME NEW s \in Live', NEW c \in Children(s)' PROVE c \in Live'
      OBVIOUS
    <2>1. s \in occ /\ Marked(s) /\ s \in Slots
      BY <1>4, <1>7
    <2>2. c \in ChildrenIn(FinalPairs, s)
      BY DEF Children, ChildrenIn, FinishAtomic, objVars, ageVars, finVars, mutVars
    <2>3. Marked(c)
      BY <2>1, <2>2, SealedHeap
    <2>4. c \in Slots
      BY <1>1, <1>3, <2>1, ShrinkFacts, Domains
    <2> QED
      BY <1>1, <1>7, <2>3, <2>4, MarkedLive, LiveShape DEF IInv
  <1>9. Roots' \subseteq Live'
    BY <1>1, <1>7, LiveShape
       DEF IInv, NoDangling, RootsCovered, Roots, RegObjects, QueuedObjects, FinishAtomic,
           objVars, ageVars, finVars, mutVars
  <1>10. NoDangling'
    BY <1>1, <1>4, <1>8, <1>9 DEF NoDangling, FinishAtomic, objVars, ageVars, finVars, mutVars
  <1>11. SlotShape' /\ TriColor' /\ SweptIsLive'
    <2>1. SlotShape'
      BY <1>3, <1>5, KeepSlotShape
         DEF IInv, SlotShape, FinishAtomic, objVars, ageVars, finVars, mutVars
    <2>2. TriColor'
      BY <1>1, <1>3, <1>5, KeepTriColor DEF FinishAtomic, objVars, ageVars, finVars, mutVars
    <2> QED
      BY <1>3, <1>5, <2>1, <2>2, KeepSwept DEF FinishAtomic, objVars, ageVars, finVars, mutVars
  <1>12. WorkIsGray' /\ RootsCovered' /\ QueueIsPending'
    BY <1>1, <1>4, Domains
       DEF IInv, WorkIsGray, RootsCovered, QueueIsPending, Roots, RegObjects,
                               QueuedObjects, FinishAtomic, objVars, ageVars, finVars, mutVars
  <1>13. WeakValuesCleared' /\ EphemeronsScanned'
    BY <1>2 DEF WeakValuesCleared, EphemeronsScanned
  <1>14. FinalizersSeparated'
    BY <1>4
       DEF IInv, FinalizersSeparated, Separated, DeadFinalizable, Whites, White, Marked,
           FinishAtomic, objVars, ageVars, finVars, mutVars
  <1>15. FreshUnknown'
    <2>1. Live' \subseteq Live
      BY <1>4, <1>7, MarkedLive
    <2>2. \A s \in Live' : Children(s)' \subseteq Children(s)
      BY <1>1, <1>3, <1>4, <1>7, ShrinkFacts
    <2> QED
      BY <2>1, <2>2
         DEF IInv, FreshUnknown, RegObjects, QueuedObjects, FinishAtomic, objVars, ageVars,
             finVars, mutVars
  <1> QED
    BY <1>6, <1>10, <1>11, <1>12, <1>13, <1>14, <1>15 DEF IInv

LEMMA InvRebuildFails == ASSUME IInv, KvStringsKept, RebuildFails PROVE IInv'
  <1>1. TypeOK'
    BY TypeRebuildFails DEF IInv
  <1>2. FinishAtomic("Sweep")
    BY DEF RebuildFails, FinishAtomic
  <1>3. /\ UNCHANGED <<color, work>> /\ phase' \in {"Atomic", "Sweep"}
        /\ remTodo' \subseteq remembered' /\ remembered' \subseteq occ /\ Separated
        /\ DeadChildren = {}
    BY DEF IInv, NoDangling, RebuildFails, markVars, Separated, ValuesCleared, Traced, ScanDone
  <1> QED
    BY <1>1, <1>2, <1>3, InvSeals

LEMMA InvEnterSweep == ASSUME IInv, KvStringsKept, EnterSweep PROVE IInv'
  <1>1. TypeOK'
    BY TypeEnterSweep DEF IInv
  <1>2. /\ FinishAtomic("Sweep") /\ UNCHANGED <<color, work>> /\ phase' \in {"Atomic", "Sweep"}
        /\ remTodo' \subseteq remembered' /\ remembered' \subseteq occ /\ Separated
        /\ DeadChildren = {}
    BY DEF EnterSweep, YoungOwners
  <1> QED
    BY <1>1, <1>2, InvSeals

\* begin_gc_cycle_kind: colours, cursors and the weak-mode snapshots are set anew.
LEMMA InvBeginCycle ==
    ASSUME IInv, TypeOK', NEW c, BeginCycle(c), c = "Minor" => mode = "Generational",
           ~running, collecting' # "idle" => fresh = None
    PROVE  IInv'
  <1>1. TypeOK /\ ~Sealed /\ ~Sealed' /\ phase' = "RootMark" /\ work' = {}
    BY DEF IInv, Control, Sealed, BeginCycle, ageVars, finVars
  <1>2. /\ occ' = occ /\ occ \subseteq Slots
        /\ \A s \in Slots : Children(s)' = Children(s)
    BY <1>1, Domains
       DEF occ, Children, ChildrenIn, KeysOf, ValuesOf, BeginCycle, ageVars, finVars
  <1>3. /\ \A s \in Slots : color'[s] # "Gray"
        /\ \A s \in Slots : Marked(s)' <=> c = "Minor" /\ s \in occ /\ age[s] = "Old"
        /\ \A s \in Slots : color'[s] = "Black" <=> c = "Minor" /\ s \in occ /\ age[s] = "Old"
    BY DEF Marked, BeginCycle, ageVars, finVars
  <1>4. Roots' = Roots /\ RegObjects' = RegObjects /\ QueuedObjects' = QueuedObjects
    BY DEF Roots, RegObjects, QueuedObjects, BeginCycle, ageVars, finVars
  <1>5. Control'
    BY <1>1, <1>2, <1>3, SlotNumbers DEF IInv, Control, BeginCycle, ageVars, finVars
  <1>6. Live' = occ /\ Live = occ
    BY <1>1, <1>2, <1>5, LiveShape, LiveShapeNext DEF IInv
  <1>7. SlotShape'
    <2> SUFFICES ASSUME NEW s \in Slots
                 PROVE (/\ kind[s] \in Kinds \cup {"free"}
                        /\ want[s] \in WeakModes \cup {"strong"} /\ wmode[s] \in WeakModes \cup {"strong"}
                        /\ kind[s] # "table" => kids[s] = {} /\ pairs[s] = {}
                        /\ kind[s] = "free" => /\ color[s] = "White" /\ wmode[s] = "strong"
                                               /\ fin[s] = "Unregistered")'
      BY DEF SlotShape
    <2> QED
      BY DEF IInv, SlotShape, occ, BeginCycle, ageVars, finVars
  <1>8. WorkIsGray' /\ RootsCovered'
    BY <1>1, <1>3, <1>4 DEF WorkIsGray, RootsCovered, BeginCycle, ageVars, finVars
  <1>9. TriColor' /\ WeakValuesCleared' /\ EphemeronsScanned'
    BY <1>1, <1>2, <1>3
       DEF TriColor, Untraced, WeakValuesCleared, EphemeronsScanned, BeginCycle, ageVars,
           finVars
  <1>10. FreshUnknown'
    BY <1>2, <1>4, <1>6 DEF IInv, FreshUnknown, BeginCycle, ageVars, finVars
  <1>11. SweptIsLive'
    BY <1>2, SlotNumbers DEF SweptIsLive, BeginCycle
  <1>12. FinalizersSeparated' /\ QueueIsPending'
    BY <1>4 DEF IInv, FinalizersSeparated, QueueIsPending, BeginCycle, ageVars, finVars
  <1>13. NoDangling'
    BY <1>1, <1>2, <1>4, <1>6 DEF IInv, NoDangling, BeginCycle, ageVars, finVars
  <1> QED
    BY <1>5, <1>7, <1>8, <1>9, <1>10, <1>11, <1>12, <1>13 DEF IInv

LEMMA InvStepBegins == ASSUME IInv, ~running, StepBegins PROVE IInv'
  <1>1. TypeOK'
    BY TypeStepBegins DEF IInv
  <1>2. PICK c \in CycleKinds : BeginCycle(c)
    BY DEF StepBegins
  <1>3. c = "Minor" => mode = "Generational"
    BY ConstAssumption DEF CycleKinds, IInv, TypeOK, CycleTypes, AllGcModes
  <1> QED
    BY <1>1, <1>2, <1>3, InvBeginCycle DEF StepBegins

LEMMA InvCollectBegins == ASSUME IInv, ~running, CollectBegins PROVE IInv'
  <1>1. TypeOK'
    BY TypeCollectBegins DEF IInv
  <1>2. fresh = None
    BY DEF CollectBegins, IInv, Control
  <1>3. CASE mode = "Generational"
    BY <1>1, <1>2, <1>3, InvBeginCycle DEF CollectBegins
  <1>4. CASE mode # "Generational"
    BY <1>1, <1>2, <1>4, InvBeginCycle DEF CollectBegins
  <1> QED
    BY <1>3, <1>4

LEMMA InvSweepSlot == ASSUME IInv, SweepSlot PROVE IInv'
  <1>1. TypeOK /\ TypeOK' /\ Sealed /\ Sealed' /\ work = {} /\ rootsTodo = {}
    BY TypeSweepSlot
       DEF IInv, Control, Sealed, WorkIsGray, SweepSlot, objVars, ageVars, capVars, mutVars
  <1>2. PICK s \in occ :
          /\ s > sweepCur /\ \A t \in occ : t > sweepCur => s <= t
          /\ sweepCur' = s
          /\ IF Sweepable(s)
             THEN Reclaim(s)
             ELSE UNCHANGED <<objVars, ageVars, fin, order, remarked, color, work, rootsTodo,
                              remembered, remTodo>>
    BY DEF SweepSlot, objVars, ageVars, capVars, mutVars
  <1>3. Roots' = Roots /\ RegObjects' = RegObjects /\ QueuedObjects' = QueuedObjects
    BY DEF Roots, RegObjects, QueuedObjects, SweepSlot, objVars, ageVars, capVars, mutVars
  <1>4. Live = {t \in occ : Marked(t)} /\ occ \subseteq Slots /\ s \in Slots
    BY <1>1, LiveShape DEF IInv
  <1>5. WeakValuesCleared' /\ EphemeronsScanned'
    BY <1>1 DEF WeakValuesCleared, EphemeronsScanned
  <1>6. \A t \in occ : t <= s => t <= sweepCur \/ t = s
    <2> SUFFICES ASSUME NEW t \in occ, t <= s PROVE t <= sweepCur \/ t = s
      OBVIOUS
    <2>1. t \in Nat /\ s \in Nat /\ sweepCur \in Nat
      BY <1>1, <1>4, SlotNumbers DEF TypeOK, CycleTypes
    <2>2. t > sweepCur => s <= t
      BY <1>2
    <2> QED
      BY <2>1, <2>2, Passed
  <1>7. CASE ~Sweepable(s)
    <2>1. UNCHANGED <<objVars, ageVars, fin, color, work, rootsTodo, remembered, remTodo>>
      BY <1>2, <1>7
    <2>2. Shrinks /\ \A t \in Slots : Marked(t)' = Marked(t)
      BY <1>1, <2>1, QuietShrinks DEF Marked, SweepSlot, objVars, ageVars, capVars, mutVars
    <2>3. MarksLive
      BY <2>2, MarkedLive DEF MarksLive
    <2>4. occ' = occ
      BY <1>1, <2>2, ShrinkFacts
    <2>5. Control'
      BY <1>1, <1>4, <2>1, <2>2, <2>4
         DEF IInv, Control, SweepSlot, objVars, ageVars, capVars, mutVars
    <2>6. Marked(s)
      BY <1>1, <1>7
         DEF IInv, Control, Sweepable, White, Marked, SweepSlot, objVars, ageVars, capVars,
             mutVars
    <2>7. SweptIsLive'
      BY <1>2, <1>4, <1>6, <2>2, <2>4, <2>6 DEF IInv, SweptIsLive
    <2>8. SlotShape' /\ TriColor'
      <3>1. SlotShape'
        BY <2>1, <2>2, <2>3, KeepSlotShape
           DEF IInv, SlotShape, SweepSlot, objVars, ageVars, capVars, mutVars
      <3>2. TriColor'
        BY <2>1, <2>2, <2>3, KeepTriColor DEF SweepSlot, objVars, ageVars, capVars, mutVars
      <3> QED
        BY <3>1, <3>2
    <2>9. Sealed' = Sealed
      BY <1>1 DEF Sealed
    <2>10. FreshUnknown'
      BY <1>1, <1>3, <2>1, <2>2, <2>3, <2>5, <2>9, KeepFresh
         DEF IInv, FreshUnknown, SweepSlot, objVars, ageVars, capVars, mutVars
    <2>11. NoDangling'
      BY <1>1, <1>3, <2>1, <2>2, <2>3, <2>5, <2>9, KeepNoDangling DEF IInv, NoDangling
    <2>12. WorkIsGray' /\ RootsCovered' /\ FinalizersSeparated' /\ QueueIsPending'
      BY <1>1, <1>3, <1>4, <2>1, <2>2, <2>4, Domains
         DEF IInv, WorkIsGray, RootsCovered, FinalizersSeparated, QueueIsPending, SweepSlot,
             objVars, ageVars, capVars, mutVars
    <2> QED
      BY <1>1, <1>5, <2>5, <2>7, <2>8, <2>10, <2>11, <2>12 DEF IInv
  <1>8. CASE Sweepable(s)
    <2> USE DEF EmptySlot
    <2>1. Reclaim(s) /\ ~Marked(s) /\ s \notin Live
      BY <1>2, <1>4, <1>8 DEF Sweepable, White, Marked
    <2>2. /\ occ' = occ \ {s} /\ kind' = [kind EXCEPT ![s] = "free"]
          /\ \A t \in Slots : Marked(t)' = Marked(t)
          /\ \A t \in Slots \ {s} : /\ kids'[t] = kids[t] /\ pairs'[t] = pairs[t]
                                    /\ wmode'[t] = wmode[t] /\ color'[t] = color[t]
                                    /\ fin'[t] = fin[t] /\ age'[t] = age[t]
      <3>1. /\ occ' = occ \ {s} /\ kind' = [kind EXCEPT ![s] = "free"] /\ color'[s] = "White"
            /\ \A t \in Slots \ {s} : /\ kids'[t] = kids[t] /\ pairs'[t] = pairs[t]
                                      /\ wmode'[t] = wmode[t] /\ color'[t] = color[t]
                                      /\ fin'[t] = fin[t] /\ age'[t] = age[t]
        BY <1>1, <1>4, <2>1, ReclaimFacts
      <3>2. \A t \in Slots : Marked(t)' = Marked(t)
        BY <2>1, <3>1 DEF Marked
      <3> QED
        BY <3>1, <3>2
    <2>3. Control'
      <3>1. /\ UNCHANGED <<phase, stage, ephCur, cycle, mode, running, collecting, fresh>>
            /\ rootsTodo' = {}
        BY <1>1, <2>1 DEF Reclaim, SweepSlot, objVars, ageVars, capVars, mutVars
      <3>2. \A t \in occ' : t \in occ /\ t \in Slots /\ age'[t] = age[t] /\ Marked(t)' = Marked(t)
        BY <1>4, <2>2
      <3> HIDE DEF SweepSlot, EmptySlot
      <3> QED
        BY <1>1, <3>1, <3>2 DEF IInv, Control
    <2>4. Live' = Live
      BY <1>1, <1>4, <2>1, <2>2, <2>3, LiveShapeNext
    <2>5. \A t \in Live : /\ t # s /\ s \notin Children(t) /\ Children(t)' = Children(t)
                          /\ StrongChildren(t)' = StrongChildren(t)
      <3> SUFFICES ASSUME NEW t \in Live
                   PROVE  /\ t # s /\ s \notin Children(t) /\ Children(t)' = Children(t)
                          /\ StrongChildren(t)' = StrongChildren(t)
        OBVIOUS
      <3>1. t \in Slots \ {s} /\ s \notin Children(t)
        BY <1>4, <2>1 DEF IInv, NoDangling
      <3> QED
        BY <1>1, <1>4, <2>2, <3>1, Elsewhere
    <2>6. NoDangling'
      <3>1. \A t \in Live' : Children(t)' \subseteq Live'
        BY <2>4, <2>5 DEF IInv, NoDangling
      <3>2. remTodo' \subseteq remembered' /\ remembered' \subseteq occ'
        BY <2>1, <2>2 DEF IInv, NoDangling, Reclaim
      <3>3. rootsTodo' = {} /\ work' = {}
        BY <1>1, <2>1 DEF Reclaim
      <3> QED
        BY <1>3, <2>4, <3>1, <3>2, <3>3 DEF IInv, NoDangling
    <2>7. SlotShape'
      <3>1. /\ kind'[s] = "free" /\ kids'[s] = {} /\ pairs'[s] = {} /\ color'[s] = "White"
            /\ want'[s] = "strong" /\ wmode'[s] = "strong" /\ fin'[s] = "Unregistered"
        BY <1>1, <1>4, <2>1, ReclaimFacts
      <3>2. ASSUME NEW t \in Slots \ {s}
            PROVE  /\ kind'[t] = kind[t] /\ want'[t] = want[t] /\ wmode'[t] = wmode[t]
                   /\ kids'[t] = kids[t] /\ pairs'[t] = pairs[t]
                   /\ color'[t] = color[t] /\ fin'[t] = fin[t]
        BY <1>1, <1>4, <2>1, <2>2, ReclaimFacts
      <3> SUFFICES ASSUME NEW t \in Slots
                   PROVE (/\ kind[t] \in Kinds \cup {"free"}
                          /\ want[t] \in WeakModes \cup {"strong"} /\ wmode[t] \in WeakModes \cup {"strong"}
                          /\ kind[t] # "table" => kids[t] = {} /\ pairs[t] = {}
                          /\ kind[t] = "free" => /\ color[t] = "White" /\ wmode[t] = "strong"
                                                 /\ fin[t] = "Unregistered")'
        BY DEF SlotShape
      <3>3. CASE t = s
        BY <3>1, <3>3
      <3>4. CASE t # s
        <4>1. /\ kind[t] \in Kinds \cup {"free"}
              /\ want[t] \in WeakModes \cup {"strong"} /\ wmode[t] \in WeakModes \cup {"strong"}
              /\ kind[t] # "table" => kids[t] = {} /\ pairs[t] = {}
              /\ kind[t] = "free" => /\ color[t] = "White" /\ wmode[t] = "strong"
                                     /\ fin[t] = "Unregistered"
          BY DEF IInv, SlotShape
        <4> QED
          BY <3>2, <3>4, <4>1
      <3> QED
        BY <3>3, <3>4
    <2>8. WorkIsGray'
      <3>1. phase' = "Sweep" /\ work' = {}
        BY <1>1, <2>1 DEF IInv, WorkIsGray, Reclaim, SweepSlot
      <3>2. \A t \in Slots : ~Marked(t)' \/ color'[t] = color[t]
        BY <2>1, <2>2
      <3>3. \A t \in Slots : color'[t] # "Gray"
        BY <1>1, <3>2 DEF IInv, WorkIsGray, Marked
      <3> QED
        BY <3>1, <3>3 DEF WorkIsGray
    <2>9. RootsCovered' /\ SweptIsLive'
      <3>1. RootsCovered'
        BY <1>1, <1>3, <2>1, <2>2, Domains
           DEF IInv, RootsCovered, Reclaim, SweepSlot, objVars, ageVars, capVars, mutVars
      <3>2. SweptIsLive'
        BY <1>2, <1>4, <1>6, <2>2 DEF IInv, SweptIsLive
      <3> QED
        BY <3>1, <3>2
    <2>10. TriColor'
      <3> SUFFICES ASSUME NEW t \in occ', color'[t] = "Black", ~Untraced(t)'
                   PROVE  \A c \in StrongChildren(t)' : Marked(c)'
        BY DEF TriColor, SweepSlot, objVars, ageVars, capVars, mutVars
      <3>1. t \in occ /\ t # s /\ t \in Slots /\ color[t] = "Black" /\ ~Untraced(t)
        BY <1>4, <2>2 DEF Untraced, SweepSlot, objVars, ageVars, capVars, mutVars
      <3>2. t \in Live /\ StrongChildren(t) \subseteq Slots
        BY <1>1, <1>4, <3>1, ChildTypes DEF Marked
      <3> QED
        BY <2>2, <2>5, <3>1, <3>2
           DEF IInv, TriColor, SweepSlot, objVars, ageVars, capVars, mutVars
    <2>11. FreshUnknown'
      <3>1. fresh # None => fresh # s
        BY <2>1 DEF IInv, NoDangling, Roots
      <3>2. fresh # None => fin'[fresh] = fin[fresh]
        BY <1>1, <2>2, <3>1 DEF TypeOK, MutTypes
      <3> QED
        BY <1>3, <2>4, <2>5, <3>2
           DEF IInv, FreshUnknown, SweepSlot, objVars, ageVars, capVars, mutVars
    <2>12. FinalizersSeparated'
      BY <1>4, <2>2 DEF IInv, FinalizersSeparated, SweepSlot, objVars, ageVars, capVars, mutVars
    <2>13. QueueIsPending'
      BY <1>1, <1>3, <1>4, <2>1, <2>2 DEF IInv, QueueIsPending, Reclaim, TypeOK, FinTypes
    <2> QED
      BY <1>1, <1>5, <2>3, <2>6, <2>7, <2>8, <2>9, <2>10, <2>11, <2>12, <2>13 DEF IInv
  <1> QED
    BY <1>7, <1>8

LEMMA InvEndSweep == ASSUME IInv, EndSweep PROVE IInv'
  <1>1. TypeOK /\ TypeOK' /\ Sealed /\ ~Sealed'
    BY TypeEndSweep DEF IInv, Control, Sealed, EndSweep, objVars, finVars
  <1>2. /\ occ' = occ /\ occ \subseteq Slots /\ Live = occ
        /\ \A s \in Slots : Children(s)' = Children(s)
    <2>1. occ' = occ /\ \A s \in Slots : Children(s)' = Children(s)
      BY DEF occ, Children, ChildrenIn, KeysOf, ValuesOf, EndSweep, objVars, finVars
    <2>2. Live = occ
      BY <1>1, LiveShape DEF IInv, SweptIsLive, EndSweep, objVars, finVars
    <2> QED
      BY <1>1, <2>1, <2>2, Domains
  <1>3. Roots' = Roots /\ RegObjects' = RegObjects /\ QueuedObjects' = QueuedObjects
    BY DEF Roots, RegObjects, QueuedObjects, EndSweep, objVars, finVars
  <1>4. Control'
    BY <1>1, SlotNumbers DEF IInv, Control, EndSweep, objVars, finVars
  <1>5. Live' = occ
    BY <1>1, <1>2, <1>4, LiveShapeNext
  <1>6. SlotShape'
    BY DEF IInv, SlotShape, EndSweep, objVars, finVars
  <1>7. WorkIsGray' /\ RootsCovered' /\ TriColor' /\ WeakValuesCleared' /\ EphemeronsScanned'
    BY DEF WorkIsGray, RootsCovered, TriColor, WeakValuesCleared, EphemeronsScanned, EndSweep,
           objVars, finVars
  <1>8. FreshUnknown'
    BY <1>2, <1>3, <1>5 DEF IInv, FreshUnknown, EndSweep, objVars, finVars
  <1>9. SweptIsLive'
    BY <1>2, SlotNumbers DEF SweptIsLive, EndSweep
  <1>10. FinalizersSeparated' /\ QueueIsPending'
    BY <1>3 DEF IInv, FinalizersSeparated, QueueIsPending, EndSweep, objVars, finVars
  <1>11. NoDangling'
    BY <1>2, <1>3, <1>5 DEF IInv, NoDangling, EndSweep, objVars, finVars
  <1> QED
    BY <1>1, <1>4, <1>6, <1>7, <1>8, <1>9, <1>10, <1>11 DEF IInv

LEMMA InvGcStep == ASSUME KvStringsKept, IInv, GcStep PROVE IInv'
  <1>0. ~running
    BY DEF GcStep
  <1>1. CASE StepBegins \/ CollectBegins
    BY <1>0, <1>1, InvStepBegins, InvCollectBegins
  <1>2. CASE MarkRoot \/ TraceRemembered \/ RootsMarked \/ Propagate \/ Propagated
    BY <1>2, InvMarkRoot, InvTraceRemembered, InvRootsMarked, InvPropagate, InvPropagated
  <1>3. CASE AtomicResume \/ ScanEphemeron \/ RetraceOld
    BY <1>3, InvAtomicResume, InvScanEphemeron, InvRetraceOld
  <1>4. CASE ClearWeakValues \/ Separate \/ ReserveCandidatesFails
    BY <1>4, InvClearWeakValues, InvSeparate, InvReserveCandidatesFails
  <1>5. CASE RebuildRevives \/ RebuildFails \/ EnterSweep
    BY <1>5, InvRebuildRevives, InvRebuildFails, InvEnterSweep
  <1>6. CASE SweepSlot \/ EndSweep
    BY <1>6, InvSweepSlot, InvEndSweep
  <1> QED
    BY <1>1, <1>2, <1>3, <1>4, <1>5, <1>6 DEF GcStep

=============================================================================
