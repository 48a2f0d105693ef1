-------------------------- MODULE StringPoolProof ---------------------------
(***************************************************************************)
(* Why the index and the heap agree: the invariant PoolInv of StringPool   *)
(* is inductive, and the theorems that follow from it.                     *)
(***************************************************************************)
EXTENDS StringIndexProof, SlotTableProof

---------------------------------------------------------------------------
(* What the steps of the heap leave alone *)

LEMMA AllocateSlots ==
    ASSUME IInv, NEW c \in Contents \cup {NoContent}, Allocate(c)
    PROVE  /\ \A r \in Valid : slots'[r.slot] = slots[r.slot]
           /\ slots'[NewRef.slot].content = c
           /\ ops' = [ops EXCEPT ![Level] = Op(NewRef, Reuses, len, FALSE)]
           /\ last' = [last EXCEPT ![Level] = NoOp]
           /\ ops[Level] = NoOp /\ finalizing' = finalizing /\ Level' = Level
  <1> DEFINE i == Candidate
  <1>1. TypeOK /\ BitmapsAgree /\ TokensUnique
    BY DEF IInv
  <1>2. /\ i \in Index /\ slots' = [slots EXCEPT ![i] = Occupied(NewRef, c)]
        /\ ops' = [ops EXCEPT ![Level] = Op(NewRef, Reuses, len, FALSE)]
        /\ last' = [last EXCEPT ![Level] = NoOp]
        /\ ops[Level] = NoOp /\ finalizing' = finalizing
    BY DEF Allocate, Publish
  <1>3. slots[i].st # "occupied"
    <2>1. CASE Reuses
      BY <1>1, <2>1, CandidateFacts
    <2>2. CASE ~Reuses
      <3>1. i = len + 1 /\ len \in Nat
        BY <1>1, <2>2, CandidateFacts DEF TypeOK
      <3>2. i > len
        BY <3>1
      <3> QED
        BY <1>1, <1>2, <3>2 DEF BitmapsAgree
    <2> QED
      BY <2>1, <2>2
  <1>4. NewRef.slot = i /\ Occupied(NewRef, c).content = c
    BY DEF NewRef, Occupied
  <1> HIDE DEF i
  <1>5. slots'[i] = Occupied(NewRef, c) /\ \A j \in Index \ {i} : slots'[j] = slots[j]
    BY <1>1, <1>2 DEF TypeOK
  <1>6. \A r \in Valid : r.slot \in Index /\ slots[r.slot].st = "occupied"
    BY <1>1, ValidFacts
  <1>7. Level' = Level
    BY <1>2 DEF Level
  <1> QED
    BY <1>2, <1>3, <1>4, <1>5, <1>6, <1>7

\* One slot changes, and its object is dropped.
LEMMA OtherSlots ==
    ASSUME IInv, NEW r \in Valid, Valid' = Valid \ {r},
           \A j \in Index : j # r.slot => slots'[j] = slots[j]
    PROVE  \A q \in Valid' : slots'[q.slot] = slots[q.slot]
  <1>1. \A q \in Valid : q.slot \in Index /\ slots[q.slot].ref = q
    BY ValidFacts DEF IInv
  <1> QED
    BY <1>1

LEMMA ReclaimSlots ==
    ASSUME IInv, NEW r \in made, Reclaim(r)
    PROVE  \A q \in Valid' : slots'[q.slot] = slots[q.slot]
  <1>1. r \in Valid /\ Valid' = Valid \ {r}
    BY InvReclaim
  <1>2. \A j \in Index : j # r.slot => slots'[j] = slots[j]
    BY DEF Reclaim, Reclaimed, IInv, TypeOK
  <1> QED
    BY <1>1, <1>2, OtherSlots

LEMMA FailsSlots ==
    ASSUME IInv, ~FinalizersMayFail, Fails
    PROVE  \A q \in Valid' : slots'[q.slot] = slots[q.slot]
  <1> DEFINE o == ops[Level]
             r == ops[Level].ref
  <1>1. r \in Valid /\ Valid' = Valid \ {r}
    BY InvFails
  <1>2. o # NoOp /\ ~o.ran /\ Undo(o)
    BY DEF Fails
  <1>3. ~o.free => r.slot = len
    BY <1>2, LevelFacts DEF IInv, OpsOwnSlots
  <1>4. slots \in [Index -> SlotValues] /\ o.free \in BOOLEAN
    BY <1>2, LevelFacts, OpShape DEF IInv, TypeOK
  <1>5. \A j \in Index : j # r.slot => slots'[j] = slots[j]
    BY <1>2, <1>3, <1>4 DEF Undo
  <1> HIDE DEF r
  <1> QED
    BY <1>1, <1>5, OtherSlots

LEMMA UnpublishSlots ==
    ASSUME IInv, Unpublish
    PROVE  \A q \in Valid' : slots'[q.slot] = slots[q.slot]
  <1> DEFINE k == last[Level]
             r == last[Level].ref
  <1>1. r \in Valid /\ Valid' = Valid \ {r}
    BY InvUnpublish
  <1>2. slots' = IF Appended(k) THEN [Reclaimed(r) EXCEPT ![len] = Absent] ELSE Reclaimed(r)
    BY DEF Unpublish
  <1>3. Appended(k) => r.slot = len
    BY DEF Appended
  <1>4. slots \in [Index -> SlotValues]
    BY DEF IInv, TypeOK
  <1>5. \A j \in Index : j # r.slot => slots'[j] = slots[j]
    BY <1>2, <1>3, <1>4 DEF Reclaimed
  <1> HIDE DEF r
  <1> QED
    BY <1>1, <1>5, OtherSlots

---------------------------------------------------------------------------
(* The invariant of the index *)

LEMMA InterningShape ==
    ASSUME NEW i \in Internings
    PROVE  /\ i.for \in {"plain", "insert", "done"} /\ (i.for = "plain" <=> i = Plain)
           /\ i.for # "plain" =>
                 /\ i.grown \in BOOLEAN /\ i.ran \in BOOLEAN
                 /\ i.old \in [buckets : Seq(BucketValues), live : Nat, deleted : Nat]
                 /\ Capacity(i.old) \in Nat
                 /\ i = [for |-> i.for, grown |-> i.grown, old |-> i.old, ran |-> i.ran]
  <1>1. CASE i = Plain
    BY <1>1 DEF Plain
  <1>2. CASE i \in [for : {"insert", "done"}, grown : BOOLEAN,
                    old : [buckets : Seq(BucketValues), live : Nat, deleted : Nat], ran : BOOLEAN]
    <2>1. /\ i.for \in {"insert", "done"} /\ i.grown \in BOOLEAN /\ i.ran \in BOOLEAN
          /\ i.old \in [buckets : Seq(BucketValues), live : Nat, deleted : Nat]
          /\ i = [for |-> i.for, grown |-> i.grown, old |-> i.old, ran |-> i.ran]
      BY <1>2
    <2>2. i # Plain
      BY <2>1 DEF Plain
    <2>3. Capacity(i.old) \in Nat
      BY <2>1, Places
    <2> QED
      BY <2>1, <2>2, <2>3
  <1> QED
    BY <1>1, <1>2 DEF Internings

\* A finalizer's interning is in progress only while finalizers run, and the
\* one of the program is then inside its allocation.
LEMMA Nesting ==
    ASSUME IInv, PoolInv
    PROVE  /\ intern[2].for = "insert" => finalizing
           /\ \A l \in Levels : l # Level /\ (intern[l].for = "insert" \/ ops[l] # NoOp) =>
                 l = 1 /\ Level = 2 /\ ops[1] # NoOp /\ ops[1].ran /\ Target(1) = ops[1].ref
           /\ \A l \in Levels : ops[l] # NoOp => Target(l) = ops[l].ref
           /\ \A l \in Levels : ops[l] = NoOp => Target(l) = last[l].ref
           /\ \A l \in Levels : intern[l] \in Internings /\ intern[l].for \in {"plain", "insert", "done"}
           /\ DOMAIN intern = Levels /\ DOMAIN ops = Levels /\ DOMAIN last = Levels
  <1>1. 1 \in Levels /\ 2 \in Levels /\ \A l \in Levels : l = 1 \/ l = 2
    BY DEF Levels
  <1>2. \A l \in Levels : /\ ops[l] # NoOp => Target(l) = ops[l].ref
                          /\ ops[l] = NoOp => Target(l) = last[l].ref
    BY DEF Target
  <1>3. /\ intern \in [Levels -> Internings] /\ ops \in [Levels -> OpValues]
        /\ last \in [Levels -> KeptValues]
    BY DEF PoolInv, PoolTypeOK, IInv, TypeOK
  <1>4. \A l \in Levels : intern[l] \in Internings /\ intern[l].for \in {"plain", "insert", "done"}
    BY <1>3, InterningShape
  <1>5. /\ ops[2] # NoOp => finalizing
        /\ finalizing /\ ops[1] # NoOp => ops[1].ran
    BY DEF IInv, OpsOwnSlots
  <1>6. \A l \in Levels : intern[l].for = "insert" => ops[l] # NoOp \/ l = Level
    BY DEF PoolInv, Pending, OnItsWay
  <1>7. intern[2].for = "insert" => finalizing
    BY <1>1, <1>5, <1>6, LevelFacts
  <1>8. finalizing \/ Level = 1
    BY LevelFacts
  <1>9. ASSUME NEW l \in Levels, l # Level, intern[l].for = "insert" \/ ops[l] # NoOp
        PROVE  l = 1 /\ Level = 2 /\ ops[1] # NoOp /\ ops[1].ran /\ Target(1) = ops[1].ref
    <2>1. ops[l] # NoOp
      BY <1>6, <1>9
    <2>2. l = 1
      BY <1>1, <1>5, <1>9, <2>1, LevelFacts
    <2>3. Level = 2 /\ finalizing
      BY <1>1, <1>9, <2>2, LevelFacts
    <2> QED
      BY <1>1, <1>2, <1>5, <2>1, <2>2, <2>3
  <1> QED
    BY <1>2, <1>3, <1>4, <1>7, <1>9

\* A step in which no object changes its content, and no entry is lost but the
\* ones of dropped objects.
Frame ==
    /\ \A r \in made : r \in Valid' => r \in Valid /\ slots'[r.slot] = slots[r.slot]
    /\ Entries(pool') \subseteq Entries(pool)
    /\ \A b \in Entries(pool) : b \in Entries(pool') <=> b.ref \in Valid'

LEMMA FrameLive ==
    ASSUME PoolInv, Frame
    PROVE  EntriesLive'
  <1>1. ASSUME NEW b \in Entries(pool')
        PROVE  /\ b.ref \in Valid'
               /\ slots'[b.ref.slot].content # NoContent /\ b.hash = Hash[slots'[b.ref.slot].content]
    <2>1. b \in Entries(pool) /\ b.ref \in Valid'
      BY <1>1 DEF Frame
    <2>2. b.ref \in made /\ ContentOf(b.ref) # NoContent /\ b.hash = Hash[ContentOf(b.ref)]
      BY <2>1 DEF PoolInv, EntriesLive, Valid
    <2>3. slots'[b.ref.slot] = slots[b.ref.slot]
      BY <2>1, <2>2 DEF Frame
    <2> QED
      BY <2>1, <2>2, <2>3 DEF ContentOf
  <1> QED
    BY <1>1 DEF EntriesLive, ContentOf

LEMMA FramePending ==
    ASSUME IInv, PoolInv, Frame, NEW l \in Levels,
           ops'[l] = ops[l], last'[l] = last[l], intern'[l] = intern[l],
           Level' = Level \/ ops[l] # NoOp \/ intern[l].for # "insert",
           intern[l].for = "insert" => Target(l) \in Valid'
    PROVE  Pending(l)'
  <1>1. EntriesLive'
    BY FrameLive
  <1>2. Target(l)' = Target(l) /\ RanIn(l)' = RanIn(l)
    BY DEF Target, RanIn
  <1>3. OnItsWay(l) /\ NotFiled(l) /\ Filed(l) /\ EntriesLive
    BY DEF PoolInv, Pending
  <1>4. /\ \A r \in made : r \in Valid' => r \in Valid /\ slots'[r.slot] = slots[r.slot]
        /\ Entries(pool') \subseteq Entries(pool)
        /\ \A b \in Entries(pool) : b \in Entries(pool') <=> b.ref \in Valid'
        /\ Valid \subseteq made
    BY DEF Frame, Valid
  <1>5. \A b \in Entries(pool') : b.ref \in Valid /\ slots'[b.ref.slot] = slots[b.ref.slot]
    BY <1>3, <1>4 DEF EntriesLive
  <1>6. OnItsWay(l)'
    <2> SUFFICES ASSUME intern[l].for = "insert" PROVE OnItsWay(l)'
      BY DEF OnItsWay
    <2>1. /\ ops[l] # NoOp \/ (l = Level /\ last[l] # NoOp)
          /\ Target(l) \in Valid /\ ContentOf(Target(l)) \in Contents
          /\ \A b \in Entries(pool) : b.ref # Target(l)
          /\ ~RanIn(l) => \A b \in Entries(pool) : ContentOf(b.ref) # ContentOf(Target(l))
      BY <1>3 DEF OnItsWay
    <2>2. Target(l) \in Valid' /\ slots'[Target(l).slot] = slots[Target(l).slot]
      BY <1>4, <2>1
    <2>3. ops'[l] # NoOp \/ (l = Level' /\ last'[l] # NoOp)
      BY <2>1
    <2>4. slots'[Target(l).slot].content \in Contents
      BY <2>1, <2>2 DEF ContentOf
    <2>5. \A b \in Entries(pool') : b.ref # Target(l)
      BY <1>4, <2>1
    <2>6. ASSUME ~RanIn(l), NEW b \in Entries(pool')
          PROVE  slots'[b.ref.slot].content # slots'[Target(l).slot].content
      BY <1>4, <1>5, <2>1, <2>2, <2>6 DEF ContentOf
    <2> QED
      BY <1>2, <2>2, <2>3, <2>4, <2>5, <2>6 DEF OnItsWay, ContentOf
  <1>7. NotFiled(l)'
    BY <1>3, <1>4 DEF NotFiled
  <1>8. Filed(l)'
    <2> SUFFICES ASSUME intern[l].for = "done", last[l] # NoOp, last[l].ref \in Valid'
                 PROVE  Entry(Hash[slots'[last[l].ref.slot].content], last[l].ref) \in Entries(pool')
      BY DEF Filed, ContentOf
    <2>1. last[l].ref \in made
      BY DEF IInv, OpsOwnSlots
    <2>2. last[l].ref \in Valid /\ slots'[last[l].ref.slot] = slots[last[l].ref.slot]
      BY <1>4, <2>1
    <2>3. Entry(Hash[slots[last[l].ref.slot].content], last[l].ref) \in Entries(pool)
      BY <1>3, <2>2 DEF Filed, ContentOf
    <2> QED
      BY <1>4, <2>2, <2>3, BucketShape
  <1> QED
    BY <1>6, <1>7, <1>8 DEF Pending

\* The index is the same, has no buckets any more, or is not fuller than before.
Lighter(p, q) ==
    \/ q = p
    \/ q = NoPool
    \/ /\ q.live > 0
       /\ \/ Capacity(q) = Capacity(p) /\ Used(q) = Used(p)
          \/ Used(q) <= Capacity(q) \div 2

LEMMA LoadKept ==
    ASSUME PoolTypeOK, Load, NEW l \in Levels, Sound(pool'), Lighter(pool, pool'),
           intern' = intern \/ intern' = [intern EXCEPT ![l] = Plain],
           intern'[2].for # "insert",
           pool' = pool /\ pool.live = 0 /\ pool.buckets # <<>> =>
               intern' = intern \/ intern[l].for # "insert" \/ ~intern[l].grown
    PROVE  Load'
  <1>1. intern \in [Levels -> Internings] /\ Plain.for = "plain" /\ Sound(pool)
    BY DEF PoolTypeOK, Plain
  <1>2. \A k \in Levels : intern'[k] = intern[k] \/ (k = l /\ intern'[k].for = "plain")
    BY <1>1
  <1>3. \A k \in Levels : intern'[k].for = "insert" => intern'[k] = intern[k]
    BY <1>2
  <1>4. /\ pool.live \in Nat /\ pool.deleted \in Nat /\ Capacity(pool) \in Nat
        /\ pool'.live \in Nat /\ pool'.deleted \in Nat /\ Capacity(pool') \in Nat
        /\ pool.buckets = <<>> <=> Capacity(pool) = 0
        /\ pool'.buckets = <<>> <=> Capacity(pool') = 0
    BY <1>1, EntriesAre, Places
  <1>5. /\ pool.buckets # <<>> => Used(pool) <= Capacity(pool) \div 2 + 1
        /\ \A k \in Levels : intern[k].for = "insert" /\ pool.buckets # <<>> =>
              Used(pool) <= Capacity(pool) \div 2
        /\ pool.live = 0 /\ pool.buckets # <<>> =>
              \E k \in Levels : intern[k].for = "insert" /\ intern[k].grown
    BY DEF Load, Used
  <1>6. CASE pool' = pool
    <2>1. pool.live = 0 /\ pool.buckets # <<>> =>
              \E k \in Levels : intern'[k].for = "insert" /\ intern'[k].grown
      BY <1>2, <1>5, <1>6
    <2> QED
      BY <1>3, <1>5, <1>6, <2>1 DEF Load, Used
  <1>7. CASE pool' = NoPool
    <2>1. pool'.buckets = <<>>
      BY <1>7, NoPoolFacts
    <2> QED
      BY <2>1 DEF Load
  <1>8. CASE /\ pool'.live > 0
             /\ \/ Capacity(pool') = Capacity(pool) /\ Used(pool') = Used(pool)
                \/ Used(pool') <= Capacity(pool') \div 2
    <2>1. pool'.live # 0
      BY <1>4, <1>8
    <2>2. pool'.buckets # <<>> => Used(pool') <= Capacity(pool') \div 2 + 1
      <3>1. CASE Capacity(pool') = Capacity(pool) /\ Used(pool') = Used(pool)
        BY <1>4, <1>5, <3>1
      <3>2. CASE Used(pool') <= Capacity(pool') \div 2
        BY <1>4, <3>2 DEF Used
      <3> QED
        BY <1>8, <3>1, <3>2
    <2>3. ASSUME NEW k \in Levels, intern'[k].for = "insert", pool'.buckets # <<>>
          PROVE  Used(pool') <= Capacity(pool') \div 2
      BY <1>3, <1>4, <1>5, <1>8, <2>3
    <2> QED
      BY <2>1, <2>2, <2>3 DEF Load, Used
  <1> QED
    BY <1>6, <1>7, <1>8 DEF Lighter

LEMMA ContentFacts ==
    ASSUME IInv, NEW r \in Valid
    PROVE  ContentOf(r) \in Contents \cup {NoContent}
  <1>1. TypeOK /\ BitmapsAgree /\ TokensUnique
    BY DEF IInv
  <1>2. r.slot \in Index /\ slots[r.slot].st = "occupied"
    BY <1>1, ValidFacts
  <1>3. slots[r.slot] \in SlotValues
    BY <1>1, <1>2 DEF TypeOK
  <1>4. slots[r.slot] # Absent /\ slots[r.slot] # Retired /\ \A g : slots[r.slot] # FreeSlot(g)
    BY <1>2 DEF Absent, Retired, FreeSlot
  <1>5. PICK q \in Refs, c \in Contents \cup {NoContent} : slots[r.slot] = Occupied(q, c)
    BY <1>3, <1>4 DEF SlotValues
  <1> QED
    BY <1>5 DEF ContentOf, Occupied

\* Vm::reclaim takes the entry of the object out of the index, if it has one.
LEMMA ForgetFacts ==
    ASSUME IInv, PoolInv, NEW r \in Valid
    PROVE  LET q == Forget(pool, r)
           IN  /\ Sound(q) /\ Lighter(pool, q)
               /\ Entries(q) = {b \in Entries(pool) : b.ref # r}
               /\ pool.buckets = <<>> => q = NoPool
  <1> DEFINE q == Forget(pool, r)
             c == ContentOf(r)
  <1>1. Sound(pool) /\ EntriesLive
    BY DEF PoolInv, PoolTypeOK
  <1>2. \A b \in Entries(pool) : b.ref = r => c # NoContent /\ b = Entry(Hash[c], r)
    <2>1. \A b \in Entries(pool) : b = Entry(b.hash, b.ref)
      BY <1>1, EntriesAre
    <2> QED
      BY <1>1, <2>1 DEF EntriesLive
  <1>3. pool.buckets = <<>> => pool = NoPool
    BY <1>1, NoPoolFacts, Places DEF Sound
  <1>4. CASE c = NoContent
    <2>1. q = pool
      BY <1>4 DEF Forget
    <2> QED
      BY <1>1, <1>2, <1>3, <1>4, <2>1 DEF Lighter
  <1>5. CASE c # NoContent
    <2>1. q = Remove(pool, Hash[c], r)
      BY <1>5 DEF Forget
    <2>2. Hash[c] \in Nat
      BY <1>5, ContentFacts, PoolAssumption
    <2> HIDE DEF q, c
    <2>3. /\ Sound(q) /\ Entries(q) = Entries(pool) \ {Entry(Hash[c], r)}
          /\ \/ q = pool
             \/ q = NoPool
             \/ /\ Capacity(q) = Capacity(pool) /\ q.live > 0
                /\ q.live + q.deleted = pool.live + pool.deleted
      BY <1>1, <2>1, <2>2, RemoveFacts
    <2>4. Entries(q) = {b \in Entries(pool) : b.ref # r}
      BY <1>2, <2>3, BucketShape
    <2>5. Lighter(pool, q)
      BY <2>3 DEF Lighter, Used
    <2>6. pool.buckets = <<>> => q = NoPool
      <3>1. pool = NoPool /\ Capacity(q) = Capacity(pool) => q = NoPool
        BY <2>3, NoPoolFacts
      <3> QED
        BY <1>3, <2>3, <3>1
    <2> QED
      BY <2>3, <2>4, <2>5, <2>6 DEF q
  <1> QED
    BY <1>4, <1>5

---------------------------------------------------------------------------
(* The steps *)

\* Settled, with no allocation in progress: no string is on its way.
LEMMA Idle ==
    ASSUME IInv, PoolInv, Settled, ops[Level] = NoOp
    PROVE  /\ intern[Level].for # "insert"
           /\ intern[2].for # "insert"
           /\ \A l \in Levels : intern[l].for = "insert" => l # Level
  <1>1. intern[Level].for # "insert"
    BY DEF Settled
  <1> QED
    BY <1>1, Nesting, LevelFacts

\* An allocation at one level, with the index already grown or left alone.
LEMMA AllocatePending ==
    ASSUME IInv, PoolInv, NEW c \in Contents \cup {NoContent}, Allocate(c), Settled,
           Entries(pool') = Entries(pool),
           NEW v, intern' = [intern EXCEPT ![Level] = v], v.for # "done",
           v.for = "insert" => /\ c \in Contents
                               /\ \A b \in Entries(pool) : ContentOf(b.ref) # c
    PROVE  EntriesLive' /\ \A l \in Levels : Pending(l)'
  <1> DEFINE n == NewRef
             L == Level
  <1>1. /\ IInv' /\ n \in Refs \ made /\ made' = made \cup {n} /\ Valid' = Valid \cup {n}
    BY InvAllocate
  <1>2. /\ \A r \in Valid : slots'[r.slot] = slots[r.slot]
        /\ slots'[n.slot].content = c
        /\ ops' = [ops EXCEPT ![L] = Op(n, Reuses, len, FALSE)]
        /\ last' = [last EXCEPT ![L] = NoOp]
        /\ ops[L] = NoOp /\ Level' = L /\ L \in Levels
    BY Zenon, AllocateSlots, LevelFacts
  <1>3. Op(n, Reuses, len, FALSE) # NoOp /\ Op(n, Reuses, len, FALSE).ref = n
        /\ Op(n, Reuses, len, FALSE).ran = FALSE
    BY DEF Op, NoOp
  <1>4. /\ DOMAIN intern = Levels /\ DOMAIN ops = Levels /\ DOMAIN last = Levels
        /\ \A l \in Levels : intern[l].for = "insert" => l # L
    BY <1>2, Nesting, Idle
  <1> HIDE DEF n, L
  <1>5. \A b \in Entries(pool) : b.ref \in Valid
    BY DEF PoolInv, EntriesLive
  <1>6. Frame
    BY <1>1, <1>2, <1>5 DEF Frame, Valid
  <1>7. EntriesLive'
    BY <1>6, FrameLive
  <1>8. ASSUME NEW l \in Levels, l # L PROVE Pending(l)'
    <2>1. ops'[l] = ops[l] /\ last'[l] = last[l] /\ intern'[l] = intern[l]
      BY <1>2, <1>8 DEF L
    <2>2. intern[l].for = "insert" => Target(l) \in Valid'
      BY <1>1 DEF PoolInv, Pending, OnItsWay
    <2> QED
      BY Zenon, <1>2, <1>6, <2>1, <2>2, FramePending DEF L
  <1>9. ASSUME NEW l \in Levels, l = L PROVE Pending(l)'
    <2>1. /\ ops'[l] = Op(n, Reuses, len, FALSE) /\ last'[l] = NoOp /\ intern'[l] = v
      BY <1>2, <1>4, <1>9 DEF L
    <2>2. Target(l)' = n /\ RanIn(l)' = FALSE
      BY Zenon, <1>3, <2>1 DEF Target, RanIn
    <2>3. \A b \in Entries(pool') : b.ref # n /\ slots'[b.ref.slot] = slots[b.ref.slot]
      BY <1>1, <1>2, <1>5 DEF Valid
    <2>4. OnItsWay(l)'
      <3>1. ops'[l] # NoOp /\ n \in Valid'
        BY Zenon, <1>1, <1>3, <2>1
      <3>2. v.for = "insert" => slots'[n.slot].content \in Contents
        BY <1>2
      <3>3. v.for = "insert" => \A b \in Entries(pool') : slots'[b.ref.slot].content # slots'[n.slot].content
        BY <1>2, <2>3 DEF ContentOf
      <3> QED
        BY Zenon, <2>1, <2>2, <2>3, <3>1, <3>2, <3>3 DEF OnItsWay, ContentOf
    <2>5. NotFiled(l)'
      BY Zenon, <1>3, <2>1, <2>3 DEF NotFiled
    <2>6. Filed(l)'
      BY <2>1 DEF Filed
    <2> QED
      BY <2>4, <2>5, <2>6 DEF Pending
  <1> QED
    BY <1>7, <1>8, <1>9

LEMMA InvAllocatePlain ==
    ASSUME IInv, PoolInv, NEW c \in Contents \cup {NoContent}, AllocatePlain(c)
    PROVE  PoolInv'
  <1>1. /\ Settled /\ Allocate(c) /\ intern' = [intern EXCEPT ![Level] = Plain] /\ pool' = pool
        /\ Plain.for = "plain" /\ Plain \in Internings
    BY DEF AllocatePlain, Plain, Internings
  <1>2. ops[Level] = NoOp /\ Level \in Levels
    BY Zenon, <1>1, AllocateSlots, LevelFacts
  <1>3. EntriesLive' /\ \A l \in Levels : Pending(l)'
    BY Zenon, <1>1, AllocatePending
  <1>4. PoolTypeOK /\ Load
    BY DEF PoolInv
  <1>5. Sound(pool') /\ Lighter(pool, pool')
    BY <1>1, <1>4 DEF PoolTypeOK, Lighter
  <1>6. intern[Level].for # "insert" /\ intern[2].for # "insert"
    BY <1>1, <1>2, Idle
  <1>7. intern'[2].for # "insert" /\ intern' \in [Levels -> Internings]
    BY <1>1, <1>2, <1>4, <1>6 DEF PoolTypeOK, Levels
  <1>8. Load'
    BY Zenon, <1>1, <1>2, <1>4, <1>5, <1>6, <1>7, LoadKept
  <1>9. \A l \in Levels : intern'[l] = intern[l] \/ intern'[l].for = "plain"
    BY <1>1, <1>4 DEF PoolTypeOK
  <1>10. PoolTypeOK'
    BY <1>4, <1>5, <1>7, <1>9 DEF PoolTypeOK
  <1> QED
    BY <1>3, <1>8, <1>10 DEF PoolInv

LEMMA InvAllocateShort ==
    ASSUME IInv, PoolInv, NEW c \in Contents, AllocateShort(c)
    PROVE  PoolInv'
  <1> DEFINE v == Interning(~HasRoom(pool), pool)
  <1>1. /\ Settled /\ Allocate(c) /\ intern' = [intern EXCEPT ![Level] = v]
        /\ pool' = Reserved(pool) /\ Find(pool, c) = {}
    BY DEF AllocateShort
  <1>2. ops[Level] = NoOp /\ Level \in Levels
    BY Zenon, <1>1, AllocateSlots, LevelFacts
  <1>3. PoolTypeOK /\ Load /\ Sound(pool) /\ EntriesLive /\ intern \in [Levels -> Internings]
    BY DEF PoolInv, PoolTypeOK
  <1>4. Loaded(pool)
    BY <1>3, Places DEF Load, Loaded, Used, Sound
  <1>5. /\ Sound(pool') /\ HasRoom(pool') /\ Entries(pool') = Entries(pool) /\ pool'.live = pool.live
        /\ HasRoom(pool) => pool' = pool
    BY <1>1, <1>3, <1>4, ReservedFacts
  <1>6. /\ v.for = "insert" /\ v.grown = ~HasRoom(pool) /\ v.old = pool
        /\ v \in Internings /\ v.ran = FALSE
    BY <1>3 DEF Interning, Internings, Sound
  <1> HIDE DEF v
  <1>7. \A b \in Entries(pool) : ContentOf(b.ref) # c
    <2>1. \A b \in Entries(pool) : ~(b.hash = Hash[c] /\ ContentOf(b.ref) = c)
      BY <1>1, <1>3, FindFacts
    <2> QED
      BY <1>3, <2>1 DEF EntriesLive
  <1>8. EntriesLive' /\ \A l \in Levels : Pending(l)'
    BY Zenon, <1>1, <1>5, <1>6, <1>7, AllocatePending
  <1>9. intern'[Level] = v /\ \A l \in Levels : l # Level => intern'[l] = intern[l]
    BY <1>1, <1>2, <1>3
  <1>10. \A l \in Levels : intern[l].for = "insert" => l # Level
    BY <1>1, <1>2, Idle
  <1>11. Load'
    <2>1. pool'.live + pool'.deleted <= Capacity(pool') \div 2
      <3>1. pool'.live \in Nat /\ pool'.deleted \in Nat /\ Capacity(pool') \in Nat
        BY <1>5, EntriesAre
      <3> QED
        BY <1>5, <3>1 DEF HasRoom
    <2>2. pool'.live + pool'.deleted <= Capacity(pool') \div 2 + 1
      <3>1. pool'.live \in Nat /\ pool'.deleted \in Nat /\ Capacity(pool') \in Nat
        BY <1>5, EntriesAre
      <3> QED
        BY <2>1, <3>1
    <2>3. ASSUME pool'.live = 0, pool'.buckets # <<>>
          PROVE  \E l \in Levels : intern'[l].for = "insert" /\ intern'[l].grown
      <3>1. CASE ~HasRoom(pool)
        BY Zenon, <1>2, <1>6, <1>9, <3>1
      <3>2. CASE HasRoom(pool)
        <4>1. PICK l \in Levels : intern[l].for = "insert" /\ intern[l].grown
          BY <1>3, <1>5, <2>3, <3>2 DEF Load
        <4> QED
          BY <1>9, <1>10, <4>1
      <3> QED
        BY <3>1, <3>2
    <2> QED
      BY <1>5, <2>1, <2>2, <2>3 DEF Load
  <1>12. PoolTypeOK'
    <2>1. intern' \in [Levels -> Internings]
      BY Zenon, <1>1, <1>3, <1>6
    <2>2. ASSUME NEW l \in Levels, intern'[l].for # "plain"
          PROVE  Capacity(intern'[l].old) = 0 \/ Capacity(intern'[l].old) >= 4
      <3>1. CASE l = Level
        BY <1>3, <1>6, <1>9, <3>1 DEF Sound
      <3>2. CASE l # Level
        BY <1>3, <1>9, <2>2, <3>2 DEF PoolTypeOK
      <3> QED
        BY <3>1, <3>2
    <2> QED
      BY <1>5, <2>1, <2>2 DEF PoolTypeOK
  <1> QED
    BY <1>8, <1>11, <1>12 DEF PoolInv

LEMMA InvShortFailsEarly ==
    ASSUME IInv, PoolInv, NEW c \in Contents, ShortFailsEarly(c)
    PROVE  PoolInv'
  <1> DEFINE v == Interning(~HasRoom(pool), pool)
             q == Reserved(pool)
  <1>1. /\ Settled /\ ops[Level] = NoOp /\ pool' = Restored(q, v) /\ UNCHANGED vars /\ intern' = intern
    BY DEF ShortFailsEarly
  <1>2. /\ PoolTypeOK /\ Load /\ Sound(pool) /\ EntriesLive /\ intern \in [Levels -> Internings]
        /\ Level \in Levels
    BY LevelFacts DEF PoolInv, PoolTypeOK
  <1>3. Loaded(pool)
    BY <1>2, Places DEF Load, Loaded, Used, Sound
  <1>4. /\ Sound(q) /\ HasRoom(q) /\ Entries(q) = Entries(pool) /\ q.live = pool.live
        /\ HasRoom(pool) => q = pool
    BY <1>2, <1>3, ReservedFacts
  <1>5. v.grown = ~HasRoom(pool) /\ v.old = pool /\ v.grown \in BOOLEAN
    BY DEF Interning
  <1>6. /\ v.grown \in BOOLEAN /\ Capacity(v.old) \in Nat
        /\ Capacity(v.old) = 0 \/ Capacity(v.old) >= 4
    BY <1>2, <1>5, EntriesAre DEF Sound
  <1> HIDE DEF v, q
  <1>7. /\ Sound(pool') /\ Entries(pool') = Entries(q)
        /\ v.grown /\ pool'.live = 0 => pool' = NoPool
        /\ ~v.grown => pool' = q
        /\ \/ pool' = q
           \/ pool' = NoPool
           \/ Used(pool') <= Capacity(pool') \div 2 /\ pool'.live > 0
    <2>1. Restores(q, v, Restored(q, v))
      BY Zenon, <1>4, <1>6, RestoredFacts
    <2>2. Restores(q, v, pool')
      BY Zenon, <1>1, <2>1
    <2> QED
      BY Zenon, <2>2 DEF Restores
  <1>8. Lighter(pool, pool')
    <2>1. CASE ~v.grown
      BY Zenon, <1>4, <1>5, <1>7, <2>1 DEF Lighter
    <2>2. CASE v.grown /\ pool' = q /\ pool'.live # 0
      <3>1. pool'.live \in Nat /\ pool'.deleted \in Nat /\ Capacity(pool') \in Nat
        BY <1>7, EntriesAre
      <3>2. Used(pool') <= Capacity(pool') \div 2 /\ pool'.live > 0
        BY <1>4, <2>2, <3>1 DEF HasRoom, Used
      <3> QED
        BY <3>2 DEF Lighter
    <2>3. CASE v.grown /\ (pool' # q \/ pool'.live = 0)
      BY <1>7, <2>3 DEF Lighter
    <2> QED
      BY <1>5, <2>1, <2>2, <2>3
  <1>9. intern'[2].for # "insert"
    BY <1>1, Idle
  <1>10. Load'
    BY <1>1, <1>2, <1>7, <1>8, <1>9, LoadKept
  <1>11. PoolTypeOK'
    BY <1>1, <1>2, <1>7 DEF PoolTypeOK
  <1>12. /\ ops' = ops /\ last' = last /\ slots' = slots /\ made' = made /\ Valid' = Valid
         /\ finalizing' = finalizing
    BY <1>1, InvStutter DEF vars, slotVars
  <1>13. Frame
    BY <1>2, <1>4, <1>7, <1>12 DEF Frame, EntriesLive
  <1>14. Level' = Level
    BY <1>12 DEF Level
  <1>15. ASSUME NEW l \in Levels PROVE Pending(l)'
    <2>1. intern[l].for = "insert" => Target(l) \in Valid'
      BY <1>12 DEF PoolInv, Pending, OnItsWay
    <2> QED
      BY <1>1, <1>12, <1>13, <1>14, <2>1, FramePending
  <1> QED
    BY <1>10, <1>11, <1>13, <1>15, FrameLive DEF PoolInv

LEMMA InvAllocateReturns ==
    ASSUME IInv, PoolInv, AllocateReturns
    PROVE  PoolInv'
  <1> DEFINE o == ops[Level]
  <1>1. /\ o # NoOp /\ Level \in Levels
        /\ ops' = [ops EXCEPT ![Level] = NoOp] /\ last' = [last EXCEPT ![Level] = Kept(o.ref, o.prev)]
        /\ UNCHANGED <<slotVars, nextToken, finalizing, made, gone>> /\ pool' = pool
        /\ intern[Level] = Plain => intern' = intern
        /\ intern[Level] # Plain => intern' = [intern EXCEPT ![Level].ran = o.ran]
    BY LevelFacts DEF AllocateReturns, Done
  <1>2. PoolTypeOK /\ Load /\ Sound(pool) /\ EntriesLive /\ intern \in [Levels -> Internings]
    BY DEF PoolInv, PoolTypeOK
  <1>3. /\ slots' = slots /\ made' = made /\ len' = len /\ finalizing' = finalizing
    BY <1>1 DEF slotVars
  <1>4. Valid' = Valid /\ Level' = Level
    BY <1>3 DEF Valid, Resolves, Level
  <1>5. /\ DOMAIN intern = Levels /\ DOMAIN ops = Levels /\ DOMAIN last = Levels
        /\ intern[Level] \in Internings
    BY <1>1, Nesting
  <1>6. o.ref \in Valid /\ o.ran \in BOOLEAN
    BY <1>1, OpShape DEF IInv, OpsOwnSlots
  <1> HIDE DEF o
  <1>7. ASSUME NEW l \in Levels
        PROVE  /\ intern'[l] \in Internings /\ intern'[l].for = intern[l].for
               /\ intern[l].for # "plain" =>
                     intern'[l].grown = intern[l].grown /\ intern'[l].old = intern[l].old
               /\ l # Level => intern'[l] = intern[l] /\ ops'[l] = ops[l] /\ last'[l] = last[l]
               /\ l = Level /\ intern[l].for # "plain" => intern'[l].ran = o.ran
    <2>1. l # Level => intern'[l] = intern[l] /\ ops'[l] = ops[l] /\ last'[l] = last[l]
      BY <1>1, <1>5
    <2>2. intern[l] \in Internings /\ (intern[l].for = "plain" <=> intern[l] = Plain)
      BY Nesting, InterningShape
    <2>3. CASE l # Level \/ intern[l] = Plain
      BY <1>1, <2>1, <2>2, <2>3
    <2>4. CASE l = Level /\ intern[l] # Plain
      <3> DEFINE i == intern[l]
      <3>1. /\ i.for \in {"insert", "done"} /\ i.grown \in BOOLEAN
            /\ i.old \in [buckets : Seq(BucketValues), live : Nat, deleted : Nat]
            /\ i = [for |-> i.for, grown |-> i.grown, old |-> i.old, ran |-> i.ran]
        BY <2>2, <2>4, InterningShape
      <3>2. intern'[l] = [i EXCEPT !.ran = o.ran]
        BY <1>1, <1>5, <2>4
      <3> HIDE DEF i
      <3>3. intern'[l] = [for |-> i.for, grown |-> i.grown, old |-> i.old, ran |-> o.ran]
        BY <3>1, <3>2
      <3>4. intern'[l] \in Internings
        BY <1>6, <3>1, <3>3 DEF Internings
      <3> QED
        BY <2>4, <3>3, <3>4 DEF i
    <2> QED
      BY <2>3, <2>4
  <1>8. PoolTypeOK'
    <2>1. intern' \in [Levels -> Internings]
      <3>1. DOMAIN intern' = Levels /\ intern' = [l \in Levels |-> intern'[l]]
        BY <1>1, <1>2
      <3> QED
        BY <1>7, <3>1
    <2> QED
      BY <1>1, <1>2, <1>7, <2>1 DEF PoolTypeOK
  <1>9. Load'
    <2>1. 2 \in Levels /\ HasRoom(pool') = HasRoom(pool)
      BY <1>1 DEF Levels
    <2>2. \A l \in Levels : intern[l].for = "insert" /\ intern[l].grown =>
             intern'[l].for = "insert" /\ intern'[l].grown
      BY <1>7
    <2> QED
      BY <1>1, <1>2, <1>7, <2>1, <2>2 DEF Load
  <1>10. Frame
    BY <1>1, <1>2, <1>3, <1>4 DEF Frame, EntriesLive
  <1>11. ASSUME NEW l \in Levels, l # Level PROVE Pending(l)'
    <2>1. intern[l].for = "insert" => Target(l) \in Valid'
      BY <1>4 DEF PoolInv, Pending, OnItsWay
    <2> QED
      BY <1>4, <1>7, <1>10, <1>11, <2>1, FramePending
  <1>12. ASSUME NEW l \in Levels, l = Level PROVE Pending(l)'
    <2>1. ops'[l] = NoOp /\ last'[l] = Kept(o.ref, o.prev) /\ ops[l] = o
      BY <1>1, <1>5, <1>12 DEF o
    <2>2. last'[l].ref = o.ref /\ last'[l] # NoOp
      BY <2>1 DEF Kept, NoOp
    <2>3. Target(l)' = o.ref /\ Target(l) = o.ref /\ RanIn(l) = o.ran
      BY <1>1, <2>1, <2>2 DEF Target, RanIn
    <2>4. OnItsWay(l) /\ NotFiled(l)
      BY DEF PoolInv, Pending
    <2>5. intern[l].for # "done"
      BY <1>1, <2>1, <2>4 DEF NotFiled
    <2>6. intern[l].for = "insert" => RanIn(l)' = o.ran
      BY <1>7, <1>12, <2>1 DEF RanIn
    <2>7. OnItsWay(l)'
      BY <1>1, <1>3, <1>4, <1>7, <1>12, <2>2, <2>3, <2>4, <2>6 DEF OnItsWay, ContentOf
    <2> QED
      BY <1>7, <2>1, <2>5, <2>7 DEF Pending, NotFiled, Filed
  <1> QED
    BY <1>8, <1>9, <1>10, <1>11, <1>12, FrameLive DEF PoolInv

LEMMA InvAllocateFails ==
    ASSUME IInv, PoolInv, ~FinalizersMayFail, AllocateFails
    PROVE  PoolInv'
  <1> DEFINE o == ops[Level]
             i == intern[Level]
  <1>1. /\ Fails /\ o # NoOp /\ Level \in Levels /\ ops' = [ops EXCEPT ![Level] = NoOp]
        /\ last' = last /\ finalizing' = finalizing
        /\ pool' = IF i.for = "insert" THEN Restored(pool, i) ELSE pool
        /\ intern' = [intern EXCEPT ![Level] = Plain]
    BY LevelFacts DEF AllocateFails, Fails
  <1>2. /\ PoolTypeOK /\ Load /\ Sound(pool) /\ EntriesLive /\ intern \in [Levels -> Internings]
        /\ OnItsWay(Level) /\ NotFiled(Level)
    BY <1>1 DEF PoolInv, PoolTypeOK, Pending
  <1>3. made' = made /\ o.ref \in Valid /\ Valid' = Valid \ {o.ref}
    BY <1>1, InvFails
  <1>4. \A q \in Valid' : slots'[q.slot] = slots[q.slot]
    BY <1>1, FailsSlots
  <1>5. Plain.for = "plain" /\ Plain \in Internings /\ Level' = Level
    BY <1>1 DEF Plain, Internings, Level
  <1>6. /\ Sound(pool') /\ Entries(pool') = Entries(pool) /\ Lighter(pool, pool')
        /\ pool' = pool /\ pool.live = 0 /\ pool.buckets # <<>> => i.for # "insert" \/ ~i.grown
    <2>1. CASE i.for # "insert"
      BY <1>1, <1>2, <2>1 DEF Lighter
    <2>2. CASE i.for = "insert"
      <3>1. pool' = Restored(pool, i)
        BY <1>1, <2>2
      <3>2. /\ i.grown \in BOOLEAN /\ Capacity(i.old) \in Nat
            /\ Capacity(i.old) = 0 \/ Capacity(i.old) >= 4
        BY <1>1, <1>2, <2>2, InterningShape DEF PoolTypeOK
      <3> HIDE DEF i
      <3>3. /\ Sound(pool') /\ Entries(pool') = Entries(pool)
            /\ i.grown /\ pool'.live = 0 => pool' = NoPool
            /\ \/ pool' = pool
               \/ pool' = NoPool
               \/ Used(pool') <= Capacity(pool') \div 2 /\ pool'.live > 0
        <4>1. Restores(pool, i, Restored(pool, i))
          BY Zenon, <1>2, <3>2, RestoredFacts
        <4>2. Restores(pool, i, pool')
          BY Zenon, <3>1, <4>1
        <4> QED
          BY Zenon, <4>2 DEF Restores
      <3>4. Lighter(pool, pool')
        BY <3>3 DEF Lighter
      <3> QED
        BY <3>3, <3>4, NoPoolFacts
    <2> QED
      BY <2>1, <2>2
  <1>7. /\ \A l \in Levels : l # Level => intern'[l] = intern[l] /\ ops'[l] = ops[l]
        /\ intern'[Level] = Plain /\ ops'[Level] = NoOp /\ intern' \in [Levels -> Internings]
    BY <1>1, <1>2, <1>5, Nesting
  <1>8. intern'[2].for # "insert"
    <2>1. CASE Level = 2
      BY <1>5, <1>7, <2>1
    <2>2. CASE Level # 2
      <3>1. intern[2].for # "insert" /\ 2 \in Levels
        BY <2>2, Nesting, LevelFacts DEF Levels
      <3> QED
        BY <1>7, <2>2, <3>1
    <2> QED
      BY <2>1, <2>2
  <1>9. Load'
    BY Zenon, <1>1, <1>2, <1>6, <1>8, LoadKept
  <1>10. PoolTypeOK'
    <2>1. \A l \in Levels : intern'[l] = intern[l] \/ intern'[l].for = "plain"
      BY <1>5, <1>7
    <2> QED
      BY <1>2, <1>6, <1>7, <2>1 DEF PoolTypeOK
  <1>11. Frame
    <2>1. \A b \in Entries(pool) : b.ref \in Valid'
      BY <1>1, <1>2, <1>3 DEF NotFiled, EntriesLive
    <2> QED
      BY <1>3, <1>4, <1>6, <2>1 DEF Frame
  <1>12. ASSUME NEW l \in Levels, l # Level PROVE Pending(l)'
    <2>1. intern[l].for = "insert" => Target(l) \in Valid'
      <3> SUFFICES ASSUME intern[l].for = "insert" PROVE Target(l) \in Valid'
        OBVIOUS
      <3>1. l = 1 /\ Level = 2 /\ ops[1] # NoOp /\ Target(l) = ops[1].ref
        BY <1>12, Nesting
      <3>2. ops[2].ref # ops[1].ref
        BY <1>1, <3>1 DEF IInv, OpsOwnSlots
      <3>3. Target(l) \in Valid
        BY DEF PoolInv, Pending, OnItsWay
      <3> QED
        BY <1>3, <3>1, <3>2, <3>3
    <2> QED
      BY <1>1, <1>5, <1>7, <1>11, <1>12, <2>1, FramePending
  <1>13. ASSUME NEW l \in Levels, l = Level PROVE Pending(l)'
    BY <1>5, <1>7, <1>13 DEF Pending, OnItsWay, NotFiled, Filed
  <1> QED
    BY <1>9, <1>10, <1>11, <1>12, <1>13, FrameLive DEF PoolInv

LEMMA InvInsertShort ==
    ASSUME IInv, PoolInv, InsertShort
    PROVE  PoolInv'
  <1> DEFINE r == last[Level].ref
             i == intern[Level]
             c == ContentOf(r)
             p == IF Growing(pool) THEN Reserved(pool) ELSE pool
             w == IF Growing(pool) /\ ~i.grown THEN Interning(TRUE, NoPool) ELSE i
             v == [w EXCEPT !.for = "done"]
             e == Entry(Hash[c], r)
  <1>1. /\ ~Settled /\ pool' = Insert(p, Hash[c], r) /\ intern' = [intern EXCEPT ![Level] = v]
        /\ UNCHANGED vars
    BY DEF InsertShort
  <1>2. /\ PoolTypeOK /\ Load /\ Sound(pool) /\ EntriesLive /\ intern \in [Levels -> Internings]
        /\ Level \in Levels
    BY LevelFacts DEF PoolInv, PoolTypeOK
  <1>3. ops[Level] = NoOp /\ i.for = "insert"
    BY <1>1 DEF Settled
  <1>4. /\ r \in Valid /\ c \in Contents /\ \A b \in Entries(pool) : b.ref # r
    <2>1. Target(Level) = r /\ OnItsWay(Level)
      BY <1>2, <1>3, Nesting DEF PoolInv, Pending
    <2> QED
      BY <1>3, <2>1 DEF OnItsWay
  <1>5. /\ ops' = ops /\ last' = last /\ slots' = slots /\ made' = made /\ Valid' = Valid
        /\ finalizing' = finalizing
    BY <1>1, InvStutter DEF vars, slotVars
  <1>6. Level' = Level
    BY <1>5 DEF Level
  <1>7. v \in Internings /\ v.for = "done" /\ (Capacity(v.old) = 0 \/ Capacity(v.old) >= 4)
    <2>1. i \in Internings /\ i.for = "insert" /\ (Capacity(i.old) = 0 \/ Capacity(i.old) >= 4)
      BY <1>2, <1>3 DEF PoolTypeOK
    <2>2. Interning(TRUE, NoPool) \in Internings /\ Interning(TRUE, NoPool).old = NoPool
          /\ Interning(TRUE, NoPool).for = "insert"
      BY NoPoolFacts DEF Interning, Internings, Sound
    <2>3. /\ w \in Internings /\ w.for = "insert"
          /\ Capacity(w.old) = 0 \/ Capacity(w.old) >= 4
      BY Zenon, <2>1, <2>2, NoPoolFacts
    <2> HIDE DEF w
    <2>4. /\ w.grown \in BOOLEAN /\ w.ran \in BOOLEAN
          /\ w.old \in [buckets : Seq(BucketValues), live : Nat, deleted : Nat]
          /\ w = [for |-> w.for, grown |-> w.grown, old |-> w.old, ran |-> w.ran]
      BY <2>3, InterningShape
    <2>5. v = [for |-> "done", grown |-> w.grown, old |-> w.old, ran |-> w.ran]
      BY <2>4
    <2> HIDE DEF v
    <2>6. v \in Internings
      BY <2>4, <2>5 DEF Internings
    <2>7. v.for = "done" /\ v.old = w.old
      BY <2>5
    <2> QED
      BY <2>3, <2>6, <2>7
  <1> HIDE DEF v, w
  <1>8. /\ Sound(p) /\ Entries(p) = Entries(pool) /\ Used(p) + 1 <= Capacity(p) \div 2 + 1
        /\ Used(p) < Capacity(p)
        /\ Level = 2 => Used(p) + 1 <= Capacity(p) \div 2
    <2>1. CASE Growing(pool)
      <3>1. Capacity(pool) = 0
        BY Zenon, <1>2, <2>1, EntriesAre, Places DEF Growing
      <3>2. Sound(p) /\ HasRoom(p) /\ Entries(p) = Entries(pool)
        BY <1>2, <2>1, <3>1, ReservedFacts DEF Loaded
      <3>3. p.live \in Nat /\ p.deleted \in Nat /\ Capacity(p) \in Nat
        BY <3>2, EntriesAre
      <3> HIDE DEF p
      <3>4. Used(p) + 1 <= Capacity(p) \div 2
        BY <3>2, <3>3 DEF HasRoom, Used
      <3>5. Used(p) < Capacity(p) /\ Used(p) + 1 <= Capacity(p) \div 2 + 1
        BY <3>3, <3>4 DEF Used
      <3> QED
        BY <3>2, <3>4, <3>5
    <2>2. CASE ~Growing(pool)
      <3>1. p = pool
        BY <2>2
      <3> HIDE DEF p
      <3>2. p.live \in Nat /\ p.deleted \in Nat /\ Capacity(p) \in Nat /\ Capacity(p) # 0
            /\ (Capacity(p) = 0 \/ Capacity(p) >= 4)
        BY ZenonT(40), <1>2, <2>2, <3>1, EntriesAre, Places DEF Growing, Sound
      <3>3. Used(p) <= Capacity(p) \div 2
        BY Zenon, <1>2, <1>3, <2>2, <3>1 DEF Load, Used, Growing
      <3>4. Used(p) + 1 <= Capacity(p) \div 2 + 1 /\ Used(p) < Capacity(p)
        BY <3>2, <3>3 DEF Used
      <3>5. Level = 2 => HasRoom(p)
        BY <1>2, <1>3, <3>1 DEF Load
      <3>6. Level = 2 => Used(p) + 1 <= Capacity(p) \div 2
        BY <3>2, <3>5 DEF HasRoom, Used
      <3> QED
        BY <1>2, <3>1, <3>4, <3>6
    <2> QED
      BY <2>1, <2>2
  <1>9. Hash[c] \in Nat /\ r \in Refs /\ e \in BucketValues
    <2>1. r \in Refs
      BY <1>4 DEF IInv, TypeOK, Valid
    <2> QED
      BY <1>4, <2>1, PoolAssumption, BucketShape
  <1> HIDE DEF p, c, r
  <1>10. /\ Sound(pool') /\ Capacity(pool') = Capacity(p) /\ Entries(pool') = Entries(pool) \cup {e}
         /\ pool'.live = p.live + 1 /\ pool'.deleted <= p.deleted
    <2>1. \A b \in Entries(p) : b.ref # r
      BY <1>4, <1>8
    <2>2. p.live + p.deleted < Capacity(p)
      BY <1>8 DEF Used
    <2> QED
      BY <1>1, <1>8, <1>9, <2>1, <2>2, InsertFacts
  <1>11. /\ Used(pool') <= Capacity(pool') \div 2 + 1 /\ pool'.live # 0
         /\ Level = 2 => Used(pool') <= Capacity(pool') \div 2
    <2>1. /\ p.live \in Nat /\ p.deleted \in Nat /\ Capacity(p) \in Nat
          /\ pool'.live \in Nat /\ pool'.deleted \in Nat
      BY <1>8, <1>10, EntriesAre
    <2>2. Used(pool') <= Used(p) + 1 /\ pool'.live # 0 /\ Used(pool') \in Nat /\ Used(p) \in Nat
      BY <1>10, <2>1 DEF Used
    <2>3. Capacity(p) \div 2 \in Nat
      BY <2>1
    <2> QED
      BY <1>8, <1>10, <2>2, <2>3
  <1>12. intern'[Level] = v /\ \A l \in Levels : l # Level => intern'[l] = intern[l]
    BY <1>1, <1>2
  <1>13. \A l \in Levels : intern'[l].for = "insert" => l = 1 /\ Level = 2
    BY <1>7, <1>12, Nesting
  <1>14. Load'
    <2>1. 2 \in Levels /\ 2 # 1
      BY DEF Levels
    <2>2. intern'[2].for # "insert"
      BY <1>13, <2>1
    <2>3. \A l \in Levels : intern'[l].for = "insert" => Used(pool') <= Capacity(pool') \div 2
      BY <1>11, <1>13
    <2> QED
      BY <1>11, <2>2, <2>3 DEF Load, Used
  <1>15. PoolTypeOK'
    <2>1. intern' \in [Levels -> Internings]
      BY <1>1, <1>2, <1>7
    <2>2. ASSUME NEW l \in Levels, intern'[l].for # "plain"
          PROVE  Capacity(intern'[l].old) = 0 \/ Capacity(intern'[l].old) >= 4
      <3>1. CASE l = Level
        BY <1>7, <1>12, <3>1
      <3>2. CASE l # Level
        BY <1>2, <1>12, <2>2, <3>2 DEF PoolTypeOK
      <3> QED
        BY <3>1, <3>2
    <2> QED
      BY <1>10, <2>1, <2>2 DEF PoolTypeOK
  <1>16. e.ref = r /\ e.hash = Hash[c]
    BY BucketShape
  <1> HIDE DEF e
  <1>17. EntriesLive'
    <2>1. slots[r.slot].content = c /\ c # NoContent
      BY <1>4, ContentAssumption DEF c, ContentOf
    <2>2. \A b \in Entries(pool) : /\ b.ref \in Valid
                                   /\ slots[b.ref.slot].content # NoContent
                                   /\ b.hash = Hash[slots[b.ref.slot].content]
      BY <1>2 DEF EntriesLive, ContentOf
    <2> QED
      BY <1>4, <1>5, <1>10, <1>16, <2>1, <2>2 DEF EntriesLive, ContentOf
  <1>18. ASSUME NEW l \in Levels, l # Level PROVE Pending(l)'
    <2>1. OnItsWay(l) /\ NotFiled(l) /\ Filed(l) /\ intern'[l] = intern[l]
      BY <1>12, <1>18 DEF PoolInv, Pending
    <2>2. intern[l].for = "insert" \/ ops[l] # NoOp =>
             /\ l = 1 /\ Level = 2 /\ ops[l] # NoOp /\ ops[l].ran /\ Target(l) = ops[l].ref
             /\ ops[l].ref # r
      <3>1. intern[l].for = "insert" \/ ops[l] # NoOp =>
               l = 1 /\ Level = 2 /\ ops[1] # NoOp /\ ops[1].ran /\ Target(1) = ops[1].ref
        BY <1>18, Nesting
      <3>2. Level = 2 => last[2] # NoOp
        <4>1. intern[Level].for = "insert" => ops[Level] # NoOp \/ last[Level] # NoOp
          BY <1>2 DEF PoolInv, Pending, OnItsWay
        <4> QED
          BY <1>3, <4>1
      <3>3. Level = 2 /\ ops[1] # NoOp => ops[1].ref # r
        BY <3>2 DEF IInv, OpsOwnSlots, r
      <3> QED
        BY <3>1, <3>3
    <2>3. Target(l)' = Target(l) /\ RanIn(l)' = RanIn(l) /\ (ops[l] # NoOp => RanIn(l) = ops[l].ran)
      BY <1>5, <2>1 DEF Target, RanIn
    <2>4. OnItsWay(l)'
      <3>1. intern[l].for = "insert" => RanIn(l)
        BY <2>2, <2>3
      <3>2. intern[l].for = "insert" => \A b \in Entries(pool') : b.ref # Target(l)
        BY <1>10, <1>16, <2>1, <2>2 DEF OnItsWay
      <3> QED
        BY Zenon, <1>5, <1>6, <2>1, <2>3, <3>1, <3>2 DEF OnItsWay, ContentOf
    <2>5. NotFiled(l)'
      BY <1>5, <1>10, <1>16, <2>1, <2>2 DEF NotFiled
    <2>6. Filed(l)'
      BY Zenon, <1>5, <1>10, <2>1 DEF Filed, ContentOf
    <2> QED
      BY <2>4, <2>5, <2>6 DEF Pending
  <1>19. ASSUME NEW l \in Levels, l = Level PROVE Pending(l)'
    <2>1. intern'[l].for = "done" /\ ops'[l] = NoOp /\ last'[l].ref = r
      BY <1>3, <1>5, <1>7, <1>12, <1>19 DEF r
    <2>2. slots'[r.slot].content = c
      BY <1>5 DEF c, ContentOf
    <2>3. Filed(l)'
      BY <1>10, <2>1, <2>2 DEF Filed, ContentOf, e
    <2> QED
      BY <2>1, <2>3 DEF Pending, OnItsWay, NotFiled
  <1> QED
    BY <1>14, <1>15, <1>17, <1>18, <1>19 DEF PoolInv

\* An object is dropped that is not the one of another level's interning.
LEMMA DropPending ==
    ASSUME IInv, PoolInv, NEW r \in Valid, made' = made, Valid' = Valid \ {r}, ops' = ops,
           finalizing' = finalizing, \A q \in Valid' : slots'[q.slot] = slots[q.slot],
           Entries(pool') = {b \in Entries(pool) : b.ref # r},
           NEW l \in Levels, last'[l] = last[l], intern'[l] = intern[l],
           intern[l].for = "insert" => Target(l) # r
    PROVE  EntriesLive' /\ Pending(l)'
  <1>1. Frame
    <2>1. \A b \in Entries(pool) : b.ref \in Valid
      BY DEF PoolInv, EntriesLive
    <2> QED
      BY <2>1 DEF Frame
  <1>2. Level' = Level
    BY DEF Level
  <1>3. intern[l].for = "insert" => Target(l) \in Valid'
    BY DEF PoolInv, Pending, OnItsWay
  <1> QED
    BY <1>1, <1>2, <1>3, FrameLive, FramePending

LEMMA InvUnpublishObject ==
    ASSUME IInv, PoolInv, UnpublishObject
    PROVE  PoolInv'
  <1> DEFINE r == last[Level].ref
             i == intern[Level]
             p == Forget(pool, r)
  <1>1. /\ ~Settled => Growing(pool)
        /\ Unpublish /\ intern' = [intern EXCEPT ![Level] = Plain]
        /\ pool' = IF i.for = "plain" THEN p ELSE Restored(p, i)
    BY DEF UnpublishObject
  <1>2. /\ PoolTypeOK /\ Load /\ Sound(pool) /\ EntriesLive /\ intern \in [Levels -> Internings]
        /\ Level \in Levels /\ i \in Internings
    BY LevelFacts DEF PoolInv, PoolTypeOK
  <1>3. r \in Valid /\ Valid' = Valid \ {r} /\ made' = made
    BY <1>1, InvUnpublish
  <1>4. /\ last[Level] # NoOp /\ ops[Level] = NoOp /\ last' = [last EXCEPT ![Level] = NoOp] /\ ops' = ops
        /\ finalizing' = finalizing
    BY Zenon, <1>1 DEF Unpublish
  <1>5. \A q \in Valid' : slots'[q.slot] = slots[q.slot]
    BY <1>1, UnpublishSlots
  <1>6. /\ Sound(p) /\ Lighter(pool, p) /\ Entries(p) = {b \in Entries(pool) : b.ref # r}
        /\ pool.buckets = <<>> => p = NoPool
    BY <1>3, ForgetFacts
  <1> HIDE DEF p
  <1>7. /\ Sound(pool') /\ Entries(pool') = Entries(p)
        /\ \/ pool' = p
           \/ pool' = NoPool
           \/ Used(pool') <= Capacity(pool') \div 2 /\ pool'.live > 0
    <2>1. CASE i.for = "plain"
      BY <1>1, <1>6, <2>1
    <2>2. CASE i.for # "plain"
      <3>1. pool' = Restored(p, i)
        BY <1>1, <2>2
      <3>2. /\ i.grown \in BOOLEAN /\ Capacity(i.old) \in Nat
            /\ Capacity(i.old) = 0 \/ Capacity(i.old) >= 4
        BY <1>2, <2>2, InterningShape DEF PoolTypeOK
      <3> HIDE DEF i
      <3>3. Restores(p, i, Restored(p, i))
        BY Zenon, <1>6, <3>2, RestoredFacts
      <3>4. Restores(p, i, pool')
        BY Zenon, <3>1, <3>3
      <3> QED
        BY Zenon, <3>4 DEF Restores
    <2> QED
      BY <2>1, <2>2
  <1>8. Lighter(pool, pool')
    BY <1>6, <1>7 DEF Lighter
  <1>9. /\ \A l \in Levels : l # Level => intern'[l] = intern[l] /\ last'[l] = last[l]
        /\ intern'[Level] = Plain /\ last'[Level] = NoOp /\ intern' \in [Levels -> Internings]
        /\ Plain.for = "plain"
    <2>1. Plain.for = "plain" /\ Plain \in Internings
      BY DEF Plain, Internings
    <2> QED
      BY <1>1, <1>2, <1>4, <2>1, Nesting
  <1>10. intern'[2].for # "insert"
    <2>1. CASE Level = 2
      BY <1>9, <2>1
    <2>2. CASE Level # 2
      <3>1. intern[2].for # "insert" /\ 2 \in Levels
        BY <2>2, Nesting, LevelFacts DEF Levels
      <3> QED
        BY <1>9, <2>2, <3>1
    <2> QED
      BY <2>1, <2>2
  <1>11. pool.buckets # <<>> => i.for # "insert"
    BY <1>1, <1>4 DEF Settled, Growing
  <1>12. Load'
    BY Zenon, <1>1, <1>2, <1>7, <1>8, <1>10, <1>11, LoadKept
  <1>13. PoolTypeOK'
    <2>1. \A l \in Levels : intern'[l] = intern[l] \/ intern'[l].for = "plain"
      BY <1>9
    <2> QED
      BY <1>2, <1>7, <1>9, <2>1 DEF PoolTypeOK
  <1>14. Entries(pool') = {b \in Entries(pool) : b.ref # r}
    BY <1>6, <1>7
  <1>15. EntriesLive'
    <2>1. Frame
      <3>1. \A b \in Entries(pool) : b.ref \in Valid
        BY <1>2 DEF EntriesLive
      <3> QED
        BY <1>3, <1>5, <1>14, <3>1 DEF Frame
    <2> QED
      BY <2>1, FrameLive
  <1>16. ASSUME NEW l \in Levels, l # Level PROVE Pending(l)'
    <2>1. intern[l].for = "insert" => Target(l) # r
      <3> SUFFICES ASSUME intern[l].for = "insert" PROVE Target(l) # r
        OBVIOUS
      <3>1. l = 1 /\ Level = 2 /\ ops[1] # NoOp /\ Target(l) = ops[1].ref
        BY <1>16, Nesting
      <3>2. last[2].ref # ops[1].ref
        BY <1>4, <3>1 DEF IInv, OpsOwnSlots
      <3> QED
        BY <3>1, <3>2
    <2>2. last'[l] = last[l] /\ intern'[l] = intern[l]
      BY <1>9, <1>16
    <2> HIDE DEF r
    <2> QED
      BY <1>3, <1>4, <1>5, <1>14, <2>1, <2>2, DropPending
  <1>17. ASSUME NEW l \in Levels, l = Level PROVE Pending(l)'
    BY <1>4, <1>9, <1>17 DEF Pending, OnItsWay, NotFiled, Filed
  <1> QED
    BY <1>12, <1>13, <1>15, <1>16, <1>17 DEF PoolInv

LEMMA InvReclaimObject ==
    ASSUME IInv, PoolInv, NEW r \in made, ReclaimObject(r)
    PROVE  PoolInv'
  <1>1. Settled /\ Reclaim(r) /\ pool' = Forget(pool, r) /\ intern' = intern
    BY DEF ReclaimObject
  <1>2. PoolTypeOK /\ Load /\ Sound(pool) /\ EntriesLive /\ Level \in Levels
    BY LevelFacts DEF PoolInv, PoolTypeOK
  <1>3. r \in Valid /\ Valid' = Valid \ {r} /\ made' = made
    BY <1>1, InvReclaim
  <1>4. r \notin InUse /\ ~finalizing /\ ops' = ops /\ last' = last /\ finalizing' = finalizing
    BY <1>1 DEF Reclaim
  <1>5. \A q \in Valid' : slots'[q.slot] = slots[q.slot]
    BY <1>1, ReclaimSlots
  <1>6. Sound(pool') /\ Lighter(pool, pool') /\ Entries(pool') = {b \in Entries(pool) : b.ref # r}
    BY <1>1, <1>3, ForgetFacts
  <1>7. intern'[2].for # "insert"
    BY <1>1, <1>4, Nesting
  <1>8. Load'
    BY <1>1, <1>2, <1>6, <1>7, LoadKept
  <1>9. PoolTypeOK'
    BY <1>1, <1>2, <1>6 DEF PoolTypeOK
  <1>10. ASSUME NEW l \in Levels PROVE EntriesLive' /\ Pending(l)'
    <2>1. intern[l].for = "insert" => ops[l] # NoOp
      BY ZenonT(40), <1>1, Nesting DEF Settled
    <2>2. ops[l] # NoOp => ops[l].ref # r /\ Target(l) = ops[l].ref
      BY <1>4, Nesting DEF InUse
    <2>3. intern[l].for = "insert" => Target(l) # r
      BY <2>1, <2>2
    <2> QED
      BY ZenonT(40), <1>1, <1>3, <1>4, <1>5, <1>6, <2>3, DropPending
  <1> QED
    BY <1>2, <1>8, <1>9, <1>10 DEF PoolInv

LEMMA InvRunFinalizers ==
    ASSUME IInv, PoolInv, RunFinalizers
    PROVE  PoolInv'
  <1>1. /\ Settled /\ ~finalizing /\ finalizing' = TRUE /\ pool' = pool /\ intern' = intern
        /\ last' = last /\ slots' = slots /\ made' = made /\ len' = len
        /\ ops' = IF ops[1] = NoOp THEN ops
                  ELSE [ops EXCEPT ![1] = Op(@.ref, @.free, @.prev, TRUE)]
    BY DEF RunFinalizers, StartFinalizers, poolVars, slotVars
  <1>2. PoolTypeOK /\ Load /\ Sound(pool) /\ EntriesLive /\ 1 \in Levels /\ 2 \in Levels
        /\ \A l \in Levels : l = 1 \/ l = 2
    BY DEF PoolInv, PoolTypeOK, Levels
  <1>3. Valid' = Valid
    BY <1>1 DEF Valid, Resolves
  <1>4. Level = 1
    BY <1>1, LevelFacts
  <1>5. PoolTypeOK'
    BY <1>1, <1>2 DEF PoolTypeOK
  <1>6. Load'
    <2>1. Lighter(pool, pool') /\ Sound(pool') /\ intern'[2].for # "insert"
      BY <1>1, <1>2, Nesting DEF Lighter
    <2> QED
      BY <1>1, <1>2, <2>1, LoadKept
  <1>7. Frame
    BY <1>1, <1>2, <1>3 DEF Frame, EntriesLive
  <1>8. Pending(2)'
    <2>1. intern[2].for # "insert" /\ ops[2] = NoOp /\ last[2] = NoOp
      BY Zenon, <1>1, Nesting DEF IInv, OpsOwnSlots
    <2>2. ops'[2] = NoOp /\ last'[2] = NoOp /\ intern'[2].for # "insert"
      BY <1>1, <1>2, <2>1, Nesting
    <2> QED
      BY <2>2 DEF Pending, OnItsWay, NotFiled, Filed
  <1>9. Pending(1)'
    <2>1. OnItsWay(1) /\ NotFiled(1) /\ Filed(1)
      BY <1>2 DEF PoolInv, Pending
    <2>2. CASE ops[1] = NoOp
      <3>1. intern[1].for # "insert"
        BY <1>1, <1>4, <2>2 DEF Settled
      <3>2. ops' = ops
        BY <1>1, <2>2
      <3> QED
        BY Zenon, <1>1, <1>2, <1>7, <3>1, <3>2, FramePending
    <2>3. CASE ops[1] # NoOp
      <3> DEFINE o == ops[1]
      <3>1. ops'[1] = Op(o.ref, o.free, o.prev, TRUE)
        BY <1>1, <1>2, <2>3, Nesting
      <3>2. ops'[1] # NoOp /\ ops'[1].ref = o.ref /\ ops'[1].ran = TRUE
        <4> HIDE DEF o
        <4>1. ops'[1].st = "busy" /\ ops'[1].ref = o.ref
          BY <3>1 DEF Op
        <4>2. ops'[1].ran = TRUE
          BY <3>1 DEF Op
        <4>3. NoOp.st = "none"
          BY DEF NoOp
        <4> QED
          BY <4>1, <4>2, <4>3
      <3>3. Target(1)' = o.ref /\ Target(1) = o.ref /\ RanIn(1)'
        BY <2>3, <3>2 DEF Target, RanIn
      <3>4. OnItsWay(1)'
        BY Zenon, <1>1, <1>3, <2>1, <3>2, <3>3 DEF OnItsWay, ContentOf
      <3>5. NotFiled(1)'
        BY Zenon, <1>1, <2>1, <2>3, <3>2 DEF NotFiled
      <3>6. Filed(1)'
        BY <1>1, <1>3, <2>1 DEF Filed, ContentOf
      <3> QED
        BY <3>4, <3>5, <3>6 DEF Pending
    <2> QED
      BY <2>2, <2>3
  <1>10. ASSUME NEW l \in Levels PROVE Pending(l)'
    BY <1>2, <1>8, <1>9
  <1> QED
    BY <1>5, <1>6, <1>7, <1>10, FrameLive DEF PoolInv

LEMMA InvLeaveFinalizers ==
    ASSUME IInv, PoolInv, LeaveFinalizers
    PROVE  PoolInv'
  <1>1. /\ Settled /\ finalizing /\ ops[2] = NoOp /\ pool' = pool
        /\ intern' = [intern EXCEPT ![2] = Plain] /\ last' = [last EXCEPT ![2] = NoOp]
        /\ ops' = ops /\ slots' = slots /\ made' = made /\ len' = len
    BY DEF LeaveFinalizers, EndFinalizers, slotVars
  <1>2. /\ PoolTypeOK /\ Load /\ Sound(pool) /\ EntriesLive /\ 1 \in Levels /\ 2 \in Levels
        /\ intern \in [Levels -> Internings] /\ \A l \in Levels : l = 1 \/ l = 2
    BY DEF PoolInv, PoolTypeOK, Levels
  <1>3. Valid' = Valid
    BY <1>1 DEF Valid, Resolves
  <1>4. Level = 2 /\ intern[2].for # "insert"
    BY <1>1, LevelFacts DEF Settled
  <1>5. /\ intern'[2] = Plain /\ last'[2] = NoOp /\ intern' \in [Levels -> Internings]
        /\ Plain.for = "plain" /\ intern'[1] = intern[1] /\ last'[1] = last[1]
    <2>1. Plain.for = "plain" /\ Plain \in Internings
      BY DEF Plain, Internings
    <2> QED
      BY <1>1, <1>2, <2>1, Nesting
  <1>6. PoolTypeOK'
    <2>1. \A l \in Levels : intern'[l] = intern[l] \/ intern'[l].for = "plain"
      BY <1>2, <1>5
    <2> QED
      BY <1>1, <1>2, <1>5, <2>1 DEF PoolTypeOK
  <1>7. Load'
    <2>1. Lighter(pool, pool') /\ Sound(pool') /\ intern'[2].for # "insert"
      BY <1>1, <1>2, <1>5 DEF Lighter
    <2> QED
      BY ZenonT(40), <1>1, <1>2, <1>4, <2>1, LoadKept
  <1>8. Frame
    BY <1>1, <1>2, <1>3 DEF Frame, EntriesLive
  <1>9. Pending(2)'
    BY <1>1, <1>5 DEF Pending, OnItsWay, NotFiled, Filed
  <1>10. Pending(1)'
    <2>1. intern[1].for = "insert" => ops[1] # NoOp
      BY <1>2, <1>4, Nesting
    <2>2. intern[1].for = "insert" => Target(1) \in Valid'
      BY <1>2, <1>3 DEF PoolInv, Pending, OnItsWay
    <2> QED
      BY <1>1, <1>2, <1>5, <1>8, <2>1, <2>2, FramePending
  <1>11. ASSUME NEW l \in Levels PROVE Pending(l)'
    BY <1>2, <1>9, <1>10
  <1> QED
    BY <1>6, <1>7, <1>8, <1>11, FrameLive DEF PoolInv

LEMMA InvPoolStutter ==
    ASSUME IInv, PoolInv, UNCHANGED vars, UNCHANGED poolVars
    PROVE  PoolInv'
  <1>1. /\ ops' = ops /\ last' = last /\ slots' = slots /\ made' = made /\ Valid' = Valid
        /\ finalizing' = finalizing /\ pool' = pool /\ intern' = intern
    BY InvStutter DEF vars, slotVars, poolVars
  <1>2. Level' = Level
    BY <1>1 DEF Level
  <1>3. Frame
    BY <1>1 DEF Frame, PoolInv, EntriesLive
  <1>4. ASSUME NEW l \in Levels PROVE Pending(l)'
    <2>1. intern[l].for = "insert" => Target(l) \in Valid'
      BY <1>1 DEF PoolInv, Pending, OnItsWay
    <2> QED
      BY <1>1, <1>2, <1>3, <2>1, FramePending
  <1>5. PoolTypeOK' /\ Load'
    BY <1>1 DEF PoolInv, PoolTypeOK, Load
  <1> QED
    BY <1>3, <1>4, <1>5, FrameLive DEF PoolInv

LEMMA PoolInvInit == PoolInit => IInv /\ PoolInv
  <1> SUFFICES ASSUME PoolInit PROVE IInv /\ PoolInv
    OBVIOUS
  <1>1. /\ Init /\ pool = NoPool /\ intern = [l \in Levels |-> Plain]
        /\ ops = [l \in Levels |-> NoOp] /\ 2 \in Levels
    BY DEF PoolInit, Init, Levels
  <1>2. Plain \in Internings /\ \A l \in Levels : intern[l] = Plain /\ intern[l].for = "plain" /\ ops[l] = NoOp
    BY <1>1 DEF Plain, Internings
  <1>3. PoolTypeOK
    BY <1>1, <1>2, NoPoolFacts DEF PoolTypeOK
  <1>4. EntriesLive
    BY <1>1, NoPoolFacts DEF EntriesLive
  <1>5. Load
    BY <1>1, <1>2, NoPoolFacts DEF Load
  <1>6. \A l \in Levels : Pending(l)
    BY <1>2 DEF Pending, OnItsWay, NotFiled, Filed
  <1> QED
    BY <1>1, <1>3, <1>4, <1>5, <1>6, InvInit DEF PoolInv

\* Every step of the index and the heap is a step of the heap alone.
LEMMA PoolStep == [PoolNext]_allVars => [Next]_vars
  <1> SUFFICES ASSUME [PoolNext]_allVars PROVE [Next]_vars
    OBVIOUS
  <1>1. CASE PoolNext
    BY Zenon, <1>1 DEF PoolNext, AllocatePlain, AllocateShort, ShortFailsEarly, AllocateReturns,
                AllocateFails, InsertShort, UnpublishObject, ReclaimObject, RunFinalizers,
                LeaveFinalizers, Next
  <1>2. CASE UNCHANGED allVars
    BY <1>2 DEF allVars
  <1> QED
    BY <1>1, <1>2

LEMMA PoolStepInv ==
    ASSUME IInv, PoolInv, ~FinalizersMayFail, [PoolNext]_allVars
    PROVE  IInv' /\ PoolInv'
  <1>1. IInv'
    BY PoolStep, StepInv
  <1> SUFFICES PoolInv'
    BY <1>1
  <1>2. CASE UNCHANGED allVars
    BY <1>2, InvPoolStutter DEF allVars
  <1>3. CASE \E c \in Contents \cup {NoContent} : AllocatePlain(c)
    BY <1>3, InvAllocatePlain
  <1>4. CASE \E c \in Contents : AllocateShort(c)
    BY <1>4, InvAllocateShort
  <1>5. CASE \E c \in Contents : ShortFailsEarly(c)
    BY <1>5, InvShortFailsEarly
  <1>6. CASE Settled /\ Refused /\ UNCHANGED poolVars
    BY <1>6, InvPoolStutter DEF Refused
  <1>7. CASE AllocateReturns
    BY <1>7, InvAllocateReturns
  <1>8. CASE AllocateFails
    BY <1>8, InvAllocateFails
  <1>9. CASE InsertShort
    BY <1>9, InvInsertShort
  <1>10. CASE UnpublishObject
    BY <1>10, InvUnpublishObject
  <1>11. CASE \E r \in made : ReclaimObject(r)
    BY <1>11, InvReclaimObject
  <1>12. CASE RunFinalizers
    BY <1>12, InvRunFinalizers
  <1>13. CASE LeaveFinalizers
    BY <1>13, InvLeaveFinalizers
  <1> QED
    BY <1>2, <1>3, <1>4, <1>5, <1>6, <1>7, <1>8, <1>9, <1>10, <1>11, <1>12, <1>13 DEF PoolNext

---------------------------------------------------------------------------
(* The theorems.  Each holds as long as no collection step fails after it has *)
(* run finalizers: the heap below is not reliable otherwise.                  *)

\* The inductive invariants of the heap and of the index on top of it hold for
\* every number of slots, contents and buckets, and every hash function.
THEOREM PoolInvariant ==
    ASSUME ~FinalizersMayFail
    PROVE  PoolSpec => [](IInv /\ PoolInv)
  <1>1. IInv /\ PoolInv /\ [PoolNext]_allVars => IInv' /\ PoolInv'
    BY PoolStepInv
  <1> QED
    BY <1>1, PoolInvInit, PTL DEF PoolSpec

\* A lookup in the index never meets a reference to an object that is gone, and
\* every entry is filed under the hash of its string.
THEOREM EntriesAreLive ==
    ASSUME ~FinalizersMayFail
    PROVE  PoolSpec => []EntriesLive
  <1>1. IInv /\ PoolInv => EntriesLive
    BY DEF PoolInv
  <1> QED
    BY <1>1, PoolInvariant, PTL

\* find_short_string finds every string of the index, and every string that
\* was interned last and lives, after any sequence of insertions, removals,
\* reuse of deleted buckets and moves between indexes.
THEOREM EntriesAreFound ==
    ASSUME ~FinalizersMayFail
    PROVE  PoolSpec => []EntriesFound
  <1>1. IInv /\ PoolInv => EntriesFound
    <2> SUFFICES ASSUME IInv, PoolInv PROVE EntriesFound
      OBVIOUS
    <2>1. Sound(pool) /\ EntriesLive
      BY DEF PoolInv, PoolTypeOK
    <2>2. ASSUME NEW b \in Entries(pool) PROVE Find(pool, ContentOf(b.ref)) # {}
      <3>1. b.ref \in Valid /\ ContentOf(b.ref) # NoContent /\ b.hash = Hash[ContentOf(b.ref)]
        BY <2>1 DEF EntriesLive
      <3>2. ContentOf(b.ref) \in Contents
        BY <3>1, ContentFacts
      <3> QED
        BY <2>1, <3>1, <3>2, FindFacts
    <2>3. ASSUME NEW l \in Levels, intern[l].for = "done", last[l] # NoOp, last[l].ref \in Valid
          PROVE  Find(pool, ContentOf(last[l].ref)) # {}
      <3>1. Entry(Hash[ContentOf(last[l].ref)], last[l].ref) \in Entries(pool)
        BY Zenon, <2>3 DEF PoolInv, Pending, Filed
      <3>2. Entry(Hash[ContentOf(last[l].ref)], last[l].ref).ref = last[l].ref
        BY DEF Entry
      <3> QED
        BY Zenon, <2>2, <3>1, <3>2
    <2> QED
      BY <2>2, <2>3 DEF EntriesFound
  <1> QED
    BY <1>1, PoolInvariant, PTL

\* The counters of the index are right, an index with buckets always has an
\* empty one, and buckets without entries are held only by an allocation.
THEOREM RoomIsLeft ==
    ASSUME ~FinalizersMayFail
    PROVE  PoolSpec => []RoomLeft
  <1>1. IInv /\ PoolInv => RoomLeft
    <2> SUFFICES ASSUME IInv, PoolInv PROVE RoomLeft
      OBVIOUS
    <2>1. Sound(pool) /\ Load
      BY DEF PoolInv, PoolTypeOK
    <2>2. /\ pool.buckets \in Seq(BucketValues) /\ Capacity(pool) \in Nat
          /\ pool.live \in Nat /\ pool.deleted \in Nat
          /\ pool.buckets = <<>> <=> Capacity(pool) = 0
          /\ Capacity(pool) = 0 \/ Capacity(pool) >= 4
      BY <2>1, EntriesAre, Places DEF Sound
    <2>3. /\ pool.live = Cardinality(Where(pool, "entry"))
          /\ pool.deleted = Cardinality(Where(pool, "deleted"))
      BY <2>1 DEF Sound
    <2>4. ASSUME pool.buckets # <<>> PROVE Where(pool, "empty") # {}
      <3>1. pool.live + pool.deleted <= Capacity(pool) \div 2 + 1
        BY <2>1, <2>4 DEF Load
      <3>2. pool.live + pool.deleted < Capacity(pool)
        BY <2>2, <2>4, <3>1
      <3> QED
        BY <2>2, <2>3, <3>2, RoomIsEmpty
    <2>5. ASSUME pool.buckets # <<>>, pool.live = 0
          PROVE  ~Settled \/ \E l \in Levels : ops[l] # NoOp
      <3>1. PICK l \in Levels : intern[l].for = "insert"
        BY <2>1, <2>5 DEF Load
      <3>2. ops[l] # NoOp \/ l = Level
        BY <3>1 DEF PoolInv, Pending, OnItsWay
      <3> QED
        BY <3>1, <3>2 DEF Settled
    <2>6. pool.buckets # <<>> => pool.live > 0 \/ ~Settled \/ \E l \in Levels : ops[l] # NoOp
      BY <2>2, <2>5
    <2> QED
      BY <2>3, <2>4, <2>6 DEF RoomLeft
  <1> QED
    BY <1>1, PoolInvariant, PTL

\* allocate_byte_string_with_status never files a second string of a content
\* that is indexed, unless finalizers ran while it allocated the object.
THEOREM IndexedOnlyOnce ==
    ASSUME ~FinalizersMayFail
    PROVE  PoolSpec => []IndexedOnce
  <1>1. IInv /\ PoolInv => IndexedOnce
    <2> SUFFICES ASSUME IInv, PoolInv, ~Settled, ~intern[Level].ran
                 PROVE  Find(pool, ContentOf(last[Level].ref)) = {}
      BY DEF IndexedOnce
    <2>1. Sound(pool) /\ Level \in Levels
      BY LevelFacts DEF PoolInv, PoolTypeOK
    <2>2. ops[Level] = NoOp /\ intern[Level].for = "insert"
      BY DEF Settled
    <2>3. Target(Level) = last[Level].ref /\ ~RanIn(Level)
      BY <2>2 DEF Target, RanIn
    <2>4. /\ ContentOf(last[Level].ref) \in Contents
          /\ \A b \in Entries(pool) : ContentOf(b.ref) # ContentOf(last[Level].ref)
      BY <2>1, <2>2, <2>3 DEF PoolInv, Pending, OnItsWay
    <2> QED
      BY <2>1, <2>4, FindFacts
  <1> QED
    BY <1>1, PoolInvariant, PTL

\* With the index on top of it, the heap still implements ObjectIdentity.
THEOREM IdentityUnderIndex ==
    ASSUME ~FinalizersMayFail
    PROVE  PoolSpec => ImplementsIdentity
  <1>1. PoolInit => Init
    BY DEF PoolInit
  <1>2. PoolSpec => Spec
    BY <1>1, PoolStep, PTL DEF PoolSpec, Spec
  <1> QED
    BY <1>2, Identity, PTL

=============================================================================
