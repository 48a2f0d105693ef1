--------------------------- MODULE SlotTableProof ---------------------------
(***************************************************************************)
(* Proofs about the slots of the heap, for every number of slots,          *)
(* generations, tokens and slots per page.                                 *)
(***************************************************************************)
EXTENDS SlotTable, TLAPS, WellFoundedInduction

---------------------------------------------------------------------------
(* Numbers *)

\* Every set of naturals has a least element.
LEMMA LeastElement ==
    ASSUME NEW T, T \subseteq Nat, T # {}
    PROVE  \E x \in T : \A y \in T : x <= y
  <1>1. PICK x \in T : \A y \in T : ~(<<y, x>> \in OpToRel(<, Nat))
    BY NatLessThanWellFounded, WFMin
  <1>2. \A y \in T : ~(y < x)
    BY <1>1 DEF OpToRel
  <1> QED
    BY <1>2

LEMMA InInterval ==
    ASSUME NEW a \in Nat, NEW b \in Nat, NEW i \in Nat, i > a, i <= b
    PROVE  i \in (a + 1)..b
  OBVIOUS

LEMMA NotTheLast ==
    ASSUME NEW n \in Nat, NEW m \in Nat, m + 1 = n, NEW max \in Nat, max <= n, NEW e \in 0..max, e # n
    PROVE  e \in 0..m
  OBVIOUS

LEMMA OneLess ==
    ASSUME NEW n \in Nat, NEW m \in Nat, m + 1 = n, NEW max \in Nat, n <= max, NEW e \in 0..m
    PROVE  /\ e \in Nat /\ e \in 0..max /\ m \in 0..max
           /\ \A i \in (e + 1)..m : i \in 1..max /\ i # n /\ i > e /\ i <= n /\ i \in Nat
  OBVIOUS

\* retreat_gc_scan_end ends: it finds the last slot that is not free.
LEMMA RetreatFacts ==
    ASSUME NEW sl, NEW e \in Nat
    PROVE  /\ Retreat(sl, e) \in 0..e
           /\ Retreat(sl, e) > 0 => sl[Retreat(sl, e)].st # "free"
           /\ \A i \in (Retreat(sl, e) + 1)..e : sl[i].st = "free"
  <1> DEFINE T == {n \in 0..e : \A i \in (n + 1)..e : sl[i].st = "free"}
  <1>1. e \in T /\ T \subseteq Nat /\ T # {}
    <2>1. e \in T
      OBVIOUS
    <2>2. \A n \in T : n \in Nat
      OBVIOUS
    <2> QED
      BY <2>1, <2>2
  <1>2. PICK n \in T : \A y \in T : n <= y
    <2> HIDE DEF T
    <2> QED
      BY <1>1, LeastElement
  <1>3. n > 0 => sl[n].st # "free"
    <2> SUFFICES ASSUME n > 0, sl[n].st = "free" PROVE FALSE
      OBVIOUS
    <2>1. \A i \in n..e : sl[i].st = "free"
      <3> TAKE i \in n..e
      <3>1. i = n \/ i \in (n + 1)..e
        BY <1>2
      <3> QED
        BY <1>2, <3>1
    <2>2. n - 1 \in 0..e /\ (n - 1) + 1 = n
      BY <1>2
    <2>3. n - 1 \in T
      BY <2>1, <2>2
    <2> QED
      BY <1>2, <2>2, <2>3
  <1>4. \E m \in 0..e : /\ m > 0 => sl[m].st # "free"
                        /\ \A i \in (m + 1)..e : sl[i].st = "free"
    BY <1>2, <1>3
  <1> QED
    BY <1>4 DEF Retreat

\* The pages for n slots hold n slots, and no more than one slot needs them.
LEMMA PageFacts ==
    ASSUME NEW n \in Nat
    PROVE  /\ PagesFor(n) \in Nat /\ n <= PagesFor(n) * PageSize
           /\ \A m \in 0..(n - 1) : m \div PageSize # PagesFor(n)
           /\ PagesFor(n + 1) = IF n \div PageSize = PagesFor(n) THEN PagesFor(n) + 1 ELSE PagesFor(n)
           /\ PagesFor(n) <= PagesFor(n + 1)
  <1> DEFINE P == PageSize
             q == n \div P
             r == n % P
  <1>1. P \in Nat /\ P > 0
    BY SlotAssumption
  <1>2. q \in Nat /\ r \in Nat /\ n = P * q + r /\ r < P
    BY <1>1, Z3
  <1> QED
    BY <1>1, <1>2 DEF PagesFor

---------------------------------------------------------------------------
(* Slots and references *)

\* What the type of the slots says of one slot.
LEMMA SlotShape ==
    ASSUME TypeOK, NEW i \in Index
    PROVE  /\ slots[i].st \in {"absent", "retired", "free", "occupied"}
           /\ slots[i].st = "free" => slots[i].gen \in Generations
           /\ slots[i].st = "occupied" => slots[i].ref \in Refs
  <1>1. slots[i] \in SlotValues
    BY DEF TypeOK
  <1> QED
    BY <1>1 DEF SlotValues, Absent, Retired, FreeSlot, Occupied

\* The slot an allocation finds is free, or the first one beyond the end.
LEMMA CandidateFacts ==
    ASSUME TypeOK, BitmapsAgree
    PROVE  /\ Reuses => /\ Candidate \in 1..len /\ Candidate \in Index
                        /\ slots[Candidate].st = "free" /\ slots[Candidate].gen \in Generations
           /\ ~Reuses => Candidate = len + 1 /\ scanEnd = len
           /\ len \in 0..MaxSlots /\ Candidate \in Nat \ {0} /\ CandidateGeneration \in Generations
  <1>1. len \in 0..MaxSlots /\ scanEnd \in 0..MaxSlots /\ reusable \subseteq Index /\ MaxSlots \in Nat
    BY SlotAssumption DEF TypeOK
  <1>2. CASE Below # {}
    <2>1. Below \subseteq Nat
      <3>1. \A i \in Below : i \in Nat
        BY <1>1 DEF Below, Index
      <3> QED
        BY <3>1
    <2>2. \E i \in Below : \A j \in Below : i <= j
      BY <1>2, <2>1, LeastElement
    <2>3. Candidate \in Below
      BY <1>2, <2>2 DEF Candidate, MinOf
    <2>4. Candidate \in Index /\ slots[Candidate].st = "free" /\ Candidate <= len
      BY <1>1, <2>3 DEF Below, BitmapsAgree, Index
    <2> QED
      BY <1>1, <1>2, <2>4, SlotShape DEF Index, Reuses, CandidateGeneration
  <1>3. CASE Below = {} /\ scanEnd < len
    <2>1. Candidate = scanEnd + 1 /\ Candidate \in Index /\ Candidate <= len /\ Candidate > scanEnd
      BY <1>1, <1>3 DEF Candidate, Index
    <2>2. slots[Candidate].st = "free"
      BY <2>1 DEF BitmapsAgree
    <2> QED
      BY <1>1, <1>3, <2>1, <2>2, SlotShape DEF Index, Reuses, CandidateGeneration
  <1>4. CASE Below = {} /\ ~(scanEnd < len)
    BY <1>1, <1>4, SlotAssumption
       DEF Candidate, Reuses, CandidateGeneration, BitmapsAgree, Generations
  <1> QED
    BY <1>2, <1>3, <1>4

\* The reference of an occupied slot is the only one that resolves to it.
LEMMA ValidFacts ==
    ASSUME TypeOK, BitmapsAgree, TokensUnique
    PROVE  /\ \A r \in Valid : /\ r \in Refs /\ r.slot \in Index /\ r.gen \in Generations /\ r.slot <= len
                                /\ slots[r.slot].st = "occupied" /\ slots[r.slot].ref = r
           /\ \A r \in made : (r \in Valid <=> slots[r.slot].st = "occupied" /\ slots[r.slot].ref = r)
  <1>1. \A r \in made : r \in Refs /\ r.slot \in Index /\ r.gen \in Generations
    BY DEF TypeOK, Refs
  <1>2. \A r \in made : slots[r.slot].st = "occupied" => r.slot <= len
    BY <1>1 DEF BitmapsAgree, TypeOK, Index
  <1> QED
    BY <1>1, <1>2 DEF Valid, Resolves

\* An object leaves its slot: its reference, and no other, stops resolving.
LEMMA DropObject ==
    ASSUME IInv, NEW r \in Valid, NEW x, x.st # "occupied",
           slots' = [slots EXCEPT ![r.slot] = x],
           len' = len \/ (r.slot = len /\ len' = len - 1),
           made' = made, gone' = gone \cup {r}, nextToken' = nextToken
    PROVE  Valid' = Valid \ {r} /\ ResolvesExactly' /\ TokensUnique'
  <1>1. TypeOK /\ BitmapsAgree /\ TokensUnique /\ ResolvesExactly
    BY DEF IInv
  <1>2. /\ \A q \in Valid : /\ q \in Refs /\ q.slot \in Index /\ q.slot <= len
                            /\ slots[q.slot].st = "occupied" /\ slots[q.slot].ref = q
        /\ \A q \in made : (q \in Valid <=> slots[q.slot].st = "occupied" /\ slots[q.slot].ref = q)
    BY <1>1, ValidFacts
  <1>3. slots'[r.slot] = x /\ \A i \in Index \ {r.slot} : slots'[i] = slots[i]
    BY <1>1, <1>2 DEF TypeOK
  <1>4. \A q \in made : q.slot \in Index /\ (q \in Valid' <=> q \in Valid /\ q # r)
    <2> TAKE q \in made
    <2>1. q.slot \in Index /\ len \in Nat /\ q.slot \in Nat
      BY <1>1 DEF TypeOK, Refs, Index
    <2>2. CASE q.slot = r.slot
      BY <1>2, <1>3, <2>1, <2>2 DEF Valid, Resolves
    <2>3. CASE q.slot # r.slot
      <3>1. slots'[q.slot] = slots[q.slot]
        BY <1>3, <2>1, <2>3
      <3>2. q.slot <= len' <=> q.slot <= len
        BY <2>1, <2>3
      <3> QED
        BY <2>1, <2>3, <3>1, <3>2 DEF Valid, Resolves
    <2> QED
      BY <2>2, <2>3
  <1>5. Valid' = Valid \ {r}
    BY <1>4 DEF Valid
  <1>6. ResolvesExactly'
    BY <1>1, <1>5 DEF ResolvesExactly
  <1>7. TokensUnique'
    BY <1>1, <1>2, <1>3 DEF TokensUnique
  <1> QED
    BY <1>5, <1>6, <1>7

\* The words of the bitmaps hold all bits that are set.
LEMMA BitsInPages ==
    ASSUME TypeOK, BitmapsAgree
    PROVE  \A i \in occupied \cup reusable : i \in Index /\ i <= len /\ i <= pages * PageSize
  <1> SUFFICES ASSUME NEW i \in occupied \cup reusable
               PROVE  i \in Index /\ i <= len /\ i <= pages * PageSize
    OBVIOUS
  <1>1. i \in Index /\ i \in Nat /\ len \in Nat /\ ~(i > len)
    BY DEF BitmapsAgree, TypeOK, Index
  <1>2. pages = PagesFor(len)
    BY DEF BitmapsAgree
  <1>3. pages \in Nat /\ len <= pages * PageSize
    BY <1>1, <1>2, PageFacts
  <1>4. pages * PageSize \in Nat
    BY <1>3, SlotAssumption
  <1> QED
    BY <1>1, <1>3, <1>4

\* The bits after an object has left a slot that stays in the vector.
LEMMA DropBits ==
    ASSUME IInv, NEW r \in Valid, NEW x, x.st = "free" \/ x.st = "retired",
           slots' = [slots EXCEPT ![r.slot] = x], len' = len, pages' = pages,
           occupied' = occupied \ {r.slot},
           x.st = "free" => reusable' = reusable \cup {r.slot},
           x.st # "free" => reusable' = reusable \ {r.slot},
           scanEnd' = Retreat(slots', scanEnd)
    PROVE  BitmapsAgree' /\ scanEnd' \in 0..MaxSlots
  <1>1. TypeOK /\ BitmapsAgree /\ TokensUnique
    BY DEF IInv
  <1>2. r.slot \in Index /\ r.slot <= len /\ slots[r.slot].st = "occupied"
    BY <1>1, ValidFacts
  <1>3. slots'[r.slot] = x /\ \A i \in Index \ {r.slot} : slots'[i] = slots[i]
    BY <1>1, <1>2 DEF TypeOK
  <1>4. len \in Nat /\ scanEnd \in Nat /\ scanEnd <= len /\ len <= MaxSlots /\ MaxSlots \in Nat
    BY <1>1, SlotAssumption DEF TypeOK, BitmapsAgree
  <1>5. scanEnd' \in 0..scanEnd /\ \A i \in (scanEnd' + 1)..scanEnd : slots'[i].st = "free"
    BY <1>4, RetreatFacts
  <1>6. \A i \in Index : i > scanEnd' /\ i <= len => slots'[i].st = "free"
    <2> SUFFICES ASSUME NEW i \in Index, i > scanEnd', i <= len PROVE slots'[i].st = "free"
      OBVIOUS
    <2>1. CASE i <= scanEnd
      <3>1. scanEnd' \in Nat /\ i \in Nat
        BY <1>4, <1>5 DEF Index
      <3>2. i \in (scanEnd' + 1)..scanEnd
        BY <1>4, <2>1, <3>1
      <3> QED
        BY <1>5, <3>2
    <2>2. CASE i > scanEnd
      <3>1. slots[i].st = "free"
        BY <1>1, <2>2 DEF BitmapsAgree
      <3> QED
        BY <1>2, <1>3, <3>1
    <2> QED
      BY <1>4, <2>1, <2>2 DEF Index
  <1>7. /\ occupied' = {i \in Index : slots'[i].st = "occupied"}
        /\ reusable' = {i \in Index : slots'[i].st = "free"}
        /\ \A i \in Index : slots'[i].st = "absent" <=> i > len
    BY <1>1, <1>2, <1>3, <1>4 DEF BitmapsAgree, Index
  <1>8. PagesFor(len)' = PagesFor(len) /\ pages = PagesFor(len)
    BY <1>1 DEF BitmapsAgree, PagesFor
  <1>9. scanEnd' \in 0..MaxSlots /\ scanEnd' <= len
    BY <1>4, <1>5
  <1> QED
    BY <1>6, <1>7, <1>8, <1>9 DEF BitmapsAgree

\* The bits after the last slot has been removed from the vector.
LEMMA PopBits ==
    ASSUME IInv, NEW r \in Valid, r.slot = len,
           slots' = [slots EXCEPT ![len] = Absent], len' = len - 1,
           pages' = IF pages > PagesFor(len - 1) THEN PagesFor(len - 1) ELSE pages,
           occupied' = {i \in occupied \ {r.slot} : i <= pages' * PageSize},
           NEW R, R \ {r.slot} = reusable, reusable' = {i \in R : i <= len'},
           scanEnd' \in 0..len', \A i \in (scanEnd' + 1)..len' : slots[i].st = "free"
    PROVE  BitmapsAgree' /\ pages' \in Nat
  <1>1. TypeOK /\ BitmapsAgree /\ TokensUnique
    BY DEF IInv
  <1>2. len \in Index /\ slots[len].st = "occupied"
    BY <1>1, ValidFacts
  <1>3. slots'[len].st = "absent" /\ \A i \in Index \ {len} : slots'[i] = slots[i]
    BY <1>1, <1>2 DEF TypeOK, Absent
  <1>4. len \in Nat /\ len' \in Nat /\ len' + 1 = len /\ len <= MaxSlots /\ MaxSlots \in Nat
    BY <1>2, SlotAssumption DEF Index
  <1>5. pages' = PagesFor(len') /\ pages' \in Nat /\ len' <= pages' * PageSize
    <2>1. pages = PagesFor(len)
      BY <1>1 DEF BitmapsAgree
    <2>2. PagesFor(len') \in Nat /\ PagesFor(len) \in Nat /\ PagesFor(len') <= PagesFor(len)
      BY <1>4, PageFacts
    <2>3. pages' = PagesFor(len')
      BY <1>4, <2>1, <2>2
    <2> QED
      BY <1>4, <2>2, <2>3, PageFacts
  <1>6. \A i \in Index : i \in occupied \ {len} => i <= pages' * PageSize
    <2> SUFFICES ASSUME NEW i \in Index, i \in occupied, i # len PROVE i <= pages' * PageSize
      OBVIOUS
    <2>1. slots[i].st = "occupied"
      BY <1>1 DEF BitmapsAgree
    <2>2. ~(i > len)
      BY <1>1, <2>1 DEF BitmapsAgree
    <2>3. i <= len'
      BY <1>4, <2>2 DEF Index
    <2>4. pages' * PageSize \in Nat
      BY <1>5, SlotAssumption
    <2> QED
      BY <1>4, <1>5, <2>3, <2>4 DEF Index
  <1>7. occupied' = {i \in Index : slots'[i].st = "occupied"}
    <2>1. occupied' = occupied \ {len}
      BY <1>1, <1>6 DEF TypeOK
    <2> QED
      BY <1>1, <1>2, <1>3, <2>1 DEF BitmapsAgree
  <1>8. reusable' = {i \in Index : slots'[i].st = "free"}
    <2>1. \A i \in reusable : i <= len' /\ i # len
      BY <1>1, <1>2, <1>4 DEF BitmapsAgree, Index
    <2>2. reusable' = reusable
      BY <1>4, <2>1
    <2> QED
      BY <1>1, <1>2, <1>3, <2>2 DEF BitmapsAgree
  <1>9. \A i \in Index : slots'[i].st = "absent" <=> i > len'
    BY <1>1, <1>2, <1>3, <1>4 DEF BitmapsAgree, Index
  <1>10. \A i \in Index : i > scanEnd' /\ i <= len' => slots'[i].st = "free"
    <2> SUFFICES ASSUME NEW i \in Index, i > scanEnd', i <= len' PROVE slots'[i].st = "free"
      OBVIOUS
    <2>1. scanEnd' \in Nat /\ i \in Nat
      BY <1>4 DEF Index
    <2>2. i \in (scanEnd' + 1)..len'
      BY <1>4, <2>1, InInterval
    <2>3. i # len
      BY <1>4, <2>1
    <2>4. slots[i].st = "free"
      BY <2>2
    <2> QED
      BY <1>3, <2>3, <2>4
  <1> QED
    BY <1>4, <1>5, <1>7, <1>8, <1>9, <1>10 DEF BitmapsAgree

---------------------------------------------------------------------------
(* Allocations in progress *)

LEMMA OpShape ==
    ASSUME TypeOK, NEW l \in Levels
    PROVE  /\ ops[l] # NoOp => /\ ops[l].ref \in Refs /\ ops[l].free \in BOOLEAN
                               /\ ops[l].prev \in 0..MaxSlots /\ ops[l].ran \in BOOLEAN
           /\ last[l] # NoOp => last[l].ref \in Refs /\ last[l].prev \in 0..MaxSlots
  <1>1. ops[l] \in OpValues /\ last[l] \in KeptValues
    BY DEF TypeOK
  <1>2. ops[l] # NoOp => /\ ops[l].ref \in Refs /\ ops[l].free \in BOOLEAN
                         /\ ops[l].prev \in 0..MaxSlots /\ ops[l].ran \in BOOLEAN
    <2> SUFFICES ASSUME ops[l] # NoOp
                 PROVE  /\ ops[l].ref \in Refs /\ ops[l].free \in BOOLEAN
                        /\ ops[l].prev \in 0..MaxSlots /\ ops[l].ran \in BOOLEAN
      OBVIOUS
    <2>1. PICK r \in Refs, f \in BOOLEAN, n \in 0..MaxSlots, b \in BOOLEAN : ops[l] = Op(r, f, n, b)
      BY <1>1 DEF OpValues
    <2> QED
      BY <2>1 DEF Op
  <1>3. last[l] # NoOp => last[l].ref \in Refs /\ last[l].prev \in 0..MaxSlots
    <2> SUFFICES ASSUME last[l] # NoOp PROVE last[l].ref \in Refs /\ last[l].prev \in 0..MaxSlots
      OBVIOUS
    <2>1. PICK r \in Refs, n \in 0..MaxSlots : last[l] = Kept(r, n)
      BY <1>1 DEF KeptValues
    <2> QED
      BY <2>1 DEF Kept
  <1> QED
    BY <1>2, <1>3

LEMMA OpFields ==
    ASSUME NEW r \in Refs, NEW f \in BOOLEAN, NEW n \in 0..MaxSlots, NEW b \in BOOLEAN
    PROVE  /\ Op(r, f, n, b) \in OpValues /\ Op(r, f, n, b) # NoOp
           /\ Op(r, f, n, b).ref = r /\ Op(r, f, n, b).free = f
           /\ Op(r, f, n, b).prev = n /\ Op(r, f, n, b).ran = b
           /\ Kept(r, n) \in KeptValues /\ Kept(r, n) # NoOp
           /\ Kept(r, n).ref = r /\ Kept(r, n).prev = n
  BY DEF Op, Kept, NoOp, OpValues, KeptValues

LEMMA LevelFacts == Level \in Levels /\ (finalizing => Level = 2) /\ (~finalizing => Level = 1)
  BY DEF Level, Levels

\* An allocation in progress whose object was never given up keeps its slot.
LEMMA OwnersKept ==
    ASSUME IInv, NEW r \in Valid, Valid' = Valid \ {r}, made' = made, finalizing' = finalizing,
           NEW l \in Levels,
           ops' = ops \/ ops' = [ops EXCEPT ![l] = NoOp],
           last' = last \/ last' = [last EXCEPT ![l] = NoOp],
           \A k \in Levels : ops'[k] # NoOp => ops[k].ref # r,
           len' = len \/ \A k \in Levels : ops'[k] # NoOp => ops[k].ran
    PROVE  OpsOwnSlots' /\ ops' \in [Levels -> OpValues] /\ last' \in [Levels -> KeptValues]
  <1>1. ops \in [Levels -> OpValues] /\ last \in [Levels -> KeptValues] /\ OpsOwnSlots
    BY DEF IInv, TypeOK
  <1>2. NoOp \in OpValues /\ NoOp \in KeptValues
    BY DEF OpValues, KeptValues
  <1>3. /\ \A k \in Levels : ops'[k] # NoOp => ops'[k] = ops[k]
        /\ \A k \in Levels : last'[k] # NoOp => last'[k] = last[k]
        /\ ops' \in [Levels -> OpValues] /\ last' \in [Levels -> KeptValues]
    BY <1>1, <1>2
  <1>4. 1 \in Levels /\ 2 \in Levels
    BY DEF Levels
  <1>5. \A k \in Levels : ops'[k] # NoOp =>
           /\ ops'[k].ref \in Valid'
           /\ ops'[k].ref.slot = ops'[k].prev + 1 => ~ops'[k].free /\ ops'[k].ref.gen = 0
           /\ ~ops'[k].free /\ ~ops'[k].ran => ops'[k].ref.slot = len'
    BY <1>1, <1>3 DEF OpsOwnSlots
  <1>6. \A k \in Levels : last'[k] # NoOp =>
           /\ last'[k].ref \in made'
           /\ last'[k].ref.slot = last'[k].prev + 1 => last'[k].ref.gen = 0
    BY <1>1, <1>3 DEF OpsOwnSlots
  <1>7. /\ finalizing' /\ ops'[1] # NoOp => ops'[1].ran
        /\ ops'[2] # NoOp => finalizing' /\ ~ops'[2].ran
        /\ last'[2] # NoOp => finalizing'
        /\ ops'[1] # NoOp /\ ops'[2] # NoOp => ops'[2].ref # ops'[1].ref
        /\ ops'[1] # NoOp /\ last'[2] # NoOp => last'[2].ref # ops'[1].ref
    BY <1>1, <1>3, <1>4 DEF OpsOwnSlots
  <1> QED
    BY <1>3, <1>5, <1>6, <1>7 DEF OpsOwnSlots

---------------------------------------------------------------------------
(* The steps *)

LEMMA InvReclaim ==
    ASSUME IInv, NEW r \in made, Reclaim(r)
    PROVE  IInv' /\ r \in Valid /\ Valid' = Valid \ {r} /\ made' = made
  <1> DEFINE x == NextSlot(r.gen)
  <1>1. r \in Valid
    BY DEF Reclaim, Valid
  <1>2. TypeOK /\ BitmapsAgree /\ TokensUnique
    BY DEF IInv
  <1>3. r.slot \in Index /\ r.gen \in Generations
    BY <1>1, <1>2, ValidFacts
  <1>4. /\ x \in SlotValues /\ x.st \in {"free", "retired"}
        /\ x.st = "free" <=> r.gen < MaxGeneration
    BY <1>3, SlotAssumption DEF NextSlot, FreeSlot, Retired, SlotValues, Generations
  <1>5. slots' = [slots EXCEPT ![r.slot] = x]
    BY DEF Reclaim, Reclaimed
  <1> HIDE DEF x
  <1>6. Valid' = Valid \ {r} /\ ResolvesExactly' /\ TokensUnique'
    <2>1. /\ x.st # "occupied" /\ len' = len /\ made' = made /\ gone' = gone \cup {r}
          /\ nextToken' = nextToken
      BY <1>4 DEF Reclaim
    <2> QED
      BY <1>1, <1>5, <2>1, DropObject
  <1>7. BitmapsAgree' /\ scanEnd' \in 0..MaxSlots
    <2>1. /\ len' = len /\ pages' = pages /\ occupied' = occupied \ {r.slot}
          /\ x.st = "free" => reusable' = reusable \cup {r.slot}
          /\ x.st # "free" => reusable' = reusable \ {r.slot}
          /\ scanEnd' = Retreat(slots', scanEnd)
      BY <1>4 DEF Reclaim
    <2>2. x.st = "free" \/ x.st = "retired"
      BY <1>4
    <2> QED
      BY <1>1, <1>5, <2>1, <2>2, DropBits, Zenon
  <1>8. OpsOwnSlots'
    <2>1. made' = made /\ finalizing' = finalizing /\ ops' = ops /\ last' = last /\ len' = len
      BY DEF Reclaim
    <2>2. \A k \in Levels : ops'[k] # NoOp => ops[k].ref # r
      BY <2>1 DEF Reclaim, InUse
    <2> QED
      BY <1>1, <1>6, <2>1, <2>2, LevelFacts, OwnersKept
  <1>9. TypeOK'
    <2>1. slots' \in [Index -> SlotValues]
      BY <1>2, <1>3, <1>4, <1>5 DEF TypeOK
    <2>2. occupied' \subseteq Index /\ reusable' \subseteq Index /\ gone' \subseteq made'
      BY <1>2, <1>3 DEF TypeOK, Reclaim
    <2> QED
      BY <1>2, <1>7, <2>1, <2>2 DEF TypeOK, Reclaim
  <1> QED
    BY <1>1, <1>6, <1>7, <1>8, <1>9 DEF IInv, Reclaim

LEMMA InvAllocate ==
    ASSUME IInv, NEW c \in Contents \cup {NoContent}, Allocate(c)
    PROVE  /\ IInv' /\ NewRef \in Refs \ made /\ made' = made \cup {NewRef}
           /\ Valid' = Valid \cup {NewRef}
  <1> DEFINE i == Candidate
             r == NewRef
             x == Occupied(r, c)
  <1>1. TypeOK /\ BitmapsAgree /\ TokensUnique /\ ResolvesExactly /\ OpsOwnSlots
    BY DEF IInv
  <1>2. /\ Reuses => i \in 1..len /\ slots[i].st = "free"
        /\ ~Reuses => i = len + 1 /\ scanEnd = len
        /\ i \in Index /\ len \in Nat /\ len <= MaxSlots /\ i \in Nat
        /\ CandidateGeneration \in Generations /\ nextToken \in 1..MaxTokens
    BY <1>1, CandidateFacts DEF Allocate, Publish, TypeOK
  <1>3. /\ r \in Refs /\ r.slot = i /\ r.gen = CandidateGeneration /\ r.tok = nextToken
        /\ x \in SlotValues /\ x.st = "occupied" /\ x.ref = r
    BY <1>2 DEF NewRef, Refs, Occupied, SlotValues
  <1>4. r \notin made /\ r \notin gone
    BY <1>1, <1>2, <1>3 DEF TokensUnique, TypeOK
  <1>5. /\ slots' = [slots EXCEPT ![i] = x] /\ made' = made \cup {r} /\ gone' = gone
        /\ len' = (IF Reuses THEN len ELSE len + 1) /\ nextToken' = nextToken + 1
        /\ occupied' = occupied \cup {i} /\ reusable' = reusable \ {i}
        /\ scanEnd' = (IF i > scanEnd THEN i ELSE scanEnd)
        /\ pages' = (IF (i - 1) \div PageSize = pages THEN pages + 1 ELSE pages)
        /\ ops[Level] = NoOp /\ ops' = [ops EXCEPT ![Level] = Op(r, Reuses, len, FALSE)]
        /\ last' = [last EXCEPT ![Level] = NoOp] /\ finalizing' = finalizing
    BY DEF Allocate, Publish
  <1>6. ~Reuses => slots[i].st = "absent"
    BY <1>1, <1>2 DEF BitmapsAgree
  <1> HIDE DEF i, r, x
  <1>7. slots'[i] = x /\ \A j \in Index \ {i} : slots'[j] = slots[j]
    BY <1>1, <1>2, <1>5 DEF TypeOK
  <1>8. slots[i].st # "occupied" /\ i <= len' /\ len' \in Nat /\ len' <= MaxSlots
    BY <1>2, <1>5, <1>6, SlotAssumption DEF Index
  <1>9. Valid' = Valid \cup {r}
    <2>1. \A q \in made : q \in Valid' <=> q \in Valid
      <3> TAKE q \in made
      <3>1. q.slot \in Index /\ q.slot \in Nat /\ q # r
        BY <1>1, <1>4 DEF TypeOK, Refs, Index
      <3>2. CASE q.slot = i
        BY <1>3, <1>7, <1>8, <3>1, <3>2 DEF Valid, Resolves
      <3>3. CASE q.slot # i
        <4>1. slots'[q.slot] = slots[q.slot]
          BY <1>7, <3>1, <3>3
        <4>2. slots[q.slot].st = "occupied" => q.slot <= len /\ q.slot <= len'
          BY <1>1, <1>2, <1>5, <3>1 DEF BitmapsAgree
        <4>3. q \in made'
          BY <1>5
        <4> QED
          BY <4>1, <4>2, <4>3 DEF Valid, Resolves
      <3> QED
        BY <3>2, <3>3
    <2>2. r \in Valid'
      BY <1>3, <1>5, <1>7, <1>8 DEF Valid, Resolves
    <2> QED
      BY <1>5, <2>1, <2>2 DEF Valid
  <1>10. ResolvesExactly'
    BY <1>1, <1>4, <1>5, <1>9 DEF ResolvesExactly
  <1>11. TokensUnique'
    <2>1. \A q \in made' : q.tok < nextToken'
      <3>1. \A q \in made : q.tok \in Nat /\ q.tok < nextToken
        BY <1>1 DEF TypeOK, Refs, TokensUnique
      <3> QED
        BY <1>2, <1>3, <1>5, <3>1
    <2>2. \A p, q \in made' : p.tok = q.tok => p = q
      BY <1>1, <1>2, <1>3, <1>5 DEF TokensUnique
    <2>3. \A j \in Index : slots'[j].st = "occupied" =>
             slots'[j].ref \in made' \ gone' /\ slots'[j].ref.slot = j
      BY <1>1, <1>3, <1>4, <1>5, <1>7 DEF TokensUnique
    <2> QED
      BY <2>1, <2>2, <2>3 DEF TokensUnique
  <1>12. BitmapsAgree'
    <2>1. occupied' = {j \in Index : slots'[j].st = "occupied"}
      BY <1>1, <1>2, <1>3, <1>5, <1>7 DEF BitmapsAgree
    <2>2. reusable' = {j \in Index : slots'[j].st = "free"}
      BY <1>1, <1>2, <1>3, <1>5, <1>7 DEF BitmapsAgree
    <2>3. \A j \in Index : slots'[j].st = "absent" <=> j > len'
      BY <1>1, <1>2, <1>3, <1>5, <1>7 DEF BitmapsAgree, Index
    <2>4. scanEnd \in Nat /\ scanEnd <= len
      BY <1>1 DEF TypeOK, BitmapsAgree
    <2>5. scanEnd' <= len' /\ scanEnd' \in Nat /\ scanEnd' >= scanEnd /\ scanEnd' >= i
      BY <1>2, <1>5, <1>8, <2>4
    <2>6. \A j \in Index : j > scanEnd' /\ j <= len' => slots'[j].st = "free"
      <3> SUFFICES ASSUME NEW j \in Index, j > scanEnd', j <= len' PROVE slots'[j].st = "free"
        OBVIOUS
      <3>1. j # i /\ j > scanEnd /\ j <= len
        BY <1>2, <1>5, <1>8, <2>4, <2>5 DEF Index
      <3> QED
        BY <1>1, <1>7, <3>1 DEF BitmapsAgree
    <2>7. pages' = PagesFor(len)'
      <3>1. pages = PagesFor(len)
        BY <1>1 DEF BitmapsAgree
      <3>2. CASE Reuses
        <4>1. i - 1 \in 0..(len - 1) /\ len' = len
          BY <1>2, <1>5, <3>2
        <4>2. (i - 1) \div PageSize # PagesFor(len)
          BY <1>2, <4>1, PageFacts
        <4>3. pages' = pages
          BY <1>5, <3>1, <4>2
        <4> QED
          BY <3>1, <4>1, <4>3 DEF PagesFor
      <3>3. CASE ~Reuses
        <4>1. i - 1 = len /\ len' = len + 1
          BY <1>2, <1>5, <3>3
        <4>2. PagesFor(len + 1) = IF len \div PageSize = PagesFor(len) THEN PagesFor(len) + 1 ELSE PagesFor(len)
          BY <1>2, PageFacts
        <4>3. pages' = PagesFor(len + 1)
          BY <1>5, <3>1, <4>1, <4>2
        <4>4. PagesFor(len)' = PagesFor(len + 1)
          BY <4>1 DEF PagesFor
        <4> QED
          BY <4>3, <4>4
      <3> QED
        BY <3>2, <3>3
    <2> QED
      BY <2>1, <2>2, <2>3, <2>5, <2>6, <2>7 DEF BitmapsAgree
  <1>13. OpsOwnSlots' /\ ops' \in [Levels -> OpValues] /\ last' \in [Levels -> KeptValues]
    <2> DEFINE o == Op(r, Reuses, len, FALSE)
    <2>1. Reuses \in BOOLEAN /\ len \in 0..MaxSlots
      BY <1>1 DEF Reuses, TypeOK
    <2>2. o \in OpValues /\ o # NoOp /\ o.ref = r /\ (o.free <=> Reuses) /\ o.prev = len /\ ~o.ran
      <3> DEFINE f == Reuses
                 b == FALSE
      <3>1. f \in BOOLEAN /\ b \in BOOLEAN
        BY <2>1
      <3> HIDE DEF f, b
      <3>2. /\ Op(r, f, len, b) \in OpValues /\ Op(r, f, len, b) # NoOp
            /\ Op(r, f, len, b).ref = r /\ Op(r, f, len, b).free = f
            /\ Op(r, f, len, b).prev = len /\ Op(r, f, len, b).ran = b
        BY <1>3, <2>1, <3>1, OpFields
      <3> QED
        BY <3>2 DEF f, b
    <2> HIDE DEF o
    <2>3. /\ ops' \in [Levels -> OpValues] /\ ops'[Level] = o
          /\ \A k \in Levels \ {Level} : ops'[k] = ops[k]
      BY <1>1, <1>5, <2>2, LevelFacts DEF TypeOK, o
    <2>4. /\ last' \in [Levels -> KeptValues] /\ last'[Level] = NoOp
          /\ \A k \in Levels \ {Level} : last'[k] = last[k]
      BY <1>1, <1>5, LevelFacts DEF TypeOK, KeptValues
    <2>5. /\ r.slot = len + 1 => ~Reuses /\ r.gen = 0
          /\ ~Reuses => r.slot = len'
      BY <1>2, <1>3, <1>5 DEF CandidateGeneration
    <2>6. \A k \in Levels : ops'[k] # NoOp =>
             /\ ops'[k].ref \in Valid'
             /\ ops'[k].ref.slot = ops'[k].prev + 1 => ~ops'[k].free /\ ops'[k].ref.gen = 0
             /\ ~ops'[k].free /\ ~ops'[k].ran => ops'[k].ref.slot = len'
      <3> SUFFICES ASSUME NEW k \in Levels, ops'[k] # NoOp
                   PROVE  /\ ops'[k].ref \in Valid'
                          /\ ops'[k].ref.slot = ops'[k].prev + 1 => ~ops'[k].free /\ ops'[k].ref.gen = 0
                          /\ ~ops'[k].free /\ ~ops'[k].ran => ops'[k].ref.slot = len'
        OBVIOUS
      <3>1. CASE k = Level
        BY <1>9, <2>2, <2>3, <2>5, <3>1
      <3>2. CASE k # Level
        <4>1. ops'[k] = ops[k] /\ ops[k] # NoOp
          BY <2>3, <3>2
        <4>2. ops[k].ran
          BY <1>1, <3>2, <4>1, LevelFacts DEF OpsOwnSlots, Levels
        <4> QED
          BY <1>1, <1>9, <4>1, <4>2 DEF OpsOwnSlots
      <3> QED
        BY <3>1, <3>2
    <2>7. \A k \in Levels : last'[k] # NoOp =>
             /\ last'[k].ref \in made'
             /\ last'[k].ref.slot = last'[k].prev + 1 => last'[k].ref.gen = 0
      BY <1>1, <1>5, <2>4 DEF OpsOwnSlots
    <2>8. /\ finalizing' /\ ops'[1] # NoOp => ops'[1].ran
          /\ ops'[2] # NoOp => finalizing' /\ ~ops'[2].ran
          /\ last'[2] # NoOp => finalizing'
      <3>1. CASE finalizing
        <4>1. Level = 2 /\ ops'[1] = ops[1] /\ ops'[2] = o /\ last'[2] = NoOp
          BY <2>3, <2>4, <3>1, LevelFacts DEF Levels
        <4> QED
          BY <1>1, <1>5, <2>2, <3>1, <4>1 DEF OpsOwnSlots
      <3>2. CASE ~finalizing
        <4>1. ops'[2] = ops[2] /\ last'[2] = last[2]
          BY <2>3, <2>4, <3>2, LevelFacts DEF Levels
        <4> QED
          BY <1>1, <1>5, <3>2, <4>1 DEF OpsOwnSlots
      <3> QED
        BY <3>1, <3>2
    <2>9. /\ ops'[1] # NoOp /\ ops'[2] # NoOp => ops'[2].ref # ops'[1].ref
          /\ ops'[1] # NoOp /\ last'[2] # NoOp => last'[2].ref # ops'[1].ref
      <3>1. ops[1] # NoOp => ops[1].ref # r
        BY <1>1, <1>4 DEF OpsOwnSlots, Valid, Levels
      <3>2. CASE Level = 1
        BY <1>1, <2>3, <2>4, <3>2, LevelFacts DEF OpsOwnSlots, Levels
      <3>3. CASE Level = 2
        BY <1>1, <2>2, <2>3, <2>4, <3>1, <3>3 DEF Levels
      <3> QED
        BY <3>2, <3>3, LevelFacts DEF Levels
    <2> QED
      BY <2>3, <2>4, <2>6, <2>7, <2>8, <2>9 DEF OpsOwnSlots
  <1>14. TypeOK'
    <2>1. slots' \in [Index -> SlotValues]
      BY <1>1, <1>2, <1>3, <1>5 DEF TypeOK
    <2>2. occupied' \subseteq Index /\ reusable' \subseteq Index
      BY <1>1, <1>2, <1>5 DEF TypeOK
    <2>3. made' \subseteq Refs /\ gone' \subseteq made' /\ finalizing' \in BOOLEAN
      BY <1>1, <1>3, <1>5 DEF TypeOK
    <2>4. len' \in 0..MaxSlots /\ scanEnd' \in 0..MaxSlots
      BY <1>1, <1>2, <1>5, <1>8, SlotAssumption DEF TypeOK, Index
    <2>5. nextToken' \in 1..(MaxTokens + 1)
      BY <1>2, <1>5, SlotAssumption
    <2>6. pages' \in Nat
      BY <1>1, <1>5 DEF TypeOK
    <2> QED
      BY <1>13, <2>1, <2>2, <2>3, <2>4, <2>5, <2>6 DEF TypeOK
  <1> QED
    BY <1>3, <1>4, <1>5, <1>9, <1>10, <1>11, <1>12, <1>13, <1>14 DEF IInv, r

LEMMA InvDone ==
    ASSUME IInv, Done
    PROVE  IInv' /\ made' = made /\ Valid' = Valid
  <1> DEFINE l == Level
             k == Kept(ops[Level].ref, ops[Level].prev)
  <1>1. TypeOK /\ OpsOwnSlots /\ l \in Levels
    BY LevelFacts DEF IInv
  <1>2. /\ ops[l] # NoOp /\ ops' = [ops EXCEPT ![l] = NoOp] /\ last' = [last EXCEPT ![l] = k]
        /\ UNCHANGED <<slots, len, scanEnd, occupied, reusable, pages, nextToken, finalizing, made, gone>>
    BY DEF Done, slotVars
  <1>3. Valid' = Valid
    BY <1>2 DEF Valid, Resolves
  <1>4. BitmapsAgree' /\ TokensUnique' /\ ResolvesExactly'
    BY <1>2, <1>3 DEF IInv, BitmapsAgree, TokensUnique, ResolvesExactly, PagesFor
  <1>5. /\ k \in KeptValues /\ k # NoOp /\ k.ref = ops[l].ref /\ k.prev = ops[l].prev
        /\ ops[l].ref \in Valid /\ (k.ref.slot = k.prev + 1 => k.ref.gen = 0)
    <2>1. ops[l].ref \in Refs /\ ops[l].prev \in 0..MaxSlots
      BY <1>1, <1>2, OpShape
    <2>2. k \in KeptValues /\ k # NoOp /\ k.ref = ops[l].ref /\ k.prev = ops[l].prev
      BY <2>1 DEF Kept, NoOp, KeptValues
    <2> QED
      BY <1>1, <1>2, <2>2 DEF OpsOwnSlots
  <1> HIDE DEF l, k
  <1>6. /\ ops' \in [Levels -> OpValues] /\ ops'[l] = NoOp /\ \A j \in Levels \ {l} : ops'[j] = ops[j]
        /\ last' \in [Levels -> KeptValues] /\ last'[l] = k /\ \A j \in Levels \ {l} : last'[j] = last[j]
    BY <1>1, <1>2, <1>5 DEF TypeOK, OpValues
  <1>7. TypeOK'
    BY <1>1, <1>2, <1>6 DEF TypeOK
  <1>8. \A j \in Levels : ops'[j] # NoOp =>
           /\ ops'[j].ref \in Valid'
           /\ ops'[j].ref.slot = ops'[j].prev + 1 => ~ops'[j].free /\ ops'[j].ref.gen = 0
           /\ ~ops'[j].free /\ ~ops'[j].ran => ops'[j].ref.slot = len'
    BY <1>1, <1>2, <1>3, <1>6 DEF OpsOwnSlots
  <1>9. \A j \in Levels : last'[j] # NoOp =>
           /\ last'[j].ref \in made'
           /\ last'[j].ref.slot = last'[j].prev + 1 => last'[j].ref.gen = 0
    BY <1>1, <1>2, <1>5, <1>6 DEF OpsOwnSlots, Valid
  <1>10. /\ finalizing' /\ ops'[1] # NoOp => ops'[1].ran
         /\ ops'[2] # NoOp => finalizing' /\ ~ops'[2].ran
         /\ ops'[1] # NoOp /\ ops'[2] # NoOp => ops'[2].ref # ops'[1].ref
    BY <1>1, <1>2, <1>6 DEF OpsOwnSlots, Levels
  <1>11. /\ last'[2] # NoOp => finalizing'
         /\ ops'[1] # NoOp /\ last'[2] # NoOp => last'[2].ref # ops'[1].ref
    <2>1. CASE l = 1
      BY <1>1, <1>2, <1>6, <2>1 DEF OpsOwnSlots, Levels
    <2>2. CASE l = 2
      BY <1>1, <1>2, <1>5, <1>6, <2>2 DEF OpsOwnSlots, Levels
    <2> QED
      BY <1>1, <2>1, <2>2 DEF Levels
  <1>12. OpsOwnSlots'
    BY <1>8, <1>9, <1>10, <1>11 DEF OpsOwnSlots
  <1> QED
    BY <1>2, <1>3, <1>4, <1>7, <1>12 DEF IInv

---------------------------------------------------------------------------
(* The steps of rollbacks and of finalizers preserve the invariant IInv *)

LEMMA InvFails ==
    ASSUME IInv, ~FinalizersMayFail, Fails
    PROVE  /\ IInv' /\ made' = made
           /\ ops[Level].ref \in Valid /\ Valid' = Valid \ {ops[Level].ref}
  <1> DEFINE l == Level
             o == ops[Level]
             r == ops[Level].ref
  <1>1. TypeOK /\ BitmapsAgree /\ TokensUnique /\ OpsOwnSlots /\ l \in Levels
    BY LevelFacts DEF IInv
  <1>2. /\ o # NoOp /\ ~o.ran /\ Undo(o) /\ ops' = [ops EXCEPT ![l] = NoOp] /\ gone' = gone \cup {r}
        /\ UNCHANGED <<nextToken, last, finalizing, made>>
    BY DEF Fails
  <1>3. r \in Valid /\ (~o.free => r.slot = len) /\ o.free \in BOOLEAN
    BY <1>1, <1>2, OpShape DEF OpsOwnSlots
  <1>4. /\ r.slot \in Index /\ r.gen \in Generations /\ r.slot <= len /\ slots[r.slot].st = "occupied"
        /\ r \in made
    BY <1>1, <1>3, ValidFacts DEF Valid
  <1>5. \A j \in Levels : ops'[j] # NoOp => ops[j].ref # r /\ ops[j].ran
    <2>1. \A j \in Levels : ops'[j] # NoOp => j # l /\ ops[j] # NoOp
      BY <1>1, <1>2 DEF TypeOK
    <2> QED
      BY <1>1, <1>2, <2>1, LevelFacts DEF OpsOwnSlots, Levels
  <1>6. len \in Nat /\ scanEnd \in Nat /\ scanEnd <= len /\ len <= MaxSlots /\ MaxSlots \in Nat
    BY <1>1, SlotAssumption DEF TypeOK, BitmapsAgree
  <1>7. /\ Valid' = Valid \ {r} /\ ResolvesExactly' /\ TokensUnique' /\ BitmapsAgree'
        /\ scanEnd' \in 0..MaxSlots /\ pages' \in Nat /\ len' \in 0..MaxSlots
        /\ slots' \in [Index -> SlotValues]
    <2>1. CASE o.free
      <3> DEFINE x == FreeSlot(r.gen)
      <3>1. /\ slots' = [slots EXCEPT ![r.slot] = x] /\ len' = len /\ pages' = pages
            /\ occupied' = {i \in occupied \ {r.slot} : i <= pages * PageSize}
            /\ reusable' = {i \in reusable \cup {r.slot} : i <= len}
            /\ scanEnd' = Retreat(slots', IF scanEnd < len THEN scanEnd ELSE len)
        BY <1>2, <2>1 DEF Undo
      <3>2. x.st = "free" /\ x \in SlotValues
        BY <1>4 DEF FreeSlot, SlotValues
      <3> HIDE DEF x
      <3>3. \A i \in occupied \cup reusable : i \in Index /\ i <= len /\ i <= pages * PageSize
        BY <1>1, BitsInPages
      <3>4. occupied' = occupied \ {r.slot} /\ reusable' = reusable \cup {r.slot}
        BY <1>4, <3>1, <3>3
      <3>5. scanEnd' = Retreat(slots', scanEnd)
        <4>1. (IF scanEnd < len THEN scanEnd ELSE len) = scanEnd
          BY <1>6
        <4> QED
          BY <3>1, <4>1
      <3>6. BitmapsAgree' /\ scanEnd' \in 0..MaxSlots
        BY <1>3, <3>1, <3>2, <3>4, <3>5, DropBits, Zenon
      <3>7. Valid' = Valid \ {r} /\ ResolvesExactly' /\ TokensUnique'
        BY <1>2, <1>3, <3>1, <3>2, DropObject
      <3> QED
        BY <1>1, <1>4, <3>1, <3>2, <3>6, <3>7 DEF TypeOK
    <2>2. CASE ~o.free
      <3> DEFINE e == IF scanEnd < len' THEN scanEnd ELSE len'
                 R == reusable \cup {r.slot}
      <3>1. /\ slots' = [slots EXCEPT ![len] = Absent] /\ len' = len - 1
            /\ pages' = IF pages > PagesFor(len - 1) THEN PagesFor(len - 1) ELSE pages
            /\ occupied' = {i \in occupied \ {r.slot} : i <= pages' * PageSize}
            /\ reusable' = {i \in R : i <= len'}
            /\ scanEnd' = Retreat(slots', e)
        BY <1>2, <2>2 DEF Undo
      <3>2. r.slot = len /\ len \in Index /\ len' \in Nat /\ len' + 1 = len
        BY <1>3, <1>4, <1>6, <2>2, <3>1 DEF Index
      <3>3. e \in Nat /\ e <= len' /\ (e = scanEnd \/ e = len')
        BY <1>6, <3>2
      <3>4. scanEnd' \in 0..e /\ \A i \in (scanEnd' + 1)..e : slots'[i].st = "free"
        BY <3>1, <3>3, RetreatFacts
      <3> HIDE DEF e
      <3>5. scanEnd' \in 0..len'
        BY <3>2, <3>3, <3>4
      <3>6. \A i \in (scanEnd' + 1)..len' : slots[i].st = "free"
        <4> SUFFICES ASSUME NEW i \in (scanEnd' + 1)..len' PROVE slots[i].st = "free"
          OBVIOUS
        <4>1. i \in Index /\ i # len /\ i > scanEnd' /\ i <= len /\ i \in Nat /\ scanEnd' \in Nat
          <5>1. len \in Nat /\ len <= MaxSlots /\ MaxSlots \in Nat /\ len' \in Nat /\ len' + 1 = len
            BY <1>6, <3>2
          <5>2. i \in 1..MaxSlots /\ i # len /\ i > scanEnd' /\ i <= len /\ i \in Nat
            BY <5>1, <3>5, OneLess
          <5>3. scanEnd' \in Nat
            BY <5>1, <3>5, OneLess
          <5> QED
            BY <5>2, <5>3 DEF Index
        <4>2. CASE i <= e
          <5>1. i \in (scanEnd' + 1)..e
            BY <3>3, <4>1, <4>2, InInterval
          <5>2. slots'[i] = slots[i]
            BY <1>1, <3>1, <4>1 DEF TypeOK
          <5> QED
            BY <3>4, <5>1, <5>2
        <4>3. CASE i > e
          <5>1. i > scanEnd
            BY <3>2, <3>3, <4>1, <4>3
          <5> QED
            BY <1>1, <4>1, <5>1 DEF BitmapsAgree
        <4> QED
          BY <3>3, <4>1, <4>2, <4>3
      <3>7. R \ {r.slot} = reusable
        BY <1>1, <1>4 DEF BitmapsAgree
      <3> HIDE DEF R
      <3>8. BitmapsAgree' /\ pages' \in Nat
        BY <1>3, <3>1, <3>2, <3>5, <3>6, <3>7, PopBits, Zenon
      <3>9. Absent.st # "occupied" /\ Absent \in SlotValues
        BY DEF Absent, SlotValues
      <3>10. Valid' = Valid \ {r} /\ ResolvesExactly' /\ TokensUnique'
        BY <1>2, <1>3, <3>1, <3>2, <3>9, DropObject
      <3>11. scanEnd' \in 0..MaxSlots /\ len' \in 0..MaxSlots
        BY <1>6, <3>2, <3>5, OneLess
      <3> QED
        BY <1>1, <1>4, <3>1, <3>8, <3>9, <3>10, <3>11 DEF TypeOK
    <2> QED
      BY <1>3, <2>1, <2>2
  <1>8. OpsOwnSlots' /\ ops' \in [Levels -> OpValues] /\ last' \in [Levels -> KeptValues]
    BY <1>1, <1>2, <1>3, <1>5, <1>7, OwnersKept
  <1>9. TypeOK'
    <2>1. occupied' \subseteq Index /\ reusable' \subseteq Index
      BY <1>7 DEF BitmapsAgree
    <2>2. gone' \subseteq made' /\ made' \subseteq Refs
      BY <1>1, <1>2, <1>4 DEF TypeOK
    <2> QED
      BY <1>1, <1>2, <1>7, <1>8, <2>1, <2>2 DEF TypeOK
  <1> QED
    BY <1>2, <1>3, <1>7, <1>8, <1>9 DEF IInv

LEMMA InvUnpublish ==
    ASSUME IInv, Unpublish
    PROVE  /\ IInv' /\ made' = made
           /\ last[Level].ref \in Valid /\ Valid' = Valid \ {last[Level].ref}
  <1> DEFINE l == Level
             k == last[Level]
             r == last[Level].ref
             x == NextSlot(r.gen)
             R == IF r.gen < MaxGeneration THEN reusable \cup {r.slot} ELSE reusable \ {r.slot}
  <1>1. TypeOK /\ BitmapsAgree /\ TokensUnique /\ OpsOwnSlots /\ l \in Levels
    BY LevelFacts DEF IInv
  <1>2. /\ k # NoOp /\ ops[l] = NoOp /\ Resolves(r)
        /\ slots' = (IF Appended(k) THEN [Reclaimed(r) EXCEPT ![len] = Absent] ELSE Reclaimed(r))
        /\ len' = (IF Appended(k) THEN len - 1 ELSE len)
        /\ pages' = (IF Appended(k) /\ pages > PagesFor(len - 1) THEN PagesFor(len - 1) ELSE pages)
        /\ occupied' = {i \in occupied \ {r.slot} : i <= pages' * PageSize}
        /\ reusable' = {i \in R : i <= len'}
        /\ scanEnd' = Retreat(Reclaimed(r), scanEnd)
        /\ gone' = gone \cup {r} /\ last' = [last EXCEPT ![l] = NoOp]
        /\ UNCHANGED <<nextToken, ops, finalizing, made>>
    BY DEF Unpublish
  <1>3. r \in Valid /\ (r.slot = k.prev + 1 => r.gen = 0)
    BY <1>1, <1>2 DEF OpsOwnSlots, Valid
  <1>4. /\ r.slot \in Index /\ r.gen \in Generations /\ r.slot <= len /\ slots[r.slot].st = "occupied"
        /\ r \in made /\ r.slot \notin reusable
    BY <1>1, <1>3, ValidFacts DEF Valid, BitmapsAgree
  <1>5. /\ x \in SlotValues
        /\ x.st = "free" \/ x.st = "retired"
        /\ x.st = "free" <=> r.gen < MaxGeneration
    BY <1>4, SlotAssumption DEF NextSlot, FreeSlot, Retired, SlotValues, Generations
  <1>6. len \in Nat /\ scanEnd \in Nat /\ scanEnd <= len /\ len <= MaxSlots /\ MaxSlots \in Nat
    BY <1>1, SlotAssumption DEF TypeOK, BitmapsAgree
  <1>7. Reclaimed(r) = [slots EXCEPT ![r.slot] = x]
    BY DEF Reclaimed
  <1>8. \A j \in Levels : ops'[j] # NoOp => ops[j].ref # r /\ ops[j].ran
    BY <1>1, <1>2, LevelFacts DEF OpsOwnSlots, Levels
  <1> HIDE DEF x
  <1>9. /\ Valid' = Valid \ {r} /\ ResolvesExactly' /\ TokensUnique' /\ BitmapsAgree'
        /\ scanEnd' \in 0..MaxSlots /\ pages' \in Nat /\ len' \in 0..MaxSlots
        /\ slots' \in [Index -> SlotValues]
    <2>1. CASE ~Appended(k)
      <3>1. slots' = [slots EXCEPT ![r.slot] = x] /\ len' = len /\ pages' = pages
        BY <1>2, <1>7, <2>1
      <3>2. \A i \in occupied \cup reusable : i \in Index /\ i <= len /\ i <= pages * PageSize
        BY <1>1, BitsInPages
      <3>3. /\ occupied' = occupied \ {r.slot}
            /\ x.st = "free" => reusable' = reusable \cup {r.slot}
            /\ x.st # "free" => reusable' = reusable \ {r.slot}
        BY <1>2, <1>4, <1>5, <3>1, <3>2
      <3>4. scanEnd' = Retreat(slots', scanEnd)
        BY <1>2, <1>7, <3>1
      <3>5. BitmapsAgree' /\ scanEnd' \in 0..MaxSlots
        BY <1>3, <1>5, <3>1, <3>3, <3>4, DropBits, Zenon
      <3>6. Valid' = Valid \ {r} /\ ResolvesExactly' /\ TokensUnique'
        <4>1. x.st # "occupied"
          BY <1>5
        <4> QED
          BY <1>2, <1>3, <3>1, <4>1, DropObject
      <3>7. slots' \in [Index -> SlotValues] /\ pages' \in Nat /\ len' \in 0..MaxSlots
        BY <1>1, <1>4, <1>5, <3>1 DEF TypeOK
      <3> QED
        BY <3>5, <3>6, <3>7
    <2>2. CASE Appended(k)
      <3>1. r.slot = len /\ r.gen = 0 /\ r.gen < MaxGeneration /\ x.st = "free" /\ len \in Index
        BY <1>3, <1>4, <1>5, <2>2, SlotAssumption DEF Appended
      <3>2. /\ slots' = [slots EXCEPT ![len] = Absent] /\ len' = len - 1
            /\ pages' = IF pages > PagesFor(len - 1) THEN PagesFor(len - 1) ELSE pages
        BY <1>1, <1>2, <1>7, <2>2, <3>1 DEF TypeOK
      <3>3. len' \in Nat /\ len' + 1 = len
        BY <1>6, <3>1, <3>2, SMTT(30) DEF Index
      <3>4. R \ {r.slot} = reusable
        BY <1>4, <3>1
      <3>5. /\ scanEnd' \in 0..scanEnd /\ (scanEnd' > 0 => Reclaimed(r)[scanEnd'].st # "free")
            /\ \A i \in (scanEnd' + 1)..scanEnd : Reclaimed(r)[i].st = "free"
        BY <1>2, <1>6, RetreatFacts
      <3>6. Reclaimed(r)[len].st = "free" /\ \A i \in Index \ {len} : Reclaimed(r)[i] = slots[i]
        BY <1>1, <1>7, <3>1 DEF TypeOK
      <3>7. scanEnd' # len
        BY <1>4, <3>1, <3>5, <3>6, SMTT(30) DEF Index
      <3>8. scanEnd' \in 0..len'
        BY <1>6, <3>3, <3>5, <3>7, NotTheLast
      <3>9. \A i \in (scanEnd' + 1)..len' : slots[i].st = "free"
        <4> SUFFICES ASSUME NEW i \in (scanEnd' + 1)..len' PROVE slots[i].st = "free"
          OBVIOUS
        <4>1. i \in Index /\ i # len /\ i > scanEnd' /\ i <= len /\ i \in Nat /\ scanEnd' \in Nat
          <5>1. len \in Nat /\ len <= MaxSlots /\ MaxSlots \in Nat /\ len' \in Nat /\ len' + 1 = len
            BY <1>6, <3>3
          <5>2. i \in 1..MaxSlots /\ i # len /\ i > scanEnd' /\ i <= len /\ i \in Nat
            BY <5>1, <3>8, OneLess
          <5>3. scanEnd' \in Nat
            BY <5>1, <3>8, OneLess
          <5> QED
            BY <5>2, <5>3 DEF Index
        <4>2. CASE i <= scanEnd
          <5>1. i \in (scanEnd' + 1)..scanEnd
            BY <1>6, <4>1, <4>2, InInterval
          <5> QED
            BY <3>5, <3>6, <4>1, <5>1
        <4>3. CASE i > scanEnd
          BY <1>1, <4>1, <4>3 DEF BitmapsAgree
        <4> QED
          BY <1>6, <4>1, <4>2, <4>3
      <3> HIDE DEF R
      <3>10. BitmapsAgree' /\ pages' \in Nat
        BY <1>2, <1>3, <3>1, <3>2, <3>4, <3>8, <3>9, PopBits, Zenon
      <3>11. Absent.st # "occupied" /\ Absent \in SlotValues
        BY DEF Absent, SlotValues
      <3>12. Valid' = Valid \ {r} /\ ResolvesExactly' /\ TokensUnique'
        BY <1>2, <1>3, <3>1, <3>2, <3>11, DropObject
      <3>13. scanEnd' \in 0..MaxSlots /\ len' \in 0..MaxSlots
        BY <1>6, <3>3, <3>8, OneLess
      <3> QED
        BY <1>1, <3>1, <3>2, <3>10, <3>11, <3>12, <3>13 DEF TypeOK
    <2> QED
      BY <2>1, <2>2
  <1>10. OpsOwnSlots' /\ ops' \in [Levels -> OpValues] /\ last' \in [Levels -> KeptValues]
    BY <1>1, <1>2, <1>3, <1>8, <1>9, OwnersKept
  <1>11. TypeOK'
    <2>1. occupied' \subseteq Index /\ reusable' \subseteq Index
      BY <1>9 DEF BitmapsAgree
    <2>2. gone' \subseteq made' /\ made' \subseteq Refs
      BY <1>1, <1>2, <1>4 DEF TypeOK
    <2> QED
      BY <1>1, <1>2, <1>9, <1>10, <2>1, <2>2 DEF TypeOK
  <1> QED
    BY <1>2, <1>3, <1>9, <1>10, <1>11 DEF IInv

LEMMA InvStartFinalizers ==
    ASSUME IInv, StartFinalizers
    PROVE  IInv' /\ made' = made /\ Valid' = Valid
  <1>1. TypeOK /\ OpsOwnSlots /\ 1 \in Levels /\ 2 \in Levels
    BY DEF IInv, Levels
  <1>2. /\ ~finalizing /\ finalizing' = TRUE
        /\ UNCHANGED <<slots, len, scanEnd, occupied, reusable, pages, nextToken, last, made, gone>>
    BY DEF StartFinalizers, slotVars
  <1>3. Valid' = Valid
    BY <1>2 DEF Valid, Resolves
  <1>4. BitmapsAgree' /\ TokensUnique' /\ ResolvesExactly'
    BY <1>2, <1>3 DEF IInv, BitmapsAgree, TokensUnique, ResolvesExactly, PagesFor
  <1>5. ops[2] = NoOp /\ last[2] = NoOp
    BY <1>1, <1>2 DEF OpsOwnSlots
  <1>6. /\ ops' \in [Levels -> OpValues] /\ ops'[2] = NoOp
        /\ ops'[1] # NoOp => /\ ops[1] # NoOp /\ ops'[1].ref = ops[1].ref /\ ops'[1].prev = ops[1].prev
                             /\ ops'[1].free = ops[1].free /\ ops'[1].ran
    <2>1. CASE ops[1] = NoOp
      BY <1>1, <1>5, <2>1 DEF StartFinalizers, TypeOK
    <2>2. CASE ops[1] # NoOp
      <3> DEFINE b == TRUE
                 o == Op(ops[1].ref, ops[1].free, ops[1].prev, b)
      <3>1. ops' = [ops EXCEPT ![1] = o] /\ b \in BOOLEAN
        BY <2>2 DEF StartFinalizers
      <3>2. b
        OBVIOUS
      <3> HIDE DEF b
      <3>3. ops[1].ref \in Refs /\ ops[1].free \in BOOLEAN /\ ops[1].prev \in 0..MaxSlots
        BY <1>1, <2>2, OpShape
      <3>4. o \in OpValues /\ o.ref = ops[1].ref /\ o.prev = ops[1].prev /\ o.free = ops[1].free /\ o.ran = b
        BY <3>1, <3>3, OpFields
      <3> HIDE DEF o
      <3> QED
        BY <1>1, <1>5, <2>2, <3>1, <3>2, <3>4 DEF TypeOK, Levels
    <2> QED
      BY <2>1, <2>2
  <1>7. TypeOK'
    BY <1>1, <1>2, <1>6 DEF TypeOK
  <1>8. OpsOwnSlots'
    <2>1. \A l \in Levels : ops'[l] # NoOp =>
             /\ ops'[l].ref \in Valid'
             /\ ops'[l].ref.slot = ops'[l].prev + 1 => ~ops'[l].free /\ ops'[l].ref.gen = 0
             /\ ~ops'[l].free /\ ~ops'[l].ran => ops'[l].ref.slot = len'
      <3>1. ops'[1] # NoOp =>
               /\ ops'[1].ref \in Valid'
               /\ ops'[1].ref.slot = ops'[1].prev + 1 => ~ops'[1].free /\ ops'[1].ref.gen = 0
               /\ ops'[1].ran
        BY <1>1, <1>3, <1>6 DEF OpsOwnSlots
      <3> QED
        BY <1>6, <3>1 DEF Levels
    <2>2. \A l \in Levels : last'[l] # NoOp =>
             /\ last'[l].ref \in made'
             /\ last'[l].ref.slot = last'[l].prev + 1 => last'[l].ref.gen = 0
      BY <1>1, <1>2 DEF OpsOwnSlots
    <2> QED
      BY <1>2, <1>5, <1>6, <2>1, <2>2 DEF OpsOwnSlots
  <1> QED
    BY <1>2, <1>3, <1>4, <1>7, <1>8 DEF IInv

LEMMA InvEndFinalizers ==
    ASSUME IInv, EndFinalizers
    PROVE  IInv' /\ made' = made /\ Valid' = Valid
  <1>1. TypeOK /\ OpsOwnSlots /\ 2 \in Levels
    BY DEF IInv, Levels
  <1>2. /\ ops[2] = NoOp /\ finalizing' = FALSE /\ last' = [last EXCEPT ![2] = NoOp]
        /\ UNCHANGED <<slots, len, scanEnd, occupied, reusable, pages, nextToken, ops, made, gone>>
    BY DEF EndFinalizers, slotVars
  <1>3. Valid' = Valid
    BY <1>2 DEF Valid, Resolves
  <1>4. BitmapsAgree' /\ TokensUnique' /\ ResolvesExactly'
    BY <1>2, <1>3 DEF IInv, BitmapsAgree, TokensUnique, ResolvesExactly, PagesFor
  <1>5. last' \in [Levels -> KeptValues] /\ last'[2] = NoOp /\ \A l \in Levels \ {2} : last'[l] = last[l]
    BY <1>1, <1>2 DEF TypeOK, KeptValues
  <1>6. TypeOK'
    BY <1>1, <1>2, <1>5 DEF TypeOK
  <1>7. OpsOwnSlots'
    BY <1>1, <1>2, <1>3, <1>5 DEF OpsOwnSlots
  <1> QED
    BY <1>2, <1>3, <1>4, <1>6, <1>7 DEF IInv

LEMMA InvStutter ==
    ASSUME IInv, UNCHANGED vars
    PROVE  IInv' /\ made' = made /\ Valid' = Valid
  <1>1. UNCHANGED <<slots, len, scanEnd, occupied, reusable, pages, nextToken, ops, last, finalizing, made, gone>>
    BY DEF vars, slotVars
  <1>2. Valid' = Valid
    BY <1>1 DEF Valid, Resolves
  <1>3. TypeOK'
    BY <1>1 DEF IInv, TypeOK
  <1>4. BitmapsAgree' /\ TokensUnique' /\ ResolvesExactly'
    BY <1>1, <1>2 DEF IInv, BitmapsAgree, TokensUnique, ResolvesExactly, PagesFor
  <1>5. OpsOwnSlots'
    BY <1>1, <1>2 DEF IInv, OpsOwnSlots
  <1> QED
    BY <1>1, <1>2, <1>3, <1>4, <1>5 DEF IInv

---------------------------------------------------------------------------
(* The theorems *)

LEMMA InvInit == Init => IInv
  <1> SUFFICES ASSUME Init PROVE IInv
    OBVIOUS
  <1> USE DEF Init
  <1>1. TypeOK
    <2>1. Absent \in SlotValues /\ NoOp \in OpValues /\ NoOp \in KeptValues
      BY DEF SlotValues, OpValues, KeptValues
    <2>2. slots \in [Index -> SlotValues] /\ ops \in [Levels -> OpValues] /\ last \in [Levels -> KeptValues]
      BY <2>1
    <2>3. /\ len \in 0..MaxSlots /\ scanEnd \in 0..MaxSlots /\ pages \in Nat
          /\ nextToken \in 1..(MaxTokens + 1)
      BY SlotAssumption
    <2> QED
      BY <2>2, <2>3 DEF TypeOK
  <1>2. Valid = {}
    BY DEF Valid
  <1>3. PagesFor(0) = 0
    <2>1. PageSize \in Nat /\ PageSize > 0
      BY SlotAssumption
    <2>2. 0 \div PageSize = 0 /\ 0 % PageSize = 0
      BY <2>1, Z3
    <2> QED
      BY <2>2 DEF PagesFor
  <1>4. \A i \in Index : slots[i].st = "absent" /\ i > 0
    BY DEF Absent, Index
  <1>5. BitmapsAgree
    <2>1. \A i \in Index : slots[i].st # "free" /\ slots[i].st # "occupied" /\ ~(i <= len)
      BY <1>4 DEF Index
    <2>2. pages = PagesFor(len) /\ scanEnd <= len
      BY <1>3
    <2> QED
      BY <1>4, <2>1, <2>2 DEF BitmapsAgree
  <1>6. TokensUnique /\ ResolvesExactly
    BY <1>2, <1>4 DEF TokensUnique, ResolvesExactly
  <1>7. OpsOwnSlots
    BY DEF OpsOwnSlots, Levels
  <1> QED
    BY <1>1, <1>5, <1>6, <1>7 DEF IInv

\* A step of the heap keeps the invariant, and is a step of the abstract
\* specification or leaves its variables alone.
LEMMA StepInv ==
    ASSUME IInv, ~FinalizersMayFail, [Next]_vars
    PROVE  IInv' /\ [Abstract!Next]_<<made, Valid>>
  <1>1. ASSUME NEW c \in Contents \cup {NoContent}, Allocate(c)
        PROVE  IInv' /\ [Abstract!Next]_<<made, Valid>>
    BY <1>1, InvAllocate DEF Abstract!Next, Abstract!New
  <1>2. CASE Refused
    BY <1>2, InvStutter DEF Refused
  <1>3. CASE Done
    BY <1>3, InvDone
  <1>4. CASE Fails
    <2>1. ops[Level].ref \in Refs
      BY <1>4, InvFails DEF IInv, TypeOK, Valid
    <2> QED
      BY <1>4, <2>1, InvFails DEF Abstract!Next, Abstract!Drop
  <1>5. ASSUME NEW r \in made, Reclaim(r)
        PROVE  IInv' /\ [Abstract!Next]_<<made, Valid>>
    <2>1. r \in Refs
      BY DEF IInv, TypeOK
    <2> QED
      BY <1>5, <2>1, InvReclaim DEF Abstract!Next, Abstract!Drop
  <1>6. CASE Unpublish
    <2>1. last[Level].ref \in Refs
      BY <1>6, InvUnpublish DEF IInv, TypeOK, Valid
    <2> QED
      BY <1>6, <2>1, InvUnpublish DEF Abstract!Next, Abstract!Drop
  <1>7. CASE StartFinalizers
    BY <1>7, InvStartFinalizers
  <1>8. CASE EndFinalizers
    BY <1>8, InvEndFinalizers
  <1>9. CASE UNCHANGED vars
    BY <1>9, InvStutter
  <1> QED
    BY <1>1, <1>2, <1>3, <1>4, <1>5, <1>6, <1>7, <1>8, <1>9 DEF Next

\* As long as no collection step fails after it has run finalizers,
\* checked_slot accepts exactly the references of objects that were not given
\* up, and the bitmaps describe the slots.
THEOREM References ==
    ASSUME ~FinalizersMayFail
    PROVE  Spec => [](ResolvesExactly /\ BitmapsAgree)
  <1>1. IInv /\ [Next]_vars => IInv'
    BY StepInv
  <1>2. IInv => ResolvesExactly /\ BitmapsAgree
    BY DEF IInv
  <1> QED
    BY <1>1, <1>2, InvInit, PTL DEF Spec

\* Under the same condition, the inductive invariant that a run checks holds for
\* every number of slots, generations and words of the bitmap.
THEOREM SlotInvariant ==
    ASSUME ~FinalizersMayFail
    PROVE  Spec => []IInv
  <1>1. IInv /\ [Next]_vars => IInv'
    BY StepInv
  <1> QED
    BY <1>1, InvInit, PTL DEF Spec

\* Under the same condition, the assertion of allocate_payload_with_charge
\* that the slot it found is free never fails.
THEOREM FoundSlots ==
    ASSUME ~FinalizersMayFail
    PROVE  Spec => []FoundSlotIsFree
  <1>1. IInv /\ [Next]_vars => IInv'
    BY StepInv
  <1>2. IInv => FoundSlotIsFree
    <2> SUFFICES ASSUME IInv PROVE FoundSlotIsFree
      OBVIOUS
    <2>1. TypeOK /\ BitmapsAgree
      BY DEF IInv
    <2>2. Reuses => Candidate \in 1..len /\ slots[Candidate].st = "free" /\ len \in Nat
      BY <2>1, CandidateFacts DEF TypeOK
    <2> QED
      BY <2>2 DEF FoundSlotIsFree
  <1> QED
    BY <1>1, <1>2, InvInit, PTL DEF Spec

\* Under the same condition, the slots implement ObjectIdentity: a reference
\* is made once, is valid from then on until its object is dropped, and never
\* again.
THEOREM Identity ==
    ASSUME ~FinalizersMayFail
    PROVE  Spec => ImplementsIdentity
  <1>1. IInv /\ [Next]_vars => IInv' /\ [Abstract!Next]_<<made, Valid>>
    BY StepInv
  <1>2. Init => Abstract!Init
    BY DEF Init, Abstract!Init, Valid
  <1>3. [Abstract!Next]_<<made, Valid>> => [Abstract!Next]_(Abstract!vars)
    BY DEF Abstract!vars
  <1> QED
    BY <1>1, <1>2, <1>3, InvInit, PTL DEF Spec, ImplementsIdentity, Abstract!Spec

=============================================================================
