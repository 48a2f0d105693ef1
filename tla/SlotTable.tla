----------------------------- MODULE SlotTable ------------------------------
(***************************************************************************)
(* The slots of the heap (crates/rivetlua-runtime/src/heap.rs, gc/mod.rs   *)
(* and crates/rivetlua-core/src/value.rs): how an allocation chooses a     *)
(* slot and publishes an object in it, how a failed allocation is rolled   *)
(* back, how an object is reclaimed, and how a reference is checked before *)
(* every use.                                                              *)
(*                                                                         *)
(* The vector Vm::slots is the function slots together with its length     *)
(* len; an index from 1 takes the place of one from 0.  An allocation is   *)
(* one step up to the publication of the object.  The collection step that *)
(* the allocation then runs may reclaim other objects and, when it         *)
(* completes a cycle outside of Lua code, run finalizers, and finalizers   *)
(* allocate.  No allocation made by a finalizer runs the collector, so     *)
(* allocations nest at most two deep: ops[1] is the one of the program,    *)
(* ops[2] the one of a finalizer that runs inside it.                      *)
(***************************************************************************)
EXTENDS Integers, FiniteSets

CONSTANTS
    MaxSlots,           \* bound on the length of Vm::slots
    MaxGeneration,      \* the largest generation (u64::MAX)
    PageSize,           \* slots per word of the bitmaps (64)
    MaxTokens,          \* bound on the number of references made
    Contents,           \* contents of byte strings
    FinalizersMayFail   \* whether starting a finalizer may run out of memory

ASSUME SlotAssumption ==
    /\ MaxSlots \in Nat /\ MaxTokens \in Nat
    /\ MaxGeneration \in Nat \ {0} /\ PageSize \in Nat \ {0}
    /\ FinalizersMayFail \in BOOLEAN

NoContent == "none"       \* the content of an object that is not a string

ASSUME ContentAssumption == NoContent \notin Contents

VARIABLES
    slots,       \* Vm::slots, and what lies beyond its end
    len,         \* Vm::slots.len()
    scanEnd,     \* Vm::gc_scan_end
    occupied,    \* GcState::slot_bits, the occupied bits
    reusable,    \* GcState::slot_bits, the reusable_free bits
    pages,       \* GcState::slot_bits.len()
    nextToken,   \* NEXT_RUNTIME_TOKEN
    ops,         \* the allocations in progress
    last,        \* per level, the object whose publication may still be undone
    finalizing,  \* Vm::finalizer_running
    made,        \* history: the references made
    gone         \* history: the references whose objects were given up

slotVars == <<slots, len, scanEnd, occupied, reusable, pages>>
vars == <<slotVars, nextToken, ops, last, finalizing, made, gone>>

Index == 1..MaxSlots
Levels == {1, 2}
Generations == 0..MaxGeneration
Refs == [slot : Index, gen : Generations, tok : 1..MaxTokens]

\* The values of a slot.  A slot beyond the end of the vector is absent.
Absent == [st |-> "absent"]
Retired == [st |-> "retired"]
FreeSlot(g) == [st |-> "free", gen |-> g]
Occupied(r, c) == [st |-> "occupied", ref |-> r, content |-> c]

NoOp == [st |-> "none"]
\* An allocation whose object is published: whether a free slot was taken,
\* the length of the vector before, and whether finalizers ran since.
Op(r, free, prev, ran) == [st |-> "busy", ref |-> r, free |-> free, prev |-> prev, ran |-> ran]
Kept(r, prev) == [st |-> "kept", ref |-> r, prev |-> prev]

Level == IF finalizing THEN 2 ELSE 1

---------------------------------------------------------------------------
(* References *)

\* checked_slot without the comparison of the token in the reference.
ResolvesByGeneration(r) ==
    /\ r.slot <= len
    /\ slots[r.slot].st = "occupied"
    /\ slots[r.slot].ref.gen = r.gen

\* Vm::checked_slot: the slot is occupied, by this generation, by this very
\* reference.
Resolves(r) ==
    /\ r.slot <= len
    /\ slots[r.slot].st = "occupied"
    /\ slots[r.slot].ref.gen = r.gen
    /\ slots[r.slot].ref = r

Valid == {r \in made : Resolves(r)}

---------------------------------------------------------------------------
(* Allocation *)

MinOf(S) == CHOOSE i \in S : \A j \in S : i <= j

\* The slot an allocation takes: the first reusable one below the scan end,
\* or the one at the scan end, or a new one.
Below == {i \in reusable : i <= scanEnd}
Reuses == Below # {} \/ scanEnd < len
Candidate ==
    IF Below # {} THEN MinOf(Below)
    ELSE IF scanEnd < len THEN scanEnd + 1
    ELSE len + 1

\* The generation of the slot: the one left in a free slot, 0 in a new one.
CandidateGeneration == IF Reuses THEN slots[Candidate].gen ELSE 0

\* make_object_ref if a slot and its generation alone made a reference.
NewRefUntokened == [slot |-> Candidate, gen |-> CandidateGeneration, tok |-> 1]

NewRef == [slot |-> Candidate, gen |-> CandidateGeneration, tok |-> nextToken]

\* allocate_payload_with_charge up to the collection step it runs.  What can
\* fail before the slot is filled leaves no trace.
Publish(c) ==
    /\ Candidate \in Index /\ nextToken <= MaxTokens
    /\ Reuses => slots[Candidate].st = "free"
    /\ nextToken' = nextToken + 1
    /\ slots' = [slots EXCEPT ![Candidate] = Occupied(NewRef, c)]
    /\ len' = IF Reuses THEN len ELSE len + 1
    /\ pages' = IF (Candidate - 1) \div PageSize = pages THEN pages + 1 ELSE pages
    /\ occupied' = occupied \cup {Candidate}
    /\ reusable' = reusable \ {Candidate}
    /\ scanEnd' = IF Candidate > scanEnd THEN Candidate ELSE scanEnd
    /\ made' = made \cup {NewRef}
    /\ ops' = [ops EXCEPT ![Level] = Op(NewRef, Reuses, len, FALSE)]

\* A new allocation, by the program or by a finalizer.
Allocate(c) ==
    /\ ops[Level] = NoOp
    /\ Publish(c)
    /\ last' = [last EXCEPT ![Level] = NoOp]
    /\ UNCHANGED <<finalizing, gone>>

\* An allocation at the end of the heap or of the tokens is refused, and
\* leaves no trace.
Refused ==
    /\ ops[Level] = NoOp
    /\ Candidate \notin Index \/ nextToken > MaxTokens
    /\ UNCHANGED vars

\* The allocation returns the reference.  The caller may still undo it if it
\* cannot publish the object.
Done ==
    /\ ops[Level] # NoOp
    /\ ops' = [ops EXCEPT ![Level] = NoOp]
    /\ last' = [last EXCEPT ![Level] = Kept(ops[Level].ref, ops[Level].prev)]
    /\ UNCHANGED <<slotVars, nextToken, finalizing, made, gone>>

\* Mutant of Retreat: it also passes over retired slots.
RetreatOverRetired(sl, e) == CHOOSE n \in 0..e :
    /\ n > 0 => sl[n].st \notin {"free", "retired"}
    /\ \A i \in (n + 1)..e : sl[i].st \in {"free", "retired"}

\* Vm::retreat_gc_scan_end: free slots at the end are not scanned.
Retreat(sl, e) == CHOOSE n \in 0..e :
    /\ n > 0 => sl[n].st # "free"
    /\ \A i \in (n + 1)..e : sl[i].st = "free"

\* GcState::truncate_slot_pages for n slots.
PagesFor(n) == n \div PageSize + (IF n % PageSize # 0 THEN 1 ELSE 0)

\* rollback_new_object as it would be if it only ever took the bits away.
UndoKeepingBits(o) ==
    /\ IF o.free
       THEN /\ slots' = [slots EXCEPT ![o.ref.slot] = FreeSlot(o.ref.gen)]
            /\ UNCHANGED <<len, pages>>
       ELSE /\ slots' = [slots EXCEPT ![len] = Absent]
            /\ len' = len - 1
            /\ pages' = IF pages > PagesFor(len - 1) THEN PagesFor(len - 1) ELSE pages
    /\ occupied' = {i \in occupied \ {o.ref.slot} : i <= pages' * PageSize}
    /\ reusable' = {i \in reusable : i <= len'}
    /\ scanEnd' = Retreat(slots', IF scanEnd < len' THEN scanEnd ELSE len')

\* Vm::rollback_new_object: the slot becomes free again with its old
\* generation, or the last slot of the vector is removed.
Undo(o) ==
    /\ IF o.free
       THEN /\ slots' = [slots EXCEPT ![o.ref.slot] = FreeSlot(o.ref.gen)]
            /\ UNCHANGED <<len, pages>>
       ELSE /\ slots' = [slots EXCEPT ![len] = Absent]
            /\ len' = len - 1
            /\ pages' = IF pages > PagesFor(len - 1) THEN PagesFor(len - 1) ELSE pages
    /\ occupied' = {i \in occupied \ {o.ref.slot} : i <= pages' * PageSize}
    /\ reusable' = {i \in reusable \cup {o.ref.slot} : i <= len'}
    /\ scanEnd' = Retreat(slots', IF scanEnd < len' THEN scanEnd ELSE len')

\* The allocation fails after the publication: a root or a charge cannot be
\* reserved, or the collection step fails.  A step that ran finalizers fails
\* only if one of them could not be started for lack of memory.
Fails ==
    /\ ops[Level] # NoOp
    /\ ops[Level].ran => FinalizersMayFail
    /\ Undo(ops[Level])
    /\ ops' = [ops EXCEPT ![Level] = NoOp]
    /\ gone' = gone \cup {ops[Level].ref}
    /\ UNCHANGED <<nextToken, last, finalizing, made>>

---------------------------------------------------------------------------
(* Reclaiming *)

InUse == {ops[l].ref : l \in {k \in Levels : ops[k] # NoOp}}

\* Generation::next: a slot whose generations are used up is retired.
NextSlot(g) == IF g < MaxGeneration THEN FreeSlot(g + 1) ELSE Retired

\* Vm::reclaim, on the slots.
Reclaimed(r) == [slots EXCEPT ![r.slot] = NextSlot(r.gen)]

\* Vm::reclaim for an object the collector found dead.
Reclaim(r) ==
    /\ r \in made /\ Resolves(r) /\ r \notin InUse /\ ~finalizing
    /\ slots' = Reclaimed(r)
    /\ occupied' = occupied \ {r.slot}
    /\ reusable' = IF r.gen < MaxGeneration THEN reusable \cup {r.slot} ELSE reusable \ {r.slot}
    /\ scanEnd' = Retreat(slots', scanEnd)
    /\ gone' = gone \cup {r}
    /\ UNCHANGED <<len, pages, nextToken, ops, last, finalizing, made>>

\* The test of rollback_unpublished_created_object: the object is in the last
\* slot, and that slot was appended for it.
Appended(k) == k.ref.slot = k.prev + 1 /\ k.prev + 1 = len

\* Vm::rollback_unpublished_created_object: the object just created cannot be
\* handed to the program; it is reclaimed, and its slot removed if it is the
\* last one and was appended for it.
Unpublish ==
    LET k == last[Level] IN
    /\ k # NoOp /\ ops[Level] = NoOp /\ Resolves(k.ref)
    /\ slots' = IF Appended(k) THEN [Reclaimed(k.ref) EXCEPT ![len] = Absent] ELSE Reclaimed(k.ref)
    /\ len' = IF Appended(k) THEN len - 1 ELSE len
    /\ pages' = IF Appended(k) /\ pages > PagesFor(len - 1) THEN PagesFor(len - 1) ELSE pages
    /\ occupied' = {i \in occupied \ {k.ref.slot} : i <= pages' * PageSize}
    /\ reusable' = {i \in (IF k.ref.gen < MaxGeneration
                           THEN reusable \cup {k.ref.slot}
                           ELSE reusable \ {k.ref.slot}) : i <= len'}
    /\ scanEnd' = Retreat(Reclaimed(k.ref), scanEnd)
    /\ gone' = gone \cup {k.ref}
    /\ last' = [last EXCEPT ![Level] = NoOp]
    /\ UNCHANGED <<nextToken, ops, finalizing, made>>

---------------------------------------------------------------------------
(* Finalizers *)

\* The collection step has completed a cycle and runs finalizers, inside an
\* allocation or called by the host.  The finalized object is still there.
StartFinalizers ==
    /\ ~finalizing /\ Valid \ InUse # {}
    /\ finalizing' = TRUE
    /\ ops' = IF ops[1] = NoOp THEN ops
              ELSE [ops EXCEPT ![1] = Op(@.ref, @.free, @.prev, TRUE)]
    /\ UNCHANGED <<slotVars, nextToken, last, made, gone>>

EndFinalizers ==
    /\ finalizing /\ ops[2] = NoOp
    /\ finalizing' = FALSE
    /\ last' = [last EXCEPT ![2] = NoOp]
    /\ UNCHANGED <<slotVars, nextToken, ops, made, gone>>

---------------------------------------------------------------------------

Init ==
    /\ slots = [i \in Index |-> Absent] /\ len = 0 /\ scanEnd = 0
    /\ occupied = {} /\ reusable = {} /\ pages = 0
    /\ nextToken = 1
    /\ ops = [l \in Levels |-> NoOp] /\ last = [l \in Levels |-> NoOp]
    /\ finalizing = FALSE
    /\ made = {} /\ gone = {}

Next ==
    \/ \E c \in Contents \cup {NoContent} : Allocate(c)
    \/ Refused
    \/ Done
    \/ Fails
    \/ \E r \in made : Reclaim(r)
    \/ Unpublish
    \/ StartFinalizers
    \/ EndFinalizers

Spec == Init /\ [][Next]_vars

---------------------------------------------------------------------------
(* Properties *)

SlotValues ==
    {Absent, Retired} \cup {FreeSlot(g) : g \in Generations}
        \cup {Occupied(r, c) : r \in Refs, c \in Contents \cup {NoContent}}

OpValues ==
    {NoOp} \cup {Op(r, f, n, b) : r \in Refs, f \in BOOLEAN, n \in 0..MaxSlots, b \in BOOLEAN}
KeptValues == {NoOp} \cup {Kept(r, n) : r \in Refs, n \in 0..MaxSlots}

TypeOK ==
    /\ slots \in [Index -> SlotValues]
    /\ len \in 0..MaxSlots /\ scanEnd \in 0..MaxSlots /\ pages \in Nat
    /\ occupied \subseteq Index /\ reusable \subseteq Index
    /\ nextToken \in 1..(MaxTokens + 1)
    /\ ops \in [Levels -> OpValues] /\ last \in [Levels -> KeptValues]
    /\ finalizing \in BOOLEAN
    /\ made \subseteq Refs /\ gone \subseteq made

\* A reference leads to the object it was made for from the publication of
\* the object until the object is reclaimed or its allocation rolled back, and
\* never before or after: neither the reuse of slots, nor rollbacks that give
\* a slot its old generation back, nor removed and appended slots, nor the
\* end of the generations make checked_slot accept a wrong reference or
\* reject a right one.
ResolvesExactly == Valid = made \ gone

\* The assertion of allocate_payload_with_charge on the slot it found through
\* the bitmaps: "the free slot that was found must still be free".
FoundSlotIsFree == Reuses => Candidate <= len /\ slots[Candidate].st = "free"

\* The bitmaps of the collector, its scan end and the vector of slots, which
\* are updated one after the other, describe the same heap: the sweep visits
\* every object, and no slot is lost to allocation but the retired ones.
BitmapsAgree ==
    /\ occupied = {i \in Index : slots[i].st = "occupied"}
    /\ reusable = {i \in Index : slots[i].st = "free"}
    /\ \A i \in Index : slots[i].st = "absent" <=> i > len
    /\ scanEnd <= len
    /\ \A i \in Index : i > scanEnd /\ i <= len => slots[i].st = "free"
    /\ pages = PagesFor(len)

\* Tokens are used once, and an occupied slot holds a reference that was made
\* for it and not given up.
TokensUnique ==
    /\ \A r \in made : r.tok < nextToken
    /\ \A r, q \in made : r.tok = q.tok => r = q
    /\ \A i \in Index : slots[i].st = "occupied" =>
          slots[i].ref \in made \ gone /\ slots[i].ref.slot = i

\* An allocation in progress owns its slot, and that is the last slot if it
\* was appended and no finalizer has run since.  An appended slot is new, so
\* its generation is 0.
OpsOwnSlots ==
    /\ \A l \in Levels : ops[l] # NoOp =>
          /\ ops[l].ref \in Valid
          /\ ops[l].ref.slot = ops[l].prev + 1 => ~ops[l].free /\ ops[l].ref.gen = 0
          /\ ~ops[l].free /\ ~ops[l].ran => ops[l].ref.slot = len
    /\ \A l \in Levels : last[l] # NoOp =>
          /\ last[l].ref \in made
          /\ last[l].ref.slot = last[l].prev + 1 => last[l].ref.gen = 0
    /\ finalizing /\ ops[1] # NoOp => ops[1].ran
    /\ ops[2] # NoOp => finalizing /\ ~ops[2].ran
    /\ last[2] # NoOp => finalizing
    /\ ops[1] # NoOp /\ ops[2] # NoOp => ops[2].ref # ops[1].ref
    /\ ops[1] # NoOp /\ last[2] # NoOp => last[2].ref # ops[1].ref

\* The inductive invariant.
IInv == TypeOK /\ ResolvesExactly /\ BitmapsAgree /\ TokensUnique /\ OpsOwnSlots

\* The slots implement the promise of ObjectIdentity: valid references are
\* the ones that checked_slot accepts.
Abstract == INSTANCE ObjectIdentity WITH valid <- Valid
ImplementsIdentity == Abstract!Spec

=============================================================================
