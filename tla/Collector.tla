----------------------------- MODULE Collector -----------------------------
(***************************************************************************)
(* The tracing collector of rivetlua-runtime (heap.rs, gc/mod.rs and the   *)
(* weak-table part of table.rs) together with everything that touches its  *)
(* state between two of its steps: the VM and the host allocating, loading *)
(* and storing references, registering and running finalizers, and asking  *)
(* for collections.                                                        *)
(*                                                                         *)
(* An object is the index of the slot that holds it.  One GC action is one *)
(* unit of the budget of Vm::incremental_step, so that the mutator runs    *)
(* between any two units: a superset of what the budgets produce.  The VM  *)
(* is single threaded; what interleaves is the incremental collector with  *)
(* script execution, finalizer callbacks and host calls.                   *)
(***************************************************************************)
EXTENDS Integers, FiniteSets

CONSTANTS
    NSlots,      \* number of heap slots
    Regs,        \* the root entries of the VM (frame registers, host roots, ...)
    Kinds,       \* which kinds of objects scripts allocate, among AllKinds
    WeakModes,   \* which __mode values scripts use, among AllModes
    GcModes,     \* the collector modes the host selects
    Promote,     \* promotion_survivals
    MaxKids,     \* bound: strong fields of one object
    MaxPairs,    \* bound: hash entries of one table
    MaxOrder,    \* bound: finalizer registrations in one behaviour
    Failures     \* TRUE iff a reservation of the ledger may fail

None  == 0
Slots == 1 .. NSlots

AllKinds == {"table", "string"}
AllModes == {"strong", "keys", "values", "all"}
AllGcModes == {"Incremental", "Generational"}

ASSUME ConstAssumption ==
    /\ NSlots \in Nat /\ MaxKids \in Nat /\ MaxPairs \in Nat /\ MaxOrder \in Nat
    /\ Kinds \subseteq AllKinds
    /\ WeakModes \subseteq AllModes
    /\ GcModes \subseteq AllGcModes
    /\ Promote \in Nat \ {0}
    /\ Failures \in BOOLEAN

VARIABLES
    \* the heap: Slot, HeapObject, Table
    kind,        \* "free" or the kind of the object in the slot
    kids,        \* strong fields: metatable, upvalues, children, ...
    pairs,       \* hash part of a table: <<key, value>>, None for a primitive
    want,        \* the __mode that the table's metatable asks for
    wmode,       \* Table::weak_mode, the snapshot the collector works with
    age, survivals,
    \* finalizers
    fin, order, remarked,
    queue,       \* finalizer_queue: entries [obj, ord], served in order of ord
    running,     \* finalizer_running
    nextOrder,   \* finalizer_next_order
    \* GcState
    phase, mode, cycle, color, work,
    cap,         \* work_capacity
    growth,      \* growth_charges: how many entries name the slot
    rootsTodo,   \* roots[root_cursor..]
    remembered,
    remTodo,     \* remembered[remembered_cursor..]
    sweepCur, ephCur, stage, converged,
    \* the mutator
    regs,        \* the object each root entry holds
    fresh,       \* object under construction, held by a temporary root
    collecting   \* progress of a running Vm::collect

objVars == <<kind, kids, pairs, want, wmode>>
ageVars == <<age, survivals>>
finVars == <<fin, order, remarked, queue, running, nextOrder>>
markVars == <<phase, color, work>>
cycleVars == <<mode, cycle, rootsTodo, remTodo, sweepCur, ephCur, stage, converged>>
capVars == <<cap, growth>>
mutVars == <<regs, fresh, collecting>>
vars == <<objVars, ageVars, finVars, markVars, cycleVars, capVars, remembered, mutVars>>

-----------------------------------------------------------------------------
(* Object graph.                                                           *)

occ == {s \in Slots : kind[s] # "free"}

\* gc_scan_end: how many slots there are up to the last one that is not free.
ScanEnd == Cardinality({s \in Slots : \E t \in occ : s <= t})

IsString(s) == s # None /\ kind[s] = "string"
IsObject(s) == s # None /\ kind[s] = "table"

KeysOf(ps) == {p[1] : p \in ps} \ {None}
ValuesOf(ps) == {p[2] : p \in ps} \ {None}

\* Table::trace_children: every reference the object holds, weak or not.
ChildrenIn(ps, s) == kids[s] \cup KeysOf(ps[s]) \cup ValuesOf(ps[s])
Children(s) == ChildrenIn(pairs, s)

\* Table::trace_gc_children: the pairs whose key, and whose value, the table
\* keeps alive by itself.
StrongKeys(s) ==
    KeysOf(CASE wmode[s] \in {"strong", "values"} -> pairs[s]
             [] wmode[s] = "keys" -> {p \in pairs[s] : IsString(p[1])}
             [] wmode[s] = "all"  -> {})

StrongValues(s) ==
    ValuesOf(CASE wmode[s] = "strong" -> pairs[s]
               [] wmode[s] = "keys"   -> {p \in pairs[s] : ~IsObject(p[1])}
               [] wmode[s] \in {"values", "all"} -> {p \in pairs[s] : IsString(p[2])})

StrongChildren(s) == kids[s] \cup StrongKeys(s) \cup StrongValues(s)

White(s) == color[s] = "White"
Whites(S) == {s \in S : White(s)}

QueuedObjects == {e.obj : e \in queue}
RegObjects == {regs[r] : r \in Regs} \ {None}
Roots == RegObjects \cup ({fresh} \ {None}) \cup QueuedObjects

-----------------------------------------------------------------------------
(* gc_mark_slot on each object of S, with the phase set to p afterwards    *)
(* unless a mark pulls the sweep back to propagation.  Outside a cycle it  *)
(* does nothing.                                                           *)

MarkAndSweepOn(S) ==
    /\ color' = [s \in Slots |-> IF s \in S /\ White(s) /\ phase # "Pause"
                                 THEN "Gray" ELSE color[s]]
    /\ work' = IF phase = "Pause" THEN work ELSE work \cup Whites(S)
    /\ UNCHANGED phase
Mark(S) ==
    /\ color' = [s \in Slots |-> IF s \in S /\ White(s) /\ phase # "Pause"
                                 THEN "Gray" ELSE color[s]]
    /\ work' = IF phase = "Pause" THEN work ELSE work \cup Whites(S)
    /\ phase' = IF phase = "Sweep" /\ Whites(S) # {} THEN "Propagate" ELSE phase

\* Marking by the collector itself, which then moves to phase p.
MarkInto(S, p) ==
    /\ color' = [s \in Slots |-> IF s \in S /\ White(s) THEN "Gray" ELSE color[s]]
    /\ work' = work \cup Whites(S)
    /\ phase' = p

-----------------------------------------------------------------------------
(* Slots.                                                                  *)

\* The contents of a slot with no object in it.
EmptySlot(s) ==
    /\ kids' = [kids EXCEPT ![s] = {}]
    /\ pairs' = [pairs EXCEPT ![s] = {}]
    /\ want' = [want EXCEPT ![s] = "strong"]
    /\ wmode' = [wmode EXCEPT ![s] = "strong"]
    /\ age' = [age EXCEPT ![s] = "Young"]
    /\ survivals' = [survivals EXCEPT ![s] = 0]
    /\ fin' = [fin EXCEPT ![s] = "Unregistered"]
    /\ order' = [order EXCEPT ![s] = 0]
    /\ remarked' = [remarked EXCEPT ![s] = FALSE]

\* Vm::reclaim: the slot leaves every list of the collector, then is freed.
Reclaim(s) ==
    /\ kind' = [kind EXCEPT ![s] = "free"]
    /\ EmptySlot(s)
    /\ color' = [color EXCEPT ![s] = "White"]
    /\ work' = work \ {s}
    /\ rootsTodo' = rootsTodo \ {s}
    /\ remembered' = remembered \ {s}
    /\ remTodo' = remTodo \ {s}

-----------------------------------------------------------------------------
(* Vm::incremental_step, one unit of budget per action.                    *)

\* The cycle begin_gc_cycle starts, the debt thresholds left open.
CycleKinds ==
    IF mode = "Incremental" THEN {"Full"} ELSE {"Minor", "Major"}

\* begin_gc_cycle_kind, with snapshot_weak_modes.
BeginCycle(c) ==
    /\ phase = "Pause"
    /\ wmode' = [s \in Slots |-> IF kind[s] = "table" THEN want[s] ELSE wmode[s]]
    /\ color' = [s \in Slots |-> IF c = "Minor" /\ s \in occ /\ age[s] = "Old"
                                 THEN "Black" ELSE "White"]
    /\ work' = {}
    /\ cap' = Cardinality(occ)
    /\ rootsTodo' = Roots
    /\ remTodo' = remembered
    /\ sweepCur' = 0
    /\ ephCur' = 0
    /\ converged' = FALSE
    /\ stage' = "BeforeWeakValues"
    /\ cycle' = c
    /\ phase' = "RootMark"
    /\ UNCHANGED <<kind, kids, pairs, want, ageVars, finVars, mode, growth, remembered,
                   regs, fresh>>

\* One root of the snapshot is marked.
MarkRoot ==
    /\ phase = "RootMark"
    /\ \E r \in rootsTodo :
          /\ rootsTodo' = rootsTodo \ {r}
          /\ MarkInto({r}, phase)
    /\ UNCHANGED <<objVars, ageVars, finVars, mode, cycle, remTodo, sweepCur, ephCur,
                   stage, converged, capVars, remembered, mutVars>>

\* A minor cycle then traces the remembered owners.
TraceRemembered ==
    /\ phase = "RootMark"
    /\ rootsTodo = {}
    /\ cycle = "Minor"
    /\ \E o \in remTodo :
          /\ remTodo' = remTodo \ {o}
          /\ MarkInto({o} \cup StrongChildren(o), phase)
    /\ UNCHANGED <<objVars, ageVars, finVars, mode, cycle, rootsTodo, sweepCur, ephCur,
                   stage, converged, capVars, remembered, mutVars>>

RootsMarked ==
    /\ phase = "RootMark"
    /\ rootsTodo = {}
    /\ cycle = "Minor" => remTodo = {}
    /\ phase' = "Propagate"
    /\ UNCHANGED <<objVars, ageVars, finVars, color, work, cycleVars, capVars, remembered,
                   mutVars>>

\* A gray object is traced and becomes black.
Propagate ==
    /\ phase = "Propagate"
    /\ \E o \in work :
          /\ color' = [s \in Slots |->
                         IF s = o THEN "Black"
                         ELSE IF s \in StrongChildren(o) /\ White(s) THEN "Gray"
                         ELSE color[s]]
          /\ work' = (work \ {o}) \cup Whites(StrongChildren(o))
    /\ UNCHANGED <<objVars, ageVars, finVars, phase, cycleVars, capVars, remembered, mutVars>>

Propagated ==
    /\ phase = "Propagate"
    /\ work = {}
    /\ phase' = "Atomic"
    /\ UNCHANGED <<objVars, ageVars, finVars, color, work, cycleVars, capVars, remembered,
                   mutVars>>

-----------------------------------------------------------------------------
(* step_gc_atomic.                                                         *)

\* Work left by the mutator: propagate again, then rescan the ephemerons.
AtomicResume ==
    /\ phase = "Atomic"
    /\ work # {}
    /\ ephCur' = 0
    /\ phase' = "Propagate"
    /\ UNCHANGED <<objVars, ageVars, finVars, color, work, mode, cycle, rootsTodo, remTodo,
                   sweepCur, stage, converged, capVars, remembered, mutVars>>

\* Table::visit_ephemeron_pairs: values whose key is known to be alive.
EphemeronValues(s) ==
    IF White(s) \/ wmode[s] # "keys" THEN {}
    ELSE ValuesOf({p \in pairs[s] : IsObject(p[1]) => ~White(p[1])})

ScanEphemeronAgain ==
    /\ phase = "Atomic"
    /\ work = {}
    /\ \E s \in occ :
          /\ s > ephCur /\ \A t \in occ : t > ephCur => s <= t
          /\ LET found == Whites(EphemeronValues(s))
             IN  /\ ephCur' = IF EphemeronValues(s) = {} THEN s ELSE 0
                 /\ MarkInto(found, IF EphemeronValues(s) = {} THEN "Atomic" ELSE "Propagate")
    /\ UNCHANGED <<objVars, ageVars, finVars, mode, cycle, rootsTodo, remTodo, sweepCur,
                   stage, converged, capVars, remembered, mutVars>>
ScanEphemeron ==
    /\ phase = "Atomic"
    /\ work = {}
    /\ \E s \in occ :
          /\ s > ephCur /\ \A t \in occ : t > ephCur => s <= t
          /\ LET found == Whites(EphemeronValues(s))
             IN  /\ ephCur' = IF found = {} THEN s ELSE 0
                 /\ MarkInto(found, IF found = {} THEN "Atomic" ELSE "Propagate")
    /\ UNCHANGED <<objVars, ageVars, finVars, mode, cycle, rootsTodo, remTodo, sweepCur,
                   stage, converged, capVars, remembered, mutVars>>

\* The ephemeron scan has reached gc_scan_end.
ScanDone == phase = "Atomic" /\ work = {} /\ \A s \in occ : s <= ephCur

\* In generational mode every live old object is traced again.
OldChildren ==
    IF mode = "Incremental" THEN {}
    ELSE UNION {StrongChildren(s) : s \in {t \in occ : age[t] = "Old" /\ ~White(t)}}

\* Marking S sends an atomic step back to propagation.
BackToPropagate(S) ==
    /\ MarkInto(S, "Propagate")
    /\ ephCur' = 0

RetraceOld ==
    /\ ScanDone
    /\ Whites(OldChildren) # {}
    /\ BackToPropagate(OldChildren)
    /\ UNCHANGED <<objVars, ageVars, finVars, mode, cycle, rootsTodo, remTodo, sweepCur,
                   stage, converged, capVars, remembered, mutVars>>

\* All tracing is done; what follows depends on atomic_finalizer_stage.
Traced == ScanDone /\ Whites(OldChildren) = {}

\* Table::clear_dead_weak_pairs: strings never count as dead.
DeadRef(s) == IsObject(s) /\ White(s)

ClearedLiveValues ==
    [s \in Slots |-> IF wmode[s] \in {"values", "all"}
                     THEN {p \in pairs[s] : ~IsObject(p[2])} ELSE pairs[s]]
ClearedValues ==
    [s \in Slots |-> IF wmode[s] \in {"values", "all"}
                     THEN {p \in pairs[s] : ~DeadRef(p[2])} ELSE pairs[s]]

ClearedKeysOfKv(ps) ==
    [s \in Slots |-> IF wmode[s] = "all" THEN {p \in ps[s] : ~DeadRef(p[1])} ELSE ps[s]]
ClearedKeys(ps) ==
    [s \in Slots |-> IF wmode[s] \in {"keys", "all"}
                     THEN {p \in ps[s] : ~DeadRef(p[1])} ELSE ps[s]]

\* mark_live_weak_string_keys over the pairs ps: kv tables that are not white.
LiveStringKeys(ps) ==
    UNION {KeysOf({p \in ps[s] : IsString(p[1])}) :
              s \in {t \in occ : ~White(t) /\ wmode[t] = "all"}}

\* Stage BeforeWeakValues: dead values leave the weak tables, and the string
\* keys that stay are marked.
ClearWeakValues ==
    /\ Traced
    /\ stage = "BeforeWeakValues"
    /\ Whites(LiveStringKeys(ClearedValues)) # {}
    /\ pairs' = ClearedValues
    /\ stage' = "BeforeSeparation"
    /\ converged' = FALSE
    /\ BackToPropagate(LiveStringKeys(ClearedValues))
    /\ UNCHANGED <<kind, kids, want, wmode, ageVars, finVars, mode, cycle, rootsTodo, remTodo,
                   sweepCur, capVars, remembered, mutVars>>

\* The pairs once the first stage is behind, and whether it needs no more work.
AfterValues == IF stage = "BeforeWeakValues" THEN ClearedValues ELSE pairs

ValuesCleared ==
    /\ Traced
    /\ stage = "BeforeWeakValues" => Whites(LiveStringKeys(ClearedValues)) = {}

\* reserve_finalizer_candidates and separate_dead_finalizers look for these.
DeadFinalizable == {s \in Whites(occ) : fin[s] = "Registered"}

\* Stage BeforeSeparation: dead objects with a finalizer are queued and revived.
Separate ==
    /\ ValuesCleared
    /\ stage # "AfterSeparation"
    /\ DeadFinalizable # {}
    /\ pairs' = AfterValues
    /\ stage' = "AfterSeparation"
    /\ converged' = FALSE
    /\ fin' = [s \in Slots |-> IF s \in DeadFinalizable THEN "Pending" ELSE fin[s]]
    /\ queue' = queue \cup {[obj |-> s, ord |-> order[s]] : s \in DeadFinalizable}
    /\ BackToPropagate(DeadFinalizable)
    /\ UNCHANGED <<kind, kids, want, wmode, ageVars, order, remarked, running, nextOrder,
                   mode, cycle, rootsTodo, remTodo, sweepCur, capVars, remembered, mutVars>>

\* The queue cannot grow: the step fails and the next one tries again.
ReserveCandidatesFails ==
    /\ Failures
    /\ Traced
    /\ stage = "BeforeWeakValues"
    /\ DeadFinalizable # {}
    /\ ephCur' = ScanEnd
    /\ converged' = TRUE
    /\ UNCHANGED <<objVars, ageVars, finVars, markVars, mode, cycle, rootsTodo, remTodo,
                   sweepCur, stage, capVars, remembered, mutVars>>

\* Nothing is left to separate: the dead keys go, and the sweep may begin.
SeparatedAtOnce == ValuesCleared
Separated ==
    /\ ValuesCleared
    /\ stage # "AfterSeparation" => DeadFinalizable = {}

FinalPairs == ClearedKeys(AfterValues)

\* future_gc_age_at: what the object will be once this cycle has ended.
FutureDead(s) == White(s) /\ ~(cycle = "Minor" /\ age[s] = "Old")
FutureOld(s) ==
    /\ ~FutureDead(s)
    /\ \/ age[s] = "Old"
       \/ mode = "Generational" /\ survivals[s] + 1 >= Promote

\* rebuild_remembered_set: the dead children of owners that will be old, and
\* the owners that will be old and have a child that will not.
DeadChildrenIgnored == {}
DeadChildren ==
    IF mode = "Incremental" THEN {}
    ELSE {c \in Slots : /\ FutureDead(c)
                        /\ \E o \in occ : FutureOld(o) /\ c \in ChildrenIn(FinalPairs, o)}
OwnersOfNotYetOld ==
    IF mode = "Incremental" THEN {}
    ELSE {o \in occ : /\ FutureOld(o)
                      /\ \E c \in ChildrenIn(FinalPairs, o) : age[c] # "Old"}
YoungOwners ==
    IF mode = "Incremental" THEN {}
    ELSE {o \in occ : /\ FutureOld(o)
                      /\ \E c \in ChildrenIn(FinalPairs, o) : ~FutureOld(c)}

\* The atomic work is over as far as weak tables and finalizers go.
FinishAtomic(next) ==
    /\ pairs' = FinalPairs
    /\ stage' = "AfterSeparation"
    /\ converged' = (next # "Propagate")
    /\ UNCHANGED <<kind, kids, want, wmode, ageVars, finVars, mode, cycle, rootsTodo, sweepCur,
                   capVars, mutVars>>

\* One dead child is revived and tracing goes on.
RebuildRevives ==
    /\ Separated
    /\ \E c \in DeadChildren : BackToPropagate({c})
    /\ FinishAtomic("Propagate")
    /\ UNCHANGED <<remembered, remTodo>>

RebuildFails ==
    /\ Failures
    /\ Separated
    /\ DeadChildren = {}
    /\ YoungOwners # {}
    /\ ephCur' = ScanEnd
    /\ FinishAtomic("Atomic")
    /\ UNCHANGED <<markVars, remembered, remTodo>>

EnterSweep ==
    /\ Separated
    /\ DeadChildren = {}
    /\ ephCur' = ScanEnd
    /\ phase' = "Sweep"
    /\ remembered' = YoungOwners
    /\ remTodo' = YoungOwners
    /\ FinishAtomic("Sweep")
    /\ UNCHANGED <<color, work>>

-----------------------------------------------------------------------------
(* Sweeping.                                                               *)

Sweepable(s) == White(s) /\ ~(cycle = "Minor" /\ age[s] = "Old")

SweepSlot ==
    /\ phase = "Sweep"
    /\ \E s \in occ :
          /\ s > sweepCur /\ \A t \in occ : t > sweepCur => s <= t
          /\ sweepCur' = s
          /\ IF Sweepable(s)
             THEN Reclaim(s)
             ELSE UNCHANGED <<objVars, ageVars, fin, order, remarked, color, work, rootsTodo,
                              remembered, remTodo>>
    /\ UNCHANGED <<queue, running, nextOrder, phase, mode, cycle, ephCur, stage, converged,
                   capVars, mutVars>>

\* promote_gc_survivors.
Promoted(s) == mode = "Generational" /\ age[s] # "Old" /\ color[s] = "Black"

\* The sweep has reached gc_scan_end: promotion, then GcState::clear_cycle.
EndSweep ==
    /\ phase = "Sweep"
    /\ \A s \in occ : s <= sweepCur
    /\ survivals' = [s \in Slots |-> IF Promoted(s) THEN survivals[s] + 1 ELSE survivals[s]]
    /\ age' = [s \in Slots |-> IF ~Promoted(s) THEN age[s]
                               ELSE IF survivals[s] + 1 >= Promote THEN "Old" ELSE "Survivor"]
    /\ color' = [s \in Slots |-> "White"]
    /\ work' = {}
    /\ rootsTodo' = {}
    /\ remTodo' = remembered
    /\ cap' = 0
    /\ growth' = [s \in Slots |-> 0]
    /\ sweepCur' = 0
    /\ ephCur' = 0
    /\ stage' = "BeforeWeakValues"
    /\ phase' = "Pause"
    /\ collecting' = IF collecting = "full" THEN "done" ELSE collecting
    /\ UNCHANGED <<objVars, finVars, mode, cycle, converged, remembered, regs, fresh>>

-----------------------------------------------------------------------------
(* Driving the collector.  A finalizer that runs blocks every GC step.     *)

\* incremental_step or collect_minor / collect_major start a cycle.
StepBegins ==
    /\ collecting = "idle"
    /\ \E c \in CycleKinds : BeginCycle(c)
    /\ UNCHANGED collecting

\* Vm::collect finishes the current cycle, then runs a full one; the mutator
\* waits for it.
CollectJoinsCycle ==
    /\ collecting = "idle"
    /\ fresh = None
    /\ ~running
    /\ collecting' = IF phase = "Pause" THEN "finish" ELSE "full"
    /\ UNCHANGED <<objVars, ageVars, finVars, markVars, cycleVars, capVars, remembered, regs,
                   fresh>>
CollectCalled ==
    /\ collecting = "idle"
    /\ fresh = None
    /\ ~running
    /\ collecting' = "finish"
    /\ UNCHANGED <<objVars, ageVars, finVars, markVars, cycleVars, capVars, remembered, regs,
                   fresh>>

CollectBegins ==
    /\ collecting = "finish"
    /\ BeginCycle(IF mode = "Generational" THEN "Major" ELSE "Full")
    /\ collecting' = "full"

\* Vm::collect returns, or a reservation made by one of its steps fails and it
\* gives up where it is.
CollectReturns ==
    /\ ~running
    /\ collecting = "done" \/ (Failures /\ collecting # "idle")
    /\ collecting' = "idle"
    /\ UNCHANGED <<objVars, ageVars, finVars, markVars, cycleVars, capVars, remembered, regs,
                   fresh>>

GcStep ==
    /\ ~running
    /\ \/ StepBegins \/ CollectBegins
       \/ MarkRoot \/ TraceRemembered \/ RootsMarked
       \/ Propagate \/ Propagated
       \/ AtomicResume \/ ScanEphemeron \/ RetraceOld
       \/ ClearWeakValues \/ Separate \/ ReserveCandidatesFails
       \/ RebuildRevives \/ RebuildFails \/ EnterSweep
       \/ SweepSlot \/ EndSweep

\* Vm::set_gc_mode.
SetGcMode ==
    /\ phase = "Pause"
    /\ collecting = "idle" /\ fresh = None
    /\ mode' \in GcModes \ {mode}
    /\ remembered' = {}
    /\ remTodo' = {}
    /\ age' = [s \in Slots |-> "Young"]
    /\ survivals' = [s \in Slots |-> 0]
    /\ cycle' = "Full"
    /\ UNCHANGED <<objVars, finVars, markVars, rootsTodo, sweepCur, ephCur, stage, converged,
                   capVars, mutVars>>

-----------------------------------------------------------------------------
(* The mutator: script execution and host calls.  Every reference it holds *)
(* is in a root entry.  It stops while Vm::collect runs and while an       *)
(* allocation is between its temporary root and its return, except for     *)
(* finalizers: a GC step outside script execution runs them at its end.    *)

MutatorRuns == running \/ (collecting = "idle" /\ fresh = None)

\* CallFrame::write, Vm::add_root: the new reference is rooted, and marked,
\* before the entry lets go of the old one.
SetRoot(r, o) ==
    /\ regs' = [regs EXCEPT ![r] = o]
    /\ Mark({o})

\* A reference is copied out of a rooted object, or out of another root.
Load(r, o) ==
    /\ MutatorRuns
    /\ o \in RegObjects \cup UNION {Children(s) : s \in RegObjects}
    /\ o # regs[r]
    /\ SetRoot(r, o)
    /\ UNCHANGED <<objVars, ageVars, finVars, cycleVars, capVars, remembered, fresh, collecting>>

\* Vm::remove_root.
DropRoot(r) ==
    /\ MutatorRuns
    /\ regs[r] # None
    /\ regs' = [regs EXCEPT ![r] = None]
    /\ UNCHANGED <<objVars, ageVars, finVars, markVars, cycleVars, capVars, remembered, fresh,
                   collecting>>

\* During a cycle the work list has room for every object: an allocation that
\* finds it full makes room for one more, and a rollback gives it back.
GrowWorkLate(s) ==
    LET grows == phase # "Pause" /\ Cardinality(occ) > cap
    IN  /\ cap' = IF grows THEN cap + 1 ELSE cap
        /\ growth' = IF grows THEN [growth EXCEPT ![s] = @ + 1] ELSE growth
GrowWork(s) ==
    LET grows == phase # "Pause" /\ Cardinality(occ) >= cap
    IN  /\ cap' = IF grows THEN cap + 1 ELSE cap
        /\ growth' = IF grows THEN [growth EXCEPT ![s] = @ + 1] ELSE growth

ReleaseGrowthAlways(s) ==
    /\ cap' = IF phase # "Pause" THEN cap - 1 ELSE cap
    /\ growth' = IF phase # "Pause" THEN [growth EXCEPT ![s] = @ - 1] ELSE growth
ReleaseGrowth(s) ==
    LET shrinks == phase # "Pause" /\ growth[s] > 0
    IN  /\ cap' = IF shrinks THEN cap - 1 ELSE cap
        /\ growth' = IF shrinks THEN [growth EXCEPT ![s] = @ - 1] ELSE growth

\* allocate_payload_with_charge up to the point where the object is published
\* in the lowest free slot; its fields refer to rooted objects.
Publish(s, k, init) ==
    /\ s \in Slots \ occ /\ \A t \in Slots \ occ : s <= t
    /\ init # {} => k = "table"
    /\ kind' = [kind EXCEPT ![s] = k]
    /\ kids' = [kids EXCEPT ![s] = init]
    /\ GrowWork(s)
    /\ UNCHANGED <<pairs, want, wmode, ageVars, finVars, cycleVars, remembered, collecting>>

Inits == {K \in SUBSET RegObjects : Cardinality(K) <= MaxKids}

\* No collection is due: the caller roots the object at once.
Allocate(s, k, init, r) ==
    /\ MutatorRuns
    /\ Publish(s, k, init)
    /\ SetRoot(r, s)
    /\ UNCHANGED fresh

\* The debt is due: a temporary root holds the object through the GC step.
AllocateAndStep(s, k, init) ==
    /\ collecting = "idle" /\ fresh = None /\ ~running
    /\ Publish(s, k, init)
    /\ fresh' = s
    /\ Mark({s})
    /\ UNCHANGED regs

AllocateReturns(r) ==
    /\ fresh # None /\ ~running
    /\ SetRoot(r, fresh)
    /\ fresh' = None
    /\ UNCHANGED <<objVars, ageVars, finVars, cycleVars, capVars, remembered, collecting>>

\* The GC step failed: remove_unpublished_gc_reference, rollback_new_object.
\* The former could fail too, but only for an object in the remembered set
\* (RollbackNeverFails).
AllocateFails ==
    /\ Failures
    /\ fresh # None /\ ~running
    /\ Reclaim(fresh)
    /\ ReleaseGrowth(fresh)
    /\ fresh' = None
    /\ UNCHANGED <<queue, running, nextOrder, phase, mode, cycle, sweepCur, ephCur, stage,
                   converged, regs, collecting>>

\* The generational half of the write barriers: remember_gc_owner.
Remember(o, S) ==
    LET due == mode = "Generational" /\ age[o] = "Old" /\ \E c \in S : age[c] # "Old"
    IN  /\ remembered' = IF due THEN remembered \cup {o} ELSE remembered
        /\ remTodo' = IF due /\ o \notin remembered THEN remTodo \cup {o} ELSE remTodo

\* write_ref for a strong field.
WriteRef(o, c) ==
    /\ MutatorRuns
    /\ o \in RegObjects /\ c \in RegObjects
    /\ kind[o] = "table"
    /\ c \notin kids[o] /\ Cardinality(kids[o]) < MaxKids
    /\ kids' = [kids EXCEPT ![o] = @ \cup {c}]
    /\ Remember(o, {c})
    /\ Mark(IF color[o] = "Black" THEN {c} ELSE {})
    /\ UNCHANGED <<kind, pairs, want, wmode, ageVars, finVars, mode, cycle, rootsTodo, sweepCur,
                   ephCur, stage, converged, capVars, mutVars>>

\* A strong field is cleared.
ClearRef(o, c) ==
    /\ MutatorRuns
    /\ o \in RegObjects /\ c \in kids[o]
    /\ kids' = [kids EXCEPT ![o] = @ \ {c}]
    /\ UNCHANGED <<kind, pairs, want, wmode, ageVars, finVars, markVars, cycleVars, capVars,
                   remembered, mutVars>>

\* Vm::raw_set with prepare_table_write_barrier_edges: only edges that the
\* snapshot of the weak mode calls strong are marked.
BarrierMarks(o, k, v) ==
    IF color[o] # "Black" THEN {}
    ELSE {c \in {k} \ {None} : wmode[o] \in {"keys", "all"} => IsString(c)}
         \cup {c \in {v} \ {None} : wmode[o] = "strong"}

RawSet(o, k, v) ==
    /\ MutatorRuns
    /\ o \in RegObjects /\ kind[o] = "table"
    /\ k \in RegObjects \cup {None} /\ v \in RegObjects \cup {None}
    /\ ~(k = None /\ v = None)
    /\ <<k, v>> \notin pairs[o]
    /\ LET rest == {p \in pairs[o] : p[1] # k}
           newKey == IF rest = pairs[o] THEN k ELSE None
       IN  /\ Cardinality(rest) < MaxPairs
           /\ pairs' = [pairs EXCEPT ![o] = rest \cup {<<k, v>>}]
           /\ Remember(o, {newKey, v} \ {None})
           /\ Mark(BarrierMarks(o, newKey, v))
    /\ UNCHANGED <<kind, kids, want, wmode, ageVars, finVars, mode, cycle, rootsTodo, sweepCur,
                   ephCur, stage, converged, capVars, mutVars>>

\* An entry is set to nil.
RawClear(o, p) ==
    /\ MutatorRuns
    /\ o \in RegObjects /\ p \in pairs[o]
    /\ pairs' = [pairs EXCEPT ![o] = @ \ {p}]
    /\ UNCHANGED <<kind, kids, want, wmode, ageVars, finVars, markVars, cycleVars, capVars,
                   remembered, mutVars>>

\* The script changes the __mode of the table's metatable; the collector
\* notices at the start of the next cycle.
SetWeakModeAtOnce(o, m) ==
    /\ MutatorRuns
    /\ o \in RegObjects /\ kind[o] = "table" /\ want[o] # m
    /\ want' = [want EXCEPT ![o] = m]
    /\ wmode' = [wmode EXCEPT ![o] = m]
    /\ UNCHANGED <<kind, kids, pairs, ageVars, finVars, markVars, cycleVars, capVars,
                   remembered, mutVars>>
SetWeakMode(o, m) ==
    /\ MutatorRuns
    /\ o \in RegObjects /\ kind[o] = "table" /\ want[o] # m
    /\ want' = [want EXCEPT ![o] = m]
    /\ UNCHANGED <<kind, kids, pairs, wmode, ageVars, finVars, markVars, cycleVars, capVars,
                   remembered, mutVars>>

-----------------------------------------------------------------------------
(* Finalizers.                                                             *)

\* register_finalizer, when setmetatable finds a __gc field.
RegisterRunningAtOnce(o) ==
    /\ MutatorRuns
    /\ nextOrder < MaxOrder
    /\ o \in RegObjects /\ kind[o] = "table"
    /\ fin[o] \in {"Unregistered", "Running", "Finalized"}
    /\ fin' = [fin EXCEPT ![o] = "Registered"]
    /\ order' = [order EXCEPT ![o] = nextOrder]
    /\ nextOrder' = nextOrder + 1
    /\ UNCHANGED <<objVars, ageVars, remarked, queue, running, markVars, cycleVars, capVars,
                   remembered, mutVars>>
RegisterFinalizer(o) ==
    /\ MutatorRuns
    /\ nextOrder < MaxOrder
    /\ o \in RegObjects /\ kind[o] = "table"
    /\ \/ /\ fin[o] \in {"Unregistered", "Finalized"}
          /\ fin' = [fin EXCEPT ![o] = "Registered"]
          /\ UNCHANGED remarked
       \/ /\ fin[o] = "Running" /\ ~remarked[o]
          /\ remarked' = [remarked EXCEPT ![o] = TRUE]
          /\ UNCHANGED fin
    /\ order' = [order EXCEPT ![o] = nextOrder]
    /\ nextOrder' = nextOrder + 1
    /\ UNCHANGED <<objVars, ageVars, queue, running, markVars, cycleVars, capVars, remembered,
                   mutVars>>

\* pending_finalizer serves the entry registered last.
IsLast(e) == e \in queue /\ \A d \in queue : d.ord <= e.ord

\* start_finalizer, the object becoming an argument of the callback.  Script
\* execution starts it between two instructions; a GC step outside script
\* execution, in an allocation or in Vm::collect, once the cycle is over.  A callback that cannot be set
\* up leaves the state as it was (pause_finalizer_start).
StartFinalizer(e, r) ==
    /\ ~running
    /\ collecting # "idle" \/ fresh # None => phase = "Pause"
    /\ IsLast(e)
    /\ fin[e.obj] = "Pending"
    /\ fin' = [fin EXCEPT ![e.obj] = "Running"]
    /\ running' = TRUE
    /\ SetRoot(r, e.obj)
    /\ UNCHANGED <<objVars, ageVars, order, remarked, queue, nextOrder, cycleVars, capVars,
                   remembered, fresh, collecting>>

\* finish_finalizer: an object registered again by its finalizer waits for its
\* next death.
FinishFinalizer(e) ==
    /\ running
    /\ IsLast(e)
    /\ fin' = [fin EXCEPT ![e.obj] = IF remarked[e.obj] THEN "Registered" ELSE "Finalized"]
    /\ remarked' = [remarked EXCEPT ![e.obj] = FALSE]
    /\ queue' = queue \ {e}
    /\ running' = FALSE
    /\ UNCHANGED <<objVars, ageVars, order, nextOrder, markVars, cycleVars, capVars, remembered,
                   mutVars>>

Finalizing ==
    \E e \in queue :
        \/ \E r \in Regs : StartFinalizer(e, r)
        \/ FinishFinalizer(e)

Mutator ==
    \/ \E r \in Regs, o \in Slots : Load(r, o)
    \/ \E r \in Regs : DropRoot(r)
    \/ \E s \in Slots, k \in Kinds, init \in Inits, r \in Regs : Allocate(s, k, init, r)
    \/ \E s \in Slots, k \in Kinds, init \in Inits : AllocateAndStep(s, k, init)
    \/ \E r \in Regs : AllocateReturns(r)
    \/ AllocateFails
    \/ \E o, c \in Slots : WriteRef(o, c)
    \/ \E o, c \in Slots : ClearRef(o, c)
    \/ \E o \in Slots, k, v \in Slots \cup {None} : RawSet(o, k, v)
    \/ \E o \in RegObjects : \E p \in pairs[o] : RawClear(o, p)
    \/ \E o \in Slots, m \in WeakModes : SetWeakMode(o, m)
    \/ \E o \in Slots : RegisterFinalizer(o)
    \/ SetGcMode
    \/ CollectCalled
    \/ CollectReturns

Next == GcStep \/ Mutator \/ Finalizing

Init ==
    /\ kind = [s \in Slots |-> "free"]
    /\ kids = [s \in Slots |-> {}]
    /\ pairs = [s \in Slots |-> {}]
    /\ want = [s \in Slots |-> "strong"]
    /\ wmode = [s \in Slots |-> "strong"]
    /\ age = [s \in Slots |-> "Young"]
    /\ survivals = [s \in Slots |-> 0]
    /\ fin = [s \in Slots |-> "Unregistered"]
    /\ order = [s \in Slots |-> 0]
    /\ remarked = [s \in Slots |-> FALSE]
    /\ queue = {}
    /\ running = FALSE
    /\ nextOrder = 0
    /\ phase = "Pause"
    /\ mode \in GcModes
    /\ cycle = "Full"
    /\ color = [s \in Slots |-> "White"]
    /\ work = {}
    /\ cap = 0
    /\ growth = [s \in Slots |-> 0]
    /\ rootsTodo = {}
    /\ remembered = {}
    /\ remTodo = {}
    /\ sweepCur = 0
    /\ ephCur = 0
    /\ stage = "BeforeWeakValues"
    /\ converged = FALSE
    /\ regs = [r \in Regs |-> None]
    /\ fresh = None
    /\ collecting = "idle"

Spec == Init /\ [][Next]_vars

-----------------------------------------------------------------------------
(* Type invariant.                                                         *)

Colors == {"White", "Gray", "Black"}
FinalizerStates == {"Unregistered", "Registered", "Pending", "Running", "Finalized"}

ObjTypes ==
    /\ kind \in [Slots -> AllKinds \cup {"free"}]
    /\ kids \in [Slots -> SUBSET Slots]
    /\ pairs \in [Slots -> SUBSET ((Slots \cup {None}) \X (Slots \cup {None}))]
    /\ want \in [Slots -> AllModes] /\ wmode \in [Slots -> AllModes]

AgeTypes ==
    /\ age \in [Slots -> {"Young", "Survivor", "Old"}]
    /\ survivals \in [Slots -> Nat]

FinTypes ==
    /\ fin \in [Slots -> FinalizerStates]
    /\ order \in [Slots -> Nat]
    /\ remarked \in [Slots -> BOOLEAN]
    /\ queue \subseteq [obj : Slots, ord : Nat]
    /\ running \in BOOLEAN
    /\ nextOrder \in Nat

MarkTypes ==
    /\ phase \in {"Pause", "RootMark", "Propagate", "Atomic", "Sweep"}
    /\ color \in [Slots -> Colors]
    /\ work \subseteq Slots

CycleTypes ==
    /\ mode \in GcModes
    /\ cycle \in {"Full", "Minor", "Major"}
    /\ rootsTodo \subseteq Slots
    /\ remembered \subseteq Slots /\ remTodo \subseteq Slots
    /\ sweepCur \in Nat /\ ephCur \in Nat
    /\ stage \in {"BeforeWeakValues", "BeforeSeparation", "AfterSeparation"}
    /\ converged \in BOOLEAN

CapTypes == cap \in Int /\ growth \in [Slots -> Nat]

MutTypes ==
    /\ regs \in [Regs -> Slots \cup {None}]
    /\ fresh \in Slots \cup {None}
    /\ collecting \in {"idle", "finish", "full", "done"}

\* The variables have the types of the fields they stand for.
TypeOK ==
    ObjTypes /\ AgeTypes /\ FinTypes /\ MarkTypes /\ CycleTypes /\ CapTypes /\ MutTypes

-----------------------------------------------------------------------------
(* What the program may rely on.                                           *)

\* Once the atomic step is through, what it left unmarked is condemned: the
\* sweep frees it, in the order of the slots, with the mutator in between.
Sealed == converged /\ stage = "AfterSeparation"
Condemned == IF Sealed THEN {s \in occ : Sweepable(s)} ELSE {}
Live == occ \ Condemned

\* No slot is freed, reused or rolled back while the program can still get at
\* it: the roots, the finalizer queue and every reference in an object that is
\* not condemned, weak or strong, lead to such objects (checked_slot would
\* otherwise answer StaleObject).  So do the lists the collector walks.
NoDangling ==
    /\ Roots \subseteq Live
    /\ \A s \in Live : Children(s) \subseteq Live
    /\ rootsTodo \cup work \subseteq Live
    /\ remTodo \subseteq remembered /\ remembered \subseteq occ

\* A mark never overflows the work list (the AllocationFailed of gc_mark_slot):
\* the capacity reserved for the cycle, grown by the allocations in it and
\* shrunk by their rollbacks, covers the whole heap.
MarkNeverOverflows == phase # "Pause" => Cardinality(occ) <= cap

\* A failed allocation can always be rolled back: the GC step in it may run a
\* cycle to its end and make the new object old, but never puts it into the
\* remembered set, which remove_unpublished_gc_reference would have to copy into
\* memory it may not get: what the object refers to is at least as old as it.
RollbackNeverFails == fresh \notin remembered

\* finalizer_queue holds exactly the objects that are Pending or Running, each
\* once, under the order of its registration; the one that runs is served
\* last-registered-first, and no two registrations share an order.
FinalizerQueue ==
    /\ \A s \in Slots : fin[s] \in {"Pending", "Running"} <=> s \in QueuedObjects
    /\ \A d, e \in queue : d.obj = e.obj \/ d.ord = e.ord => d = e
    /\ \A e \in queue : e.ord < nextOrder
    /\ \A s \in Slots : fin[s] = "Registered" =>
          order[s] < nextOrder /\ \A e \in queue : e.ord # order[s]
    /\ running <=> \E e \in queue : IsLast(e) /\ fin[e.obj] = "Running"
    /\ \A d, e \in queue : fin[d.obj] = "Running" /\ fin[e.obj] = "Running" => d = e

\* An object with a finalizer to run is not freed before the finalizer ran:
\* neither while Registered, nor while it waits in the queue, nor while it runs.
FinalizedBeforeFreed ==
    [][\A s \in Slots : fin[s] \in {"Registered", "Pending", "Running"}
                          => kind'[s] = kind[s]]_vars

\* What the roots keep alive: strong references, ephemeron values whose key is
\* alive, and the string keys that stay in weak tables.
ReachStep(R) ==
    R \cup (UNION {StrongChildren(s) : s \in R})
      \cup (UNION {KeysOf({p \in pairs[s] : IsString(p[1])}) : s \in R})
      \cup (UNION {ValuesOf({p \in pairs[s] : IsObject(p[1]) => p[1] \in R}) :
                      s \in {t \in R : wmode[t] = "keys"}})
Reachable ==
    LET reach[n \in 0 .. NSlots] == IF n = 0 THEN Roots ELSE ReachStep(reach[n - 1])
    IN  reach[NSlots]

\* The collector takes an entry out of a weak table only for an object that
\* nothing strong leads to: clear_dead_weak_pairs never loses an entry that the
\* program could still look up by its key and value.
ClearsOnlyUnreachable ==
    [][phase = "Atomic" =>
         \A s \in occ : \A p \in pairs[s] \ pairs'[s] :
             \/ MutatorRuns /\ UNCHANGED color /\ UNCHANGED stage /\ s \in RegObjects
             \/ \E x \in {p[1], p[2]} : IsObject(x) /\ x \notin Reachable]_vars

\* The full cycle of Vm::collect leaves exactly what is reachable: no floating
\* garbage survives it, whatever cycle had to be finished first.  (The key of an
\* entry that goes because of its weak value is strong, so that it survives the
\* cycle: the statement is about VMs whose tables are strong or ephemerons.)
CollectIsComplete ==
    [][collecting = "full" /\ collecting' = "done" => occ' = Reachable']_vars

\* Vm::collect returns: propagation, ephemeron rescans and the stages of the
\* atomic step do not send each other round in circles.
CollectReturnsEventually == collecting = "finish" ~> collecting = "idle"

\* The string keys of a live kv table are kept for as long as their entry is in
\* the table (the comment on Table::visit_live_weak_string_keys).
KvStringKeysKept ==
    \A s \in Live : wmode[s] = "all" =>
        {k \in KeysOf(pairs[s]) : kind[k] # "table"} \subseteq Live

-----------------------------------------------------------------------------
(* Why NoDangling holds: the parts of an inductive invariant.              *)

Marked(s) == color[s] # "White"

\* What a slot without an object, and a string, look like; only the kinds and
\* modes that scripts use occur.
SlotShape ==
    \A s \in Slots :
        /\ kind[s] \in Kinds \cup {"free"}
        /\ want[s] \in WeakModes \cup {"strong"} /\ wmode[s] \in WeakModes \cup {"strong"}
        /\ kind[s] # "table" => kids[s] = {} /\ pairs[s] = {}
        /\ kind[s] = "free" => /\ color[s] = "White" /\ wmode[s] = "strong"
                               /\ fin[s] = "Unregistered"

\* The work list holds the gray objects; between cycles all is white.
WorkIsGray ==
    /\ work = {s \in Slots : color[s] = "Gray"}
    /\ phase = "Pause" => \A s \in Slots : color[s] = "White"
    /\ phase = "Sweep" => work = {}

\* How phase, stage, cursors and cycle kind go together.
Control ==
    /\ phase \in {"Pause", "RootMark"} => stage = "BeforeWeakValues" /\ ephCur = 0
    /\ phase = "Propagate" => ephCur = 0 \/ Sealed
    /\ phase = "Sweep" => Sealed
    /\ phase # "RootMark" => rootsTodo = {}
    /\ sweepCur > 0 => Sealed
    /\ phase # "Pause" /\ cycle = "Minor" =>
          /\ mode = "Generational"
          /\ \A s \in occ : age[s] = "Old" => Marked(s)
    /\ running /\ (collecting # "idle" \/ fresh # None) => phase = "Pause"
    /\ collecting # "idle" => fresh = None

\* Every root is marked, or is about to be.
RootsCovered ==
    /\ phase = "RootMark" => \A s \in Roots : Marked(s) \/ s \in rootsTodo
    /\ phase \in {"Propagate", "Atomic", "Sweep"} => \A s \in Roots : Marked(s)

\* An object a minor cycle took for black without tracing it.
Untraced(s) == cycle = "Minor" /\ age[s] = "Old"

\* No black object that was traced points to a white one.
TriColor ==
    phase # "Pause" => \A s \in occ : color[s] = "Black" /\ ~Untraced(s) =>
        /\ phase # "RootMark"
        /\ \A c \in StrongChildren(s) : Marked(c)

\* Cleared weak values stay cleared until the heap is sealed.
WeakValuesCleared ==
    stage # "BeforeWeakValues" /\ ~Sealed =>
        \A s \in occ : wmode[s] \in {"values", "all"} =>
            \A p \in pairs[s] : ~DeadRef(p[2])

\* The ephemeron scan has propagated life through every table it has passed.
EphemeronsScanned ==
    phase = "Atomic" /\ work \subseteq {fresh} /\ ~Sealed =>
        \A s \in occ : s <= ephCur /\ Marked(s) /\ wmode[s] = "keys" =>
            \A p \in pairs[s] :
                (IsObject(p[1]) => Marked(p[1])) /\ p[2] # None => Marked(p[2])

\* Nothing refers to an object under construction, and what the sweep has
\* passed is alive.
FreshUnknown ==
    fresh # None => /\ fresh \notin RegObjects \cup QueuedObjects
                    /\ fin[fresh] = "Unregistered"
                    /\ \A s \in Live : fresh \notin Children(s)
SweptIsLive == \A s \in occ : s <= sweepCur => Marked(s)

\* Separated finalizers: no condemned object has one to run.
FinalizersSeparated ==
    stage = "AfterSeparation" => \A s \in occ : fin[s] = "Registered" => Marked(s)
QueueIsPending == \A s \in Slots : fin[s] \in {"Pending", "Running"} => s \in QueuedObjects

IInv ==
    /\ TypeOK /\ SlotShape /\ WorkIsGray /\ Control /\ RootsCovered /\ TriColor
    /\ WeakValuesCleared /\ EphemeronsScanned /\ FreshUnknown /\ SweptIsLive
    /\ FinalizersSeparated /\ QueueIsPending /\ NoDangling

=============================================================================
