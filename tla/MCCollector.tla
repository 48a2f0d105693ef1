---------------------------- MODULE MCCollector ----------------------------
(* Instances of Collector for TLC.                                         *)
EXTENDS Collector, TLC

\* The VM's root entries are interchangeable.
RegSymmetry == Permutations(Regs)

\* Heaps a script has built between two cycles, for the runs in which the
\* mutator starts from a heap instead of from nothing: slot 1 is a rooted table,
\* slots 1 and 2 may have hash entries and may be weak, the other slots hold
\* anything, and there are at most MaxRefs references in all.
CONSTANT MaxRefs

Refs == 0 .. NSlots
Entries == (Refs \X Refs) \ {<<0, 0>>}
Edges == {<<"kid", s, c>> : s, c \in Slots}
         \cup {<<"pair", s, p>> : s \in {1, 2}, p \in Entries}

HeapInit ==
    /\ kind \in [Slots -> Kinds] /\ kind[1] = "table"
    /\ \E f \in [1 .. MaxRefs -> Edges] : LET E == {f[i] : i \in 1 .. MaxRefs} IN
          /\ kids = [s \in Slots |-> {c \in Slots : <<"kid", s, c>> \in E}]
          /\ pairs = [s \in Slots |-> {p \in Entries : <<"pair", s, p>> \in E}]
          /\ \A s \in Slots : /\ Cardinality(kids[s]) <= MaxKids
                              /\ Cardinality(pairs[s]) <= MaxPairs
                              /\ kind[s] # "table" => kids[s] = {} /\ pairs[s] = {}
                              /\ \A p, q \in pairs[s] : p[1] = q[1] => p = q
    /\ want \in [Slots -> WeakModes \cup {"strong"}]
    /\ \A s \in Slots : pairs[s] = {} => want[s] = "strong"
    /\ regs \in [Regs -> {0, 1}] /\ 1 \in RegObjects
    /\ wmode = [s \in Slots |-> "strong"]
    /\ mode \in GcModes
    /\ age \in [Slots -> IF mode = "Generational" THEN {"Young", "Old"} ELSE {"Young"}]
    /\ survivals = [s \in Slots |-> IF age[s] = "Old" THEN Promote ELSE 0]
    /\ remembered = {s \in Slots : age[s] = "Old" /\ \E c \in Children(s) : age[c] # "Old"}
    /\ remTodo = remembered
    /\ fin = [s \in Slots |-> "Unregistered"]
    /\ order = [s \in Slots |-> 0]
    /\ remarked = [s \in Slots |-> FALSE]
    /\ queue = {}
    /\ running = FALSE
    /\ nextOrder = 0
    /\ phase = "Pause"
    /\ cycle = "Full"
    /\ color = [s \in Slots |-> "White"]
    /\ work = {}
    /\ cap = 0
    /\ growth = [s \in Slots |-> 0]
    /\ rootsTodo = {}
    /\ sweepCur = 0
    /\ ephCur = 0
    /\ stage = "BeforeWeakValues"
    /\ converged = FALSE
    /\ fresh = None
    /\ collecting = "idle"

\* The mutator without allocation: the heap only shrinks.
HeapMutator ==
    \/ \E r \in Regs, o \in Slots : Load(r, o)
    \/ \E r \in Regs : DropRoot(r)
    \/ \E o, c \in Slots : ClearRef(o, c)
    \/ \E o \in RegObjects : \E p \in pairs[o] : RawClear(o, p)
    \/ \E o \in Slots : RegisterFinalizer(o)
    \/ CollectCalled
    \/ CollectReturns

HeapNext == GcStep \/ HeapMutator \/ Finalizing
HeapSpec == HeapInit /\ [][HeapNext]_vars

\* A collection that was asked for goes on until it returns: Vm::collect is a
\* loop over incremental_step.
HeapFairSpec == HeapSpec /\ WF_vars(collecting # "idle" /\ (GcStep \/ CollectReturns))
=============================================================================
