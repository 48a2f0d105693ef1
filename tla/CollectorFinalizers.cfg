SPECIFICATION HeapSpec
CONSTANTS
    NSlots = 2
    Regs = {r1}
    Kinds = {"table", "string"}
    WeakModes = {"all"}
    GcModes = {"Generational"}
    Promote = 1
    MaxKids = 1
    MaxPairs = 2
    MaxOrder = 2
    MaxRefs = 1
    Failures = TRUE
INVARIANTS KvStringKeysKept FinalizerQueue
PROPERTIES FinalizedBeforeFreed
