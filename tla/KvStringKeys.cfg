SPECIFICATION HeapSpec
CONSTANTS
    NSlots = 2
    Regs = {r1}
    Kinds = {"table", "string"}
    WeakModes = {"all"}
    GcModes = {"Incremental"}
    Promote = 2
    MaxKids = 1
    MaxPairs = 2
    MaxOrder = 1
    MaxRefs = 1
    Failures = FALSE
INVARIANTS KvStringKeysKept
