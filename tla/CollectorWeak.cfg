SPECIFICATION HeapSpec
CONSTANTS
    NSlots = 3
    Regs = {r1}
    Kinds = {"table", "string"}
    WeakModes = {"keys", "values"}
    GcModes = {"Incremental"}
    Promote = 2
    MaxKids = 1
    MaxPairs = 2
    MaxOrder = 0
    MaxRefs = 2
    Failures = FALSE
INVARIANTS NoDangling
PROPERTIES ClearsOnlyUnreachable
