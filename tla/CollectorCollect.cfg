SPECIFICATION HeapFairSpec
CONSTANTS
    NSlots = 3
    Regs = {r1}
    Kinds = {"table"}
    WeakModes = {"keys"}
    GcModes = {"Incremental"}
    Promote = 2
    MaxKids = 1
    MaxPairs = 1
    MaxOrder = 0
    MaxRefs = 2
    Failures = FALSE
PROPERTIES
    CollectIsComplete
    CollectReturnsEventually
