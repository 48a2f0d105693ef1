SPECIFICATION Spec
CONSTANTS
    NSlots = 2
    Regs = {r1, r2}
    Kinds = {"table"}
    WeakModes = {}
    GcModes = {"Incremental", "Generational"}
    Promote = 2
    MaxKids = 1
    MaxPairs = 0
    MaxOrder = 0
    MaxRefs = 0
    Failures = TRUE
SYMMETRY RegSymmetry
INVARIANTS TypeOK IInv MarkNeverOverflows RollbackNeverFails
