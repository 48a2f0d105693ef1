SPECIFICATION Spec
CONSTANTS
    NSlots = 2
    Regs = {r1, r2}
    Kinds = {"table"}
    WeakModes = {"strong", "keys"}
    GcModes = {"Incremental"}
    Promote = 2
    MaxKids = 0
    MaxPairs = 1
    MaxOrder = 0
    MaxRefs = 0
    Failures = FALSE
SYMMETRY RegSymmetry
INVARIANTS IInv
