\* The rollback of an allocation whose collection step ran finalizers and failed.
SPECIFICATION PoolSpec
CONSTANTS
    MaxSlots = 3
    MaxGeneration = 1
    PageSize = 2
    MaxTokens = 4
    Contents = {"a"}
    FinalizersMayFail = TRUE
    Hash <- MCHash
    InitialBuckets = 4
INVARIANT
    FoundSlotIsFree
