\* The heap's slots and the index of short strings: growth, deletion, failed
\* allocations and finalizers that run inside an allocation.
SPECIFICATION PoolSpec
CONSTANTS
    MaxSlots = 3
    MaxGeneration = 1
    PageSize = 2
    MaxTokens = 4
    Contents = {"a", "b", "c"}
    FinalizersMayFail = FALSE
    Hash <- MCHash
    InitialBuckets = 4
INVARIANTS
    IInv
    ResolvesExactly
    FoundSlotIsFree
    EntriesLive
    EntriesFound
    RoomLeft
    IndexedOnce
    PoolInv
PROPERTY
    ImplementsIdentity
