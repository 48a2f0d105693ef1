\* One call under each policy, with every frame cut in two.
SPECIFICATION FairSpec
CONSTANTS
    Parts = 2
    PipeSize = 1
    BufferSize = 3
    Policies = {"compatibility", "restricted"}
INVARIANTS
    TypeOK
    AnswerIsGenuine
    RequestNeedsEvidence
    RestrictedLeavesNothing
    FollowerIsAnswered
PROPERTIES
    DeadlineEnforced
    ExchangeCompletes
CHECK_DEADLOCK FALSE
