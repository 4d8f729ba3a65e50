SPECIFICATION FairSpec
CONSTANTS
    Ids = {1, 2, 3}
    Asked = 2
    MaxLimit = 1
    MaxPages = 2
    Attempts = 2
    Deadline = 2
    HttpTimeout = 1
    Replies <- SomeReplies
INVARIANTS ListInv NothingSkipped NothingRepeated
PROPERTIES ImplementsRemoteWrite CommandEnds
CHECK_DEADLOCK FALSE
