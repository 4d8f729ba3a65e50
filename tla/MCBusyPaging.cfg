SPECIFICATION Spec
CONSTANTS
    Ids = {1, 2}
    Clients = {c1}
    Requests = {c1}
    NoHash = NoHash
    Outcomes = {"approved", "rejected"}
    CommitLag = 0
    StampLag = 1
    KeepSeconds = 9
    MaxClock = 2
    MaxVersion = 3
    PageSize = 1
    BusyPaging = TRUE
    EarlyRows = FALSE
    Overlap = FALSE
    SplitPurge = FALSE
    MaxInterrupts = 1
INVARIANTS Covered
