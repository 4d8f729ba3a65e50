SPECIFICATION FairSpec
CONSTANTS
    Ids = {1, 2}
    Clients = {c1}
    Requests = {c1, r2}
    NoHash = NoHash
    Outcomes = {"approved", "rejected"}
    CommitLag = 1
    StampLag = 1
    KeepSeconds = 0
    MaxClock = 1
    MaxVersion = 2
    PageSize = 1
    BusyPaging = TRUE
    EarlyRows = TRUE
    Overlap = FALSE
    SplitPurge = TRUE
    MaxInterrupts = 1
INVARIANTS CachedWasPublic
PROPERTIES RoundEnds SnapshotTimeFixed HashCatchesUp
