SPECIFICATION Spec
CONSTANTS
    Ids = {p1}
    Meta = Meta
    None = None
    MaxVersion = 3
    Procs = {c1}
    Devices = {d1, d2}
    Ops = {"read"}
    Torn = FALSE
    RecentKeep = 2
    Attempts = 1
    MaxFaults = 0
INVARIANTS RowHasTag
