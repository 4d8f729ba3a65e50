SPECIFICATION Spec
CONSTANTS
    Ids = {p1}
    Meta = Meta
    None = None
    MaxVersion = 5
    Procs = {c1}
    Devices = {d1, d2}
    Ops = {"read"}
    Torn = TRUE
    RecentKeep = 2
    Attempts = 1
    MaxFaults = 1
PROPERTIES Transparent
