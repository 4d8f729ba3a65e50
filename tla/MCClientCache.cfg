SPECIFICATION Spec
CONSTANTS
    Ids = {p1, p2, p3}
    Meta = Meta
    None = None
    MaxVersion = 3
    Procs = {c1}
    Devices = {d1, d2}
    Ops = {"read", "random", "sync", "purge", "score"}
    Torn = FALSE
    RecentKeep = 2
    Attempts = 2
    MaxFaults = 1
INVARIANTS CacheInv WindowIsLatest OneDevice
PROPERTIES Transparent
SYMMETRY CacheSymmetry
CONSTRAINT ThirdIsDrawn
