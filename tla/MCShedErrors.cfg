SPECIFICATION FairSpec
CONSTANTS
    Calls = {r1, r2}
    Routes = {"self", "delta"}
    Guarded = {"self"}
    WithBody = {"self"}
    Degrade = {"delta"}
    EndpointOf <- MCEndpointOf
    Callers <- MCCallers
    Keys <- Buckets
    LimitOf <- MCLimitOf
    ReadLimit = 0
    WriteLimit = 0
    NoKey = NoKey
    None = None
    Win = 1
    Second = 2
    Lag = 0
    MaxClock = 0
    Window = 3
    Gaps = {0, 1, 2}
    Scale = 2
    MaxRate = 1
    MaxFresh = 4
    ErrorBytes = 2
    FullBytes = 2
PROPERTIES SheddingRecovers
