SPECIFICATION Spec
CONSTANTS
    Calls = {r1, r2}
    Routes = {"meta"}
    Guarded = {}
    WithBody = {}
    Degrade = {}
    EndpointOf <- MCEndpointOf
    Callers <- KeyHolder
    Keys <- Buckets
    LimitOf <- MCLimitOf
    ReadLimit = 2
    WriteLimit = 2
    NoKey = NoKey
    None = None
    Win = 2
    Second = 2
    Lag = 0
    MaxClock = 4
    Window = 1
    Gaps = {1}
    Scale = 2
    MaxRate = 1
    MaxFresh = 0
    ErrorBytes = 0
    FullBytes = 0
INVARIANTS SlidingQuota
