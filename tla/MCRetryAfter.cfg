SPECIFICATION Spec
CONSTANTS
    Calls = {r1, r2}
    Routes = {"meta"}
    Guarded = {}
    WithBody = {}
    Degrade = {}
    EndpointOf <- MCEndpointOf
    Callers <- KeyHolder
    Keys <- Buckets
    LimitOf <- MCLimitOf
    ReadLimit = 1
    WriteLimit = 1
    NoKey = NoKey
    None = None
    Win = 1
    Second = 2
    Lag = 1
    MaxClock = 2
    Window = 1
    Gaps = {1}
    Scale = 2
    MaxRate = 1
    MaxFresh = 0
    ErrorBytes = 0
    FullBytes = 0
PROPERTIES RefusalSaysWhen
