SPECIFICATION Spec
CONSTANTS
    Calls = {r1, r2}
    Routes = {"register", "self"}
    Guarded = {"self"}
    WithBody = {"register", "self"}
    Degrade = {}
    EndpointOf <- MCEndpointOf
    Callers <- KeyHolder
    Keys <- Buckets
    LimitOf <- MCLimitOf
    ReadLimit = 2
    WriteLimit = 0
    NoKey = NoKey
    None = None
    Win = 2
    Second = 2
    Lag = 1
    MaxClock = 5
    Window = 1
    Gaps = {1}
    Scale = 2
    MaxRate = 1
    MaxFresh = 0
    ErrorBytes = 0
    FullBytes = 0
INVARIANTS AdmissionInv QuotaKept
PROPERTIES OneWindowAtATime RetryAfterHonoured RefusedHadItsShare
SYMMETRY CallSymmetry
