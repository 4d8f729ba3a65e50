SPECIFICATION Spec
CONSTANTS
    Calls = {r1}
    Devices = {d1, d2}
    Codes = {c1}
    Keys = {k1, k2}
    Names = {n1}
    Uses = {1, 2}
    Lifetimes = {0, 1}
    NoRow = NoRow
    StartTime = 2
    MaxClock = 3
    None = None
PROPERTIES AmbiguousRevokesNone
