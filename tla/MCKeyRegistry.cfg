SPECIFICATION Spec
CONSTANTS
    Calls = {r1, r2}
    Devices = {d1, d2}
    Codes = {c1, c2}
    Keys = {k1, k2}
    Names = {n1}
    Uses = {1, 2}
    Lifetimes = {1}
    NoRow = NoRow
    StartTime = 2
    MaxClock = 3
    None = None
INVARIANTS Budget KeyInv
SYMMETRY KeySymmetry
PROPERTIES OnlyPutRestores ImplementsInvitations
