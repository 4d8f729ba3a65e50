SPECIFICATION Spec
CONSTANTS
    Procs = {p1, p2}
    TwoProcesses = FALSE
    Endpoints = {e1, e2}
    SelfKeys = {k1, k2}
    OperatorKeys = {o1}
    Secrets = {s1}
    None = None
    MaxFaults = 1
INVARIANTS CredInv RestIsKept NoDeadKey
