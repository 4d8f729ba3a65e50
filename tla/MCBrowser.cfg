SPECIFICATION Spec
CONSTANTS
    Calls = {r1, r2}
    Ids = {i1, i2}
    Texts = {t1, t1b, t2}
    Digests = {t1, t2}
    Clients = {c1, c2}
    Devices = {}
    Values = {}
    Outcomes = {"approved", "rejected"}
    None = None
    NoPrompt = NoPrompt
    t1 = t1
    t1b = t1b
    t2 = t2
    c1 = c1
    c2 = c2
    DigestOf <- MCDigestOf
    Submissions <- FromBrowser
INVARIANTS AcceptedIsStored
SYMMETRY StoreSymmetry
