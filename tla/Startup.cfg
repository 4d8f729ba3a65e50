SPECIFICATION FairSpec
CONSTANTS
    Server = server
    Procs = {server, tool1, tool2}
    Keys = {k1, k2}
    Last = 2
    Scoped = 2
    Free = Free
    MaxCrashes = 2
INVARIANTS StartInv ServesMigrated
PROPERTIES NeverDemoted EventuallyServes
