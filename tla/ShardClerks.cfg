SPECIFICATION FairSpec
CONSTANTS
    c1 = c1
    mck = mck
    Clerk = {c1}
    Mck = mck
    Gid = {100, 101}
    N = 3
    NMasters = 2
    NShards = 2
    Key <- MCKey
    MaxOps = 2
    MaxFaults = 1
INVARIANTS OnceUnlessLost ConfigIsFresh
PROPERTIES ImplementsAtLeastOnce OperationsReturn
CHECK_DEADLOCK FALSE
