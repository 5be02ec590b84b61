SPECIFICATION FairSpec
CONSTANTS
    c1 = c1
    c2 = c2
    Cmds = {c1, c2}
    MaxUnblock = 2
    Environments <- AllEnvironments
INVARIANTS
    ThreadsExclusive
    HandlerClosedSafely
    LockedMeansHeld
PROPERTIES
    WaitsEnd
    RemovalEnds
CHECK_DEADLOCK FALSE
