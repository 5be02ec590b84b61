SPECIFICATION FairSpec
CONSTANTS
    None = None
    MaxPending = 3
    c1 = c1
    c2 = c2
    Cmds = {c1, c2}
    w1 = w1
    Workers = {w1}
    k1 = k1
    k2 = k2
    Callbacks = {k1, k2}
    Faults = {}
    Removals = {"netlink"}
INVARIANTS
    TypeOK
    TrackedOnceOwned
    QueueNotStranded
    EventNotLost
    RemovalOrderly
PROPERTIES
    CommandAnswered
    RemovalTerminates
