SPECIFICATION Spec
CONSTANTS
    None = None
    MaxPending = 3
    c1 = c1
    c2 = c2
    Cmds = {c1, c2}
    Workers = {}
    k1 = k1
    k2 = k2
    Callbacks = {k1, k2}
    Faults = {"expire", "nomem", "pollerror", "spurious"}
    Removals = {"netlink", "shutdown"}
SYMMETRY Symmetry
INVARIANTS
    WakeupsExact
CHECK_DEADLOCK FALSE
