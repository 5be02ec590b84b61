SPECIFICATION Spec
CONSTANTS
    a = a
    b = b
    Nodes = {a, b}
    MaxConn = 2
    Faults = {"timeout", "openfail", "crash"}
    AccessTypes = {"Implicit and Explicit", "Explicit"}
    Supported = {"OPTIMIZED", "STANDBY", "NON_OPTIMIZED"}
    Lists <- AllLists
SYMMETRY Sym
INVARIANTS
    LockedOwnsOrFenced
    ReportsTruth
    NoStaleWrite
CHECK_DEADLOCK FALSE
