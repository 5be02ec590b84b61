SPECIFICATION Spec
CONSTANTS
    ClusterSectors = 2
    L2Size = 2
    RcSlots = 4
    CacheSize = 1
    FileClusters = 12
    Images <- AllImages
    Requests <- AllRequests
    w1 = w1
    w2 = w2
    Values = {w1, w2}
    MaxCmds = 3
    MaxRestarts = 1
    Faults = {"nospace", "readfail", "writefail", "shortwrite", "inflatefail", "crash"}
SYMMETRY Sym
INVARIANTS
    ImageConsistent
    ReadsReturnWritten
    CachesMatchFile
CHECK_DEADLOCK FALSE
