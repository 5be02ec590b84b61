SPECIFICATION Spec
CONSTANTS
    Configs <- AllConfigs
    DefaultZoneSize = 1024
    DefaultOpenNum = 3
    AddrMod = 32
    Lbas = {0, 2, 3, 4, 31}
    Iovs <- AllIovs
    Allocs = {0, 1, 3}
    Ros = {"ALL", "EMPTY", "bad"}
    Faults = {"io", "crash"}
INVARIANTS
    ZonesConsistent
    ReadsReturnWritten
    ReportsExact

    
