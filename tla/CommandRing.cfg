SPECIFICATION FairSpec
CONSTANTS
    i1 = i1
    i2 = i2
    Ids = {i1, i2}
    Size = 5
    MaxLen = 2
    Statuses = {"OK", "RD_ERR"}
    Faults = {"crash", "expire", "badcdb", "otherop"}
    ActionSupported = TRUE
INVARIANTS
    RingConsistent
PROPERTIES
    ImplementsService
    CommandReplied
    FlushTerminates
