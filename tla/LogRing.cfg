SPECIFICATION FairSpec
CONSTANTS
    LogEntrys = 3
    MaxLogged = 5
INVARIANTS
    LogFaithful
PROPERTIES
    SetupEnds
