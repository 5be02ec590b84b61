SPECIFICATION FairSpec
CONSTANTS
    c1 = c1
    c2 = c2
    Cmds = {c1, c2}
    Requests <- AllRequests
    NumLbas = 5
    Chunk = 2
    CopyChunk = 2
    MaxWriteSame = 5
INVARIANTS
    DoesWhatItSays
    OneCawWins
    FormattingExact
PROPERTIES
    EveryCommandAnswered
