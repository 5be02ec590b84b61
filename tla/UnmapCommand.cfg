SPECIFICATION FairSpec
CONSTANTS
    Requests <- AllRequests
    NumLbas = 7
    Word = 16
    Gran = 2
    Align = 0
    MaxLbaCount = 6
    MaxDescCount = 2
INVARIANTS
    UnmapsAsAsked
    OkMeansUnmapped
PROPERTIES
    Answered
