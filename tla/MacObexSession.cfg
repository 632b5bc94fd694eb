SPECIFICATION FairSpec
CONSTANTS
    MaxRequests = 3
    MaxChunks = 2
    ShortReads = FALSE
INVARIANTS
    PutIsReceived
    AbortedAsAsked
PROPERTIES
    FinishedOnce
    CallEnds
    RunEnds
CHECK_DEADLOCK FALSE
