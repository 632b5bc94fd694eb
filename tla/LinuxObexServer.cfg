SPECIFICATION FairSpec
CONSTANTS
    MaxRequests = 3
    MaxChunks = 2
INVARIANTS
    PutIsReceived
    ReferencesBalance
PROPERTY
    RunEnds
CHECK_DEADLOCK FALSE
