SPECIFICATION FairSpec
CONSTANTS
    MaxRequests = 4
    MaxClients = 2
    MaxChunks = 2
    Nested = TRUE
INVARIANTS TypeOK OwnReply NoFileLeft ConnectionIdCurrent OkMeansWhole
PROPERTIES CallEnds
CHECK_DEADLOCK FALSE
