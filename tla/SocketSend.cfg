SPECIFICATION FairSpec
CONSTANTS
    t1 = t1
    t2 = t2
    Senders = {t1, t2}
    Sizes = {1, 3}
    Mtus = {1, 2}
    Room = 2
    Timeouts = {"zero", "some"}
    ShutModes = {"WR", "RD"}
    MaxCalls = 2
INVARIANTS
    EachCallInOrder
PROPERTY
    SendEnds
CHECK_DEADLOCK FALSE
