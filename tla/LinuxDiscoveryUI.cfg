SPECIFICATION FairSpec
CONSTANTS
    d1 = d1
    Devices = {d1}
    MaxServices = 1
    MaxFrames = 3
    MaxItems = 3
    MaxSearches = 3
INVARIANTS
    OneSearch
    Usable
PROPERTY
    WindowCloses
CHECK_DEADLOCK FALSE
