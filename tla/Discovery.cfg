SPECIFICATION FairSpec
CONSTANTS
    d1 = d1
    d2 = d2
    Devices = {d1, d2}
    Services = {"serial", "push", "audio"}
    Names = {"serial"}
    MaxCalls = 2
    MaxChanges = 1
    EarlyCallbacks = FALSE
INVARIANTS
    ServicesCurrent
    NameCurrent
    InquiryOver
PROPERTY
    FindEnds
CHECK_DEADLOCK FALSE
