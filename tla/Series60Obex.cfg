SPECIFICATION Spec
CONSTANT
    MaxCalls = 3
INVARIANTS
    NothingLost
    LeavesAsFound
CHECK_DEADLOCK FALSE
