SPECIFICATION Spec
CONSTANTS
    MaxSockets = 2
    MaxWrappers = 3
    Ids = {1, 2}
    Ports = {1, 2}
    p1 = p1
    Peers = {p1}
INVARIANTS
    StopReachesService
    NotesAreTrue
CHECK_DEADLOCK FALSE
