SPECIFICATION Spec
CONSTANTS
    Sizes = {s1, s2}
    BadSize = bad
    NoSize = none
    Callers = {c1, c2}
    Operations = {"snapshot", "resize"}
    Faults = {"expire", "close"}
    HasSeat = TRUE
    Blind = FALSE
    FrameCap = 0
    MaxWindows = 1
    MaxRevision = 2
    MaxFrames = 0
    MaxRequests = 2
    MaxConnections = 2
SYMMETRY PlaneSymmetry
INVARIANTS
    ResizeReportsOwnSize
    TimeoutReportsOwnSize
    AnsweredAtMostOnce
CHECK_DEADLOCK FALSE
