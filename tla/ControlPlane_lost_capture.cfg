SPECIFICATION FairSpec
CONSTANTS
    Sizes = {s1}
    BadSize = bad
    NoSize = none
    Callers = {c1}
    Operations = {"capture", "input"}
    Faults = {"lose"}
    HasSeat = TRUE
    Blind = FALSE
    FrameCap = 0
    MaxWindows = 0
    MaxRevision = 0
    MaxFrames = 0
    MaxRequests = 2
    MaxConnections = 1
PROPERTY LossWakesCapture
CHECK_DEADLOCK FALSE
