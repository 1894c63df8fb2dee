SPECIFICATION FairSpec
CONSTANTS
    Sizes = {s1}
    BadSize = bad
    NoSize = none
    Callers = {c1, c2}
    Operations = {"capture", "input"}
    Faults = {"lose", "close", "expire"}
    HasSeat = TRUE
    Blind = FALSE
    FrameCap = 2
    MaxWindows = 0
    MaxRevision = 0
    MaxFrames = 2
    MaxRequests = 2
    MaxConnections = 2
INVARIANT FrameFollowsAuthorization
PROPERTY SendReturns
CHECK_DEADLOCK FALSE
