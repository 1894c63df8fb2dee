SPECIFICATION Spec
CONSTANTS
    Sizes = {s1}
    BadSize = bad
    NoSize = none
    Callers = {c1, c2}
    Operations = {"snapshot", "activate", "move", "close"}
    Faults = {"cancel"}
    HasSeat = TRUE
    Blind = TRUE
    FrameCap = 0
    MaxWindows = 2
    MaxRevision = 3
    MaxFrames = 0
    MaxRequests = 2
    MaxConnections = 1
SYMMETRY PlaneSymmetry
INVARIANTS
    TypeOK
    CurrentViewIsLive
    CurrentSnapshotIsComplete
    CurrentViewShowsActive
    SeenWindowIsNeverNotFound
    RemovedStaysRemoved
PROPERTIES
    ClientRevisionNeverDrops
    ImplementsSession
CHECK_DEADLOCK FALSE
