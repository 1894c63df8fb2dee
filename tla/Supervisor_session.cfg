SPECIFICATION FairSpec
CONSTANTS
    Orphans = {o1}
    EventCap = 1
    Events = {"exit", "stop", "timeout", "fail"}
INVARIANTS
    NoExitIsLost
    OrphanKeepsSession
    ReadinessHasMarker
    OwedCanArrive
PROPERTIES
    ExitEndsSession
    MarkerBecomesReadiness
CHECK_DEADLOCK FALSE
