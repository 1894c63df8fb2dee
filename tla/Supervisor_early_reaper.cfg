SPECIFICATION FairSpec
CONSTANTS
    Orphans = {}
    EventCap = 2
    Events = {"exit"}
PROPERTY NoExitIsMissed
CHECK_DEADLOCK FALSE
