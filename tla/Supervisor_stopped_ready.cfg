SPECIFICATION Spec
CONSTANTS
    Orphans = {}
    EventCap = 2
    Events = {"stop"}
INVARIANT ProbeReportsDeadProcesses
CHECK_DEADLOCK FALSE
