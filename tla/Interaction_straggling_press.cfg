CONSTANTS
    m1 = m1
    m2 = m2
    shift = shift
    k = k
    Commands = {m1, m2}
    Shift = shift
    Keys = {k}
    Survives = TRUE
    MaxWindows = 1
    MaxRevision = 1
    MaxFaults = 1
    Scenarios <- ClickBesideWindows
    Text <- Capital
SPECIFICATION Spec
INVARIANTS
    FailureLeavesNothingHeld
