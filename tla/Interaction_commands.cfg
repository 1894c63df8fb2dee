CONSTANTS
    m1 = m1
    m2 = m2
    shift = shift
    k = k
    Commands = {m1, m2}
    Shift = shift
    Keys = {k}
    Survives = TRUE
    MaxWindows = 1
    MaxRevision = 2
    MaxFaults = 1
    Scenarios <- PairsOfCommands
    Text <- Capital
SPECIFICATION FairSpec
INVARIANTS
    SuccessLeavesNothingHeld
    ActsOnNamedRevision
    SuccessTypedText
PROPERTY CommandReturns
