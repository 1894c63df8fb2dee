SPECIFICATION FairSpec
CONSTANTS
    CLIs = {c1}
    Containers = {k1, k2, k3}
    None = None
    MaxRefusals = 2
    MaxCrashes = 2
INVARIANTS
    EveryContainerIsNamed
PROPERTIES
    CloseConverges
CHECK_DEADLOCK FALSE
