SPECIFICATION Spec
CONSTANTS
    CLIs = {c1, c2}
    Containers = {k1, k2}
    None = None
    MaxRefusals = 2
    MaxCrashes = 1
SYMMETRY LifecycleSymmetry
INVARIANTS
    ContainerHasRecord
    UsableWasStarted
    ClosedContainerIsGone
CHECK_DEADLOCK FALSE
