SPECIFICATION Spec
CONSTANTS
    CLIs = {c1}
    Containers = {k1, k2}
    None = None
    MaxRefusals = 0
    MaxCrashes = 1
INVARIANT ClosedLeavesNoContainer
CHECK_DEADLOCK FALSE
