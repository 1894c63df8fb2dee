SPECIFICATION Spec
CONSTANTS
    CLIs = {c1, c2}
    Containers = {k1, k2}
    None = None
    MaxRefusals = 0
    MaxCrashes = 0
INVARIANT OneApplicationAtATime
CHECK_DEADLOCK FALSE
