CONSTANTS
    r1 = r1
    r2 = r2
    Receivers = {r1, r2}
    Names = {"app", "tool"}
    Payloads <- Contested
    MaxBytes = 4
    MaxFiles = 3
    Nothing = Nothing
    MaxFaults = 1
SPECIFICATION Spec
INVARIANT RefusedIsInvisible
CHECK_DEADLOCK FALSE
