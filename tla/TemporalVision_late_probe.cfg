CONSTANTS
    m1 = m1
    m2 = m2
    here = here
    there = there
    Commands = {m1, m2}
    Directories = {here, there}
    Scenarios <- StableWait
    Pictures = {p1, p2}
    None = None
    Interval = 2
    StableFor = 3
    Timeout = 5
    FrameCount = 3
    StoredCap = 2
    LastStart = 1
    LastTick = 6
    MaxChanges = 1
    MaxHeld = 0
    MaxFailures = 1
SPECIFICATION Spec
INVARIANT ProbesOnDeadline
CHECK_DEADLOCK FALSE
