CONSTANTS
    m1 = m1
    m2 = m2
    here = here
    there = there
    Commands = {m1, m2}
    Directories = {here, there}
    Scenarios <- SharedOutput
    Pictures = {p1, p2}
    None = None
    Interval = 2
    StableFor = 4
    Timeout = 6
    FrameCount = 3
    StoredCap = 2
    LastStart = 1
    LastTick = 7
    MaxChanges = 1
    MaxHeld = 0
    MaxFailures = 1
SPECIFICATION Spec
INVARIANT ManifestDescribesFrames
CHECK_DEADLOCK FALSE
