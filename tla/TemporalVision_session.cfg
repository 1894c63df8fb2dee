CONSTANTS
    m1 = m1
    m2 = m2
    here = here
    there = there
    Commands = {m1, m2}
    Directories = {here, there}
    Scenarios <- EveryJob
    Pictures = {p1, p2}
    None = None
    Interval = 1
    StableFor = 2
    Timeout = 3
    FrameCount = 3
    StoredCap = 2
    LastStart = 1
    LastTick = 4
    MaxChanges = 1
    MaxHeld = 2
    MaxFailures = 1
SPECIFICATION FairSpec
INVARIANTS
    StableWasStill
    SamplesOnSchedule
    ManifestDescribesFrames
    TimeoutMissesNoExit
PROPERTY CommandEnds
CHECK_DEADLOCK FALSE
