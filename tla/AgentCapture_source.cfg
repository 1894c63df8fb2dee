CONSTANTS
    Sizes = {1, 2}
    FrameCap = 2
    MaxCaptures = 2
    MaxChanges = 1
    MaxFrames = 4
    MaxTimeouts = 1
SPECIFICATION FairSpec
INVARIANTS
    PictureIsItsOwn
PROPERTY CaptureReturns
CHECK_DEADLOCK FALSE
