CONSTANTS
    Sizes = {1, 2}
    FrameCap = 2
    MaxCaptures = 2
    MaxChanges = 1
    MaxFrames = 4
    MaxTimeouts = 1
SPECIFICATION Spec
INVARIANT ReplyNamesOwnFrame
CHECK_DEADLOCK FALSE
