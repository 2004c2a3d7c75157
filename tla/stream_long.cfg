SPECIFICATION Spec
CONSTANTS
    LongModeActive = TRUE
    FrameMax = 8
    ReadSize = 8
    ShortBody = {4}
    LongBody = {5}
    MaxFrames = 2
INVARIANTS
    FramesIntact
CHECK_DEADLOCK FALSE
