SPECIFICATION Spec
CONSTANTS
    LongModeActive = FALSE
    FrameMax = 8
    ReadSize = 8
    ShortBody = {4, 5, 8}
    LongBody = {}
    MaxFrames = 3
INVARIANTS
    FramesIntact
    OnlyLargeRefused
CHECK_DEADLOCK FALSE
