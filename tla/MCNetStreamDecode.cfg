SPECIFICATION Spec
CONSTANTS
    BufferTime = 1
    BufferTimes = {2}
    KeyFrames = {0, 2}
    FramePeriod = 2
    MaxFrames = 3
    MaxTime = 4
    MaxDepth = 4
INVARIANT
    NextToDecode
CHECK_DEADLOCK FALSE
