SPECIFICATION AllSpec
CONSTANTS
    BufferTime = 1
    BufferTimes = {2}
    KeyFrames = {0, 2}
    FramePeriod = 2
    MaxFrames = 4
    MaxTime = 4
    MaxDepth = 4
    TagTimes = {0, 1, 2}
    UintSize = 5
    MaxTags = 4
    None = None
    Clips = {}
    Buttons = {button}
    Texts = {text}
    MaxCalls = 2
INVARIANTS
    HeldAreDisplayed
    ButtonsLookRight
    FocusWasTold
    ArmedIsListed
    RunningPlays
    TagsAreFound
PROPERTIES
    MouseEventsInOrder
    ImagesAreComplete
CHECK_DEADLOCK FALSE
