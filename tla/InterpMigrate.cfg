SPECIFICATION FairSpec
CONSTANTS
    Code <- MCCode
    FrameSize <- MCFrameSize
    MaxVal = 2
    EntrySize = 1
    NativeSize = 1
    Envs = {10, 21}
    AnyTime = FALSE
    Settings <- MCSettings
INVARIANTS TypeOK FramesRegistered NoCrash
PROPERTIES SignalObeyed Uninterrupted
CHECK_DEADLOCK FALSE
