SPECIFICATION Spec
CONSTANTS
    Code <- MCCode
    FrameSize <- MCFrameSize
    MaxVal = 2
    EntrySize = 1
    NativeSize = 1
    Envs = {10, 21}
    AnyTime = FALSE
    Settings <- ResultSettings
INVARIANT NoCrash
CHECK_DEADLOCK FALSE
