SPECIFICATION FairSpec
CONSTANTS
    HeaderLen = 3
    MaxFrameLength = 2
    Lengths <- MCLengths
    MaxFrames = 3
    Cancellable = TRUE
INVARIANTS
    TypeOK
    NothingLostAtEnd
    FailureHasCause
PROPERTIES
    ImplementsChannel
    FramesArrive
CHECK_DEADLOCK FALSE
