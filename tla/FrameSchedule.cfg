CONSTANTS
    QLen = 3
    MaxInd = 9
    SfPerFrame = 2
    Frames = 4
    MibFrames = 2
    MaxMissed = 2
    MaxRequests = 2
SPECIFICATION FrameFairSpec
INVARIANTS
    FrameTypeOK
    TicksCounted
    GnbTime
    OutputReady
PROPERTY
    DecodingEnds
CHECK_DEADLOCK FALSE
