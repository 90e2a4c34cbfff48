CONSTANTS
    QLen = 3
    MaxInd = 9
    SfPerFrame = 2
    Frames = 4
    MibFrames = 2
    MaxMissed = 2
    MaxRequests = 1
SPECIFICATION FrameSpec
INVARIANT
    GnbTimeAcrossWrap
CHECK_DEADLOCK FALSE
