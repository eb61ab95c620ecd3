SPECIFICATION NiosFairSpec
CONSTANTS
    SrLen = 6
    FrameLen = 5
    DataBits = 2
    Digits = 3
    Frames <- MCFrames
    NoFrame <- MCNoFrame
    EdgeCapture = TRUE
    MaxFrames = 2
    FifoDepth = 2
    ReadyLen = 2
    RxLen = 2
INVARIANTS
    ReportShowsData
