CONSTANTS
    Value = {v1, v2}
    OffsetNTSC = 0
    ResNTSC = 2
    OffsetPAL = 2
    ResPAL = 2
    VStart = {0, 1, 2, 3, 4, 5, 6}
    MaxLine = 5
    None = None
    CountLimit = 9
    MaxAge = 4
    ScanWidth = 7
    GuardLeft = 2
    GuardRight = 1
    One = 4
    VideoBytes = 256
SPECIFICATION ViSpec
INVARIANTS
    ShownAsLatched
    UsedAsItIs
    PersistsBriefly
    ScanoutReadsRange
    PictureIsWindow
CHECK_DEADLOCK FALSE
