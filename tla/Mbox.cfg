SPECIFICATION FairSpec
CONSTANTS
    CLOCK = 5
    MsPerTick = 5
    Timer <- TwoTimers
    Period <- Periods
    MBOXSIZE = 3
    POOL = 3
    INPKT = 2
    Segments = 4
    FramesPerTick = 2
INVARIANT NothingLost
PROPERTIES OnTime AllRead
