SPECIFICATION FairSpec
CONSTANTS
    Task <- MCTask
    Other <- MCOther
    Message = {m1, m2}
    NULL = NULL
    OSQSize = 2
    MaxDly = 2
INVARIANTS TypeOK NobodyStranded
PROPERTIES Implements TimedWaitEnds
