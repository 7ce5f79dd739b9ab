SPECIFICATION FairSpec
CONSTANTS
    MaxBytes = 3
    RcvCap = 1
    SndCap = 1
    Chunk = 1
    Idle = 1
PROPERTIES
    BreaksWhenIdle
CHECK_DEADLOCK FALSE
