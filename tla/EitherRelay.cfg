SPECIFICATION FairSpec
CONSTANTS
    MaxBytes = 2
    RcvCap = 2
    SndCap = 1
    Chunk = 2
    Idle = 2
    SendTimeout = 1
INVARIANTS
    TypeOK
    EndIsComplete
PROPERTIES
    RelayNeverResets
    IdleOnlyAfterSilence
    DuplexSpec
    Released
CHECK_DEADLOCK FALSE
