SPECIFICATION FairSpec
CONSTANTS
    MaxBytes = 2
    RcvCap = 2
    SndCap = 1
    Chunk = 2
    Idle = 2
INVARIANTS
    TypeOK
    EofIsComplete
    NoLossWithoutCause
    HalfCloseIsolated
    ReturnMeansReleased
PROPERTIES
    RelayNeverResets
    FiresOnlyAfterSilence
    DuplexSpec
    AlwaysReleased
CHECK_DEADLOCK FALSE
