SPECIFICATION FairSpec
CONSTANTS
    ReadyTimeout = 15
    Overrun = 1
    Grace = 5
    StopWindow = 20
    MaxSignals = 3
    Impls = {"go", "rust", "python"}
INVARIANTS
    TypeOK
    OrphanNeedsCause
    StopSuffices
    QuietExitNeedsCause
PROPERTIES
    DeathIsNoticed
    SignalEnds
CHECK_DEADLOCK FALSE
