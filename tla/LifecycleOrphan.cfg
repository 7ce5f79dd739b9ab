SPECIFICATION Spec
CONSTANTS
    ReadyTimeout = 15
    Overrun = 1
    Grace = 5
    StopWindow = 20
    MaxSignals = 1
    Impls = {"python"}
INVARIANTS
    NoOrphan
CHECK_DEADLOCK FALSE
