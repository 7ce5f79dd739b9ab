SPECIFICATION Spec
CONSTANTS
    HandshakeTimeout = 2
    DialTimeout = 2
    Impls = {"rust"}
INVARIANTS
    OverlongNeverAsked
CHECK_DEADLOCK FALSE
