SPECIFICATION FairSpec
CONSTANTS
    HandshakeTimeout = 3
    DialTimeout = 2
    Impls = {"go", "rust", "python"}
INVARIANTS
    TypeOK
    GoBounded
    Answered
    HandsOverClean
    UpstreamReleased
    GoOverlongStays
PROPERTIES
    Ends
CHECK_DEADLOCK FALSE
