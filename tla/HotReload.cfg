SPECIFICATION FairSpec
CONSTANTS
    MaxEdits = 4
    InPlace = TRUE
    Atomic = TRUE
    Outages = TRUE
    Reloads = {r1, r2}
INVARIANTS
    TypeOK
    NeverSwallowed
    QuietMeansFresh
PROPERTIES
    NeverOlder
    Converges
CHECK_DEADLOCK FALSE
