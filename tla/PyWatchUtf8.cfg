SPECIFICATION Spec
CONSTANTS
    MaxEdits = 4
    InPlace = TRUE
    Atomic = TRUE
    Outages = TRUE
    Reloads = {r1, r2}
INVARIANTS
    KeepsWatching
CHECK_DEADLOCK FALSE
