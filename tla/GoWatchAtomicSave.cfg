SPECIFICATION FairSpec
CONSTANTS
    MaxEdits = 3
    InPlace = FALSE
    Atomic = TRUE
    Outages = FALSE
    Reloads = {r1, r2}
PROPERTIES
    SavedMeansServed
CHECK_DEADLOCK FALSE
