SPECIFICATION Spec
CONSTANTS
    Versions <- MCVersions
    Pids = {p1, p2}
    Runs = {r1, r2}
    MaxOthers = 1
    NoPid = NoPid
SYMMETRY Interchangeable
INVARIANTS
    OnlyHeirsAreHit
    Tracked
    LaunchesAlone
