SPECIFICATION FairSpec
CONSTANTS
    Ops = {a}
    Pkgs = {1, 2}
    Installed = {1}
    None = None
    MaxCrashes = 2
    MaxFaults = 2
    MaxTouches = 1
INVARIANTS
    EvidenceSuffices
    HalfwayIsMarked
    ReportsAreTrue
    AbandonedForAReason
PROPERTIES
    SettlesUnlessAbandoned
CHECK_DEADLOCK FALSE
