SPECIFICATION FairSpec
CONSTANTS
    Ops = {a, b}
    Things = {1, 2, 3, 4, 5}
    Kind <- ThingKind
    None = None
    MaxMishaps = 2
INVARIANTS
    OneEditor
    ReportsAreTrue
    StuckForAReason
PROPERTIES
    SettlesUnlessStuck
CHECK_DEADLOCK FALSE
