SPECIFICATION Spec
CONSTANTS
    Ops = {a, b}
    None = None
    MaxMishaps = 2
INVARIANTS
    ReportsAreTrue
    StuckForAReason
PROPERTIES
    ScanWaitsForRestores
    SettlesUnlessStuck
CHECK_DEADLOCK FALSE
