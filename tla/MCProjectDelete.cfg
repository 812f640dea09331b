SPECIFICATION FairSpec
CONSTANTS
    Ops = {a, b}
    None = None
    MaxMishaps = 2
INVARIANTS
    DestroyedOnlyAfterCommit
    QuarantineIsOwned
    ReportsAreTrue
    StuckForAReason
PROPERTIES
    SettlesUnlessStuck
CHECK_DEADLOCK FALSE
