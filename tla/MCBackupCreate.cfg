SPECIFICATION Spec
CONSTANTS
    Ops = {a, b}
    Files = {1, 2}
    None = None
    MaxMishaps = 2
INVARIANTS
    ArchiveIsASnapshot
    ReportsAreTrue
    OrphanForAReason
PROPERTIES
    SettlesUnlessStuck
CHECK_DEADLOCK FALSE
