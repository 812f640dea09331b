SPECIFICATION Spec
CONSTANTS
    Ops = {a, b}
    Files = {1, 2}
    Contents = {x, y}
    None = None
    MaxMishaps = 2
SYMMETRY Symmetry
INVARIANTS
    MixedOnlyIfSavedBack
    TargetIsAccounted
    ReportsAreTrue
CHECK_DEADLOCK FALSE
