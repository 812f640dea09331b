SPECIFICATION LiveSpec
CONSTANTS
    MaxCommits = 2
    MaxMishaps = 1
    None = None
INVARIANTS
    QuietIsCurrent
PROPERTIES
    CatchesUp
CHECK_DEADLOCK FALSE
