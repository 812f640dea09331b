SPECIFICATION Spec
CONSTANTS
    Ops = {a}
    None = None
    MaxMishaps = 2
INVARIANT
    EveryStartServes
CHECK_DEADLOCK FALSE
