SPECIFICATION Spec
CONSTANTS
    Ops = {a, b, c}
    Pkgs = {1}
    Installed = {}
    None = None
    MaxCrashes = 0
    MaxFaults = 0
    MaxTouches = 1
SYMMETRY Symmetry
PROPERTIES
    SwapStartsFromThePlan
    SuccessIsThePlan
CHECK_DEADLOCK FALSE
