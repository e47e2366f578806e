SPECIFICATION ProgressSpec
CONSTANTS
    Files = {f1, f2}
    Subscribers = {s1, s2}
    None = None
    MaxFaults = 1
INVARIANTS
    CountsMatchRows
    NeverOverfull
PROPERTIES
    BarFills
CHECK_DEADLOCK FALSE
