SPECIFICATION Spec
CONSTANTS
    Package = {p1}
    Request = {r1, r2}
    Column = {"node"}
    Value = {"merchant", "hub", "customer"}
    None = None
    Target <- MCTarget
    Place <- MCPlace
    SeedPath <- BothStretches
    SeedTime = 8
    MaxClock = 11
CHECK_DEADLOCK FALSE
INVARIANT TimelineEndsAtStatus
