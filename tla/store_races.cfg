SPECIFICATION Spec
CONSTANTS
    Package = {p1}
    Request = {r1, r2}
    Column = {}
    Value = {"merchant", "hub", "customer"}
    None = None
    Target <- MCTarget
    Place <- MCPlace
    SeedPath <- BothStretches
    SeedTime = 8
    MaxClock = 12
CHECK_DEADLOCK FALSE
SYMMETRY RequestSymmetry
INVARIANTS TypeOK Grounded PickedUpBeforeMoved TrackedStatusInTimeline ReadYourWrites
