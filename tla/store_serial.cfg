SPECIFICATION Spec
CONSTANTS
    Package = {p1}
    Request = {r1}
    Column = {"node"}
    Value = {"merchant", "hub", "customer"}
    None = None
    Target <- PackageStatus
    Place <- MCPlace
    SeedPath <- AnySeed
    SeedTime = 13
    MaxClock = 15
CHECK_DEADLOCK FALSE
INVARIANTS RowFollowsLog
PROPERTIES ImplementsJourney
