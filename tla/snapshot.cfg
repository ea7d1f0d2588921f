SPECIFICATION FairSpec
CONSTANTS
    Package = {p1}
    Start <- MCStart
    Target = {"OUT_FOR_DELIVERY", "DELIVERED"}
    Nothing = Nothing
    MaxNow = 3
    MaxFaults = 1
    MaxReloads = 1
CHECK_DEADLOCK FALSE
INVARIANTS TypeOK ShownIsSound FlagsAreHonest DerivedIsCurrent
PROPERTIES Converges
