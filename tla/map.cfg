SPECIFICATION Spec
CONSTANTS
    None = None
    hubA = hubA hubB = hubB hubC = hubC
    truck = truck rider = rider
    division = division district = district
    OffRoute = 750
    At <- MCAt
    BaseOf <- MCBaseOf
    Areas <- MCAreas
    MaxHistory = 2
    Vehicle = {truck}
    Rider = {rider}
    Routes <- MCRoutes
    Corridors <- MCCorridors
    Rows <- MCRows
    Script <- MCScript
    Layers = {"boundaries"}
    Areal = "boundaries"
    Districts <- MCDistricts
    Home <- MCHome
    Pages = {"control-tower", "shipments"}
    MapPages = {"control-tower"}
    InStepPages = {"control-tower"}
    Openable <- MCOpenable
    Places <- MCPlaces
    Steps = {1500, 4500}
    IntroMs = 2400 FocusMs = 1300 RegionMs = 1500 HomeMs = 1600 GraceMs = 4000
    MinGlide = 900
    MaxGlide = 12000
    DefaultGlide = 3200
    LeastGap = 200
    MostGap = 30000
    TrailLength = 2
    Budgets <- MCBudgets
CHECK_DEADLOCK FALSE
INVARIANTS TypeOK NothingOpenNothingSelected MapIsCurrent
PROPERTIES MarkersAreSteady FollowsOnlyWhenAsked
