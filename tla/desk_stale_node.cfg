SPECIFICATION Spec
CONSTANTS
    None = None
    e1 = e1 e2 = e2 e3 = e3
    p1 = p1 p2 = p2 p3 = p3
    r1 = r1 r2 = r2 r3 = r3
    hubA = hubA hubB = hubB
    Routes <- MCRoutes
    Acting = {"super_admin", "warehouse_manager"}
    MaxAudit = 3
    Exception <- MCException
    PriorityOf <- MCPriorityOf
    LabelOf <- MCLabelOf
    TypeOf <- MCTypeOf
    CityOf <- MCCityOf
    DivisionOf <- MCDivisionOf
    Areas <- MCAreas
    Linked = {"SLA_BREACH"}
    Priorities <- MCPriorities
    Parcel <- MCParcel
    Rider <- MCRider
    CityOfParcel <- MCCityOfParcel
    CityOfRider <- MCCityOfRider
    OffDuty = {}
    Score <- MCScore
    Overloaded = 2
    Batch = 3
    Nodes = {hubA, hubB}
    Start <- MCStartMoving
    Here = Here There = There
    Roles = {"super_admin", "warehouse_manager", "merchant"}
    Users = {"Operator", "Rina"}
    Pages = {"exceptions", "shipments", "dispatch", "admin"}
    PageSizes = {2, 3}
    Long = 1
    Short = 0
    Budgets <- MCBudgets
CHECK_DEADLOCK FALSE
PROPERTIES AssigningMovesNoParcel
