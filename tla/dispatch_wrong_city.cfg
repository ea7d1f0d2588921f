SPECIFICATION Spec
CONSTANTS
    p1 = p1 p2 = p2 r1 = r1 r2 = r2 v1 = v1 v2 = v2
    h1 = h1 h2 = h2 h3 = h3 d1 = d1 d2 = d2
    Package = {p1}
    Rider = {r1}
    Vehicle = {v1}
    Hub = {h1, h2}
    Door = {d1, d2}
    Edge <- MCEdge
    Dest <- MCDest
    CityOf <- MCCityOf
    RiderBase <- MCRiderBase
    VehicleBase <- MCVehicleBase
    Order <- Retry
    Start <- Created
    None = None
    AdoptEvery = 2
    MaxLeg = 1
    MaxTrip = 1
    MaxAttempts = 2
    MaxFail = 0
    MaxCrash = 0
INVARIANT DestinationHubIsInItsCity
