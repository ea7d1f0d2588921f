SPECIFICATION Spec
CONSTANTS
    None = None
    p1 = p1 p2 = p2 p3 = p3 q1 = q1 q2 = q2 q3 = q3 q4 = q4 q5 = q5 r1 = r1 r2 = r2 ma = ma mb = mb
    shop = shop h1 = h1 h2 = h2 h3 = h3 h4 = h4 h5 = h5 h6 = h6 home = home door = door
    Package = {p1, p2, p3, q1, q2, q3, q4, q5}
    Rider = {r1, r2}
    Merchant = {ma, mb}
    Nodes <- MCNodes
    Routes <- MCRoutes
    Distance <- MCDistance
    Start <- MCStart
    RiderBase <- MCRiderBase
    Windows = {"24h", "30d"}
    Hops = {16, 56}
    MaxNow = 72
    MaxMoves = 3
SYMMETRY Symmetry
CHECK_DEADLOCK FALSE
INVARIANTS CountedOnce FiguresAgree ListsAgree
PROPERTIES TimeOnlyHurts
