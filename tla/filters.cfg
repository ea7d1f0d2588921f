SPECIFICATION Spec
CONSTANTS
    None = None
    Null = Null
    Paths = {"/shipments", "/hubs"}
    Sources = {"kpi"}
    Picks <- MCPicks
    Links <- MCLinks
    PresetPicks = {"7d", "custom"}
    Dates = {24}
    Searches = {"p1"}
    MaxMoves = 4
    MaxEntries = 3
    MaxViews = 1
CHECK_DEADLOCK FALSE
INVARIANTS TypeOK AddressIsObeyed NothingNarrowsUnseen
