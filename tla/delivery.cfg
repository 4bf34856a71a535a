SPECIFICATION DeliverySpec
CONSTANTS
    a = a
    b = b
    c = c
    d = d
    f = f
    g = g
    p = p
    q = q
    None = None
    Marker = {a, b, c, d, f, g}
    Train = {p, q}
    Device = {}
    Declared <- Ring
    Switched <- RingPoints
    EdgeLength <- TwoLong
    Priority <- Equal
    TrainLength <- Short
    CanReverse = {}
    Reports <- RingReports
    Requests = {}
    HORIZON_EDGES = 2
    HORIZON_MAX_EDGES = 2
    Plan <- MCPlan
    Schedules <- Timetables
    GateMarkers <- NoMarkers
    ZoneMarkers <- NoMarkers
    Distances = {0, 1, 2}
    Lengths = {}
    InitialPosition <- RingPosition
    Timetable <- RingTimetable
    Room = 4
    MaxFaults = 1
CHECK_DEADLOCK FALSE
INVARIANTS
    StaysOnItsTrack
    LimitIsBacked
    UncertainRegionHeld
