SPECIFICATION OpsSpec
CONSTANTS
    a = a
    b = b
    c = c
    d = d
    g = g
    f = f
    p = p
    q = q
    None = None
    Marker = {a, b, c, d, f}
    Train = {p, q}
    Device = {}
    Declared <- Line
    Switched <- NoPoints
    EdgeLength <- TwoLong
    Priority <- Equal
    TrainLength <- Long
    CanReverse = {p, q}
    Reports <- Line
    Requests = {}
    HORIZON_EDGES = 2
    HORIZON_MAX_EDGES = 2
    Plan <- MCPlan
    Schedules <- Timetables
    GateMarkers <- NoMarkers
    ZoneMarkers <- NoMarkers
    Distances = {0, 1}
    Lengths = {}
    InitialPosition <- NoPosition
    Timetable <- LineTimetable
    MemoryLength = 3
CHECK_DEADLOCK FALSE
INVARIANTS
    TrackUnderTrainIsHeld
    DeadlockReported
