SPECIFICATION OpsSpec
CONSTANTS
    a = a
    b = b
    c = c
    d = d
    g = g
    f = f
    p = p
    q = q
    None = None
    Marker = {a, b, c, d, f, g}
    Train = {p, q}
    Device = {}
    Declared <- Loop
    Switched <- LoopPoints
    EdgeLength <- TwoLong
    Priority <- Equal
    TrainLength <- Short
    CanReverse = {}
    Reports <- Loop
    Requests = {}
    HORIZON_EDGES = 2
    HORIZON_MAX_EDGES = 3
    Plan <- MCPlan
    Schedules <- Timetables
    GateMarkers <- NoMarkers
    ZoneMarkers <- NoMarkers
    Distances = {0, 1}
    Lengths = {}
    InitialPosition <- LoopPosition
    Timetable <- LoopTimetable
    MemoryLength = 3
CHECK_DEADLOCK FALSE
INVARIANTS
    TrackUnderTrainIsHeld
    PointsSetForHolder
    ContiguousAhead
    NobodyForgotten
PROPERTIES
    HandlersTerminate
    KeepsCalling
