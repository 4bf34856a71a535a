SPECIFICATION Spec
CONSTANTS
    a = a
    b = b
    c = c
    d = d
    p = p
    q = q
    gate = gate
    None = None
    Marker = {a, b, c}
    Train = {p}
    Device = {gate}
    Declared <- Ring
    Switched <- LinePoints
    EdgeLength <- UnitLength
    Priority <- Equal
    TrainLength <- Point
    CanReverse = {p}
    Reports <- Ring
    Requests <- AskForBC
    HORIZON_EDGES = 1
    HORIZON_MAX_EDGES = 2
    Plan <- MCPlan
    Schedules <- RingSchedules
    GateMarkers <- GateAtB
    ZoneMarkers <- ZoneAtC
    Distances = {0}
    Lengths = {0, 1}
    InitialPosition <- NoPosition
PROPERTIES
    NoGrantAgainstDenial
    NoGrantAcrossGap
