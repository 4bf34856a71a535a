SPECIFICATION Spec
CONSTANTS
    a = a
    b = b
    c = c
    d = d
    p = p
    q = q
    gate = gate
    None = None
    Marker = {a, b, c, d}
    Train = {p, q}
    Device = {}
    Declared <- Line
    Switched <- LinePoints
    EdgeLength <- UnitLength
    Priority <- Equal
    TrainLength <- Point
    CanReverse = {}
    Reports <- LineReports
    Requests <- LineRequests
    HORIZON_EDGES = 2
    HORIZON_MAX_EDGES = 2
    Plan <- MCPlan
    Schedules <- LineSchedules
    GateMarkers <- NoMarkers
    ZoneMarkers <- NoMarkers
    Distances = {}
    Lengths = {}
    InitialPosition <- NoPosition
SYMMETRY Alike
INVARIANTS
    TypeOK
    Exclusive
    PassLeavesNobodyBehind
PROPERTIES
    ImplementsClearance
    SwitchNotThrownUnderPeer
    HeldKeepsItsGround
    ResolutionVacates
