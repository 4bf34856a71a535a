SPECIFICATION Spec
CONSTANTS
    near = near
    siding = siding
    points = points
    bridge = bridge
    barrier = barrier
    train = train
    None = None
    Train = {train}
    Rail = {near, siding}
    Junction = {points}
    Span = {bridge}
    Gate = {barrier}
    Laid = {near, points, bridge, barrier, train}
    Placement <- OnNear
    MaxEdits = 4
    MaxOrders = 2
    MaxQueued = 3
CHECK_DEADLOCK FALSE
INVARIANTS
    TypeOK
    PointsAreSet
    AgreedPointsLieSo
    GatesAgree
    DepartedAreForgotten
