SPECIFICATION Spec
CONSTANTS
    a = a
    b = b
    c = c
    d = d
    f = f
    None = None
    Marker = {a, b, c, d, f}
    EdgeLength <- MCEdgeLength
    Switched <- Turnout
    Layouts <- SubGraphs
INVARIANTS
    RouteIsLegal
    RouteIsCheapestOnPlainTrack
    RouteIsFoundOnPlainTrack
