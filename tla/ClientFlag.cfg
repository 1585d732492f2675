\* Two processors: the second one serves while the flag says disconnected
SPECIFICATION Spec
CONSTANTS
    Procs = {p1, p2}
    p1 = p1
    p2 = p2
    NoProc = NoProc
    RouteNew <- MCRouteNew
    RouteReused <- MCRouteReused
INVARIANTS
    ConnectedInDialog
