\* Two processors: terminate() before the first one subscribes
SPECIFICATION FairSpec
CONSTANTS
    Procs = {p1, p2}
    p1 = p1
    p2 = p2
    NoProc = NoProc
    RouteNew <- UpgradeRouteNew
    RouteReused <- UpgradeRouteReused
PROPERTIES
    TerminationIsHeard
