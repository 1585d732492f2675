\* Two connections already block each other on every channel of capacity 1
SPECIFICATION SetupSpec
CONSTANTS
    Conns = {c1, c2}
    Procs = {p1, p2}
    p1 = p1
    p2 = p2
    NoConn = NoConn
    NoProc = NoProc
    ChannelCapacity = 1
    ReturnCapacity = 1
    RouteNew <- MCRouteNew
    RouteReused <- MCRouteReused
INVARIANTS
    WaiterAnswersForAll
PROPERTIES
    AcceptedIsServed
    ClosedIsReported
    WaiterReturnsInTheEnd
