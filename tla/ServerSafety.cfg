\* Four connections: enough to fill a processor's queue (1), its loop (1) and
\* the routing task (1) while another one is in the returned channel
SPECIFICATION Spec
CONSTANTS
    Conns = {c1, c2, c3, c4}
    Procs = {p1, p2}
    p1 = p1
    p2 = p2
    NoConn = NoConn
    NoProc = NoProc
    ChannelCapacity = 1
    ReturnCapacity = 1
    RouteNew <- MCRouteNew
    RouteReused <- MCRouteReused
SYMMETRY ConnSymmetry
INVARIANTS
    TypeOK
    ExclusiveCustody
    ClosedIsNotServedAgain
    EventsPaired
    ReceiversOutliveSenders
    TerminationIsFinal
PROPERTIES
    KeepsPromise
