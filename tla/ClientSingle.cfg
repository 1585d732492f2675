\* The single protocol mode: one processor, and a host with two addresses
SPECIFICATION RetriesSpec
CONSTANTS
    Procs = {p1}
    p1 = p1
    NoProc = NoProc
    RouteNew <- SingleRouteNew
    RouteReused <- SingleRouteReused
    Addresses = {a1, a2}
    Strategies <- MCStrategies
INVARIANTS
    ListeningIsFound
PROPERTIES
    ClosedIsReported
    TerminationIsHeard
    TerminationCompletes
