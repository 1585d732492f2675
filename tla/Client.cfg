\* Two processors share the connection: each serves it once, so a third
\* routing already finds a processor whose receiver is gone
SPECIFICATION FairSpec
CONSTANTS
    Procs = {p1, p2}
    p1 = p1
    p2 = p2
    NoProc = NoProc
    RouteNew <- MCRouteNew
    RouteReused <- MCRouteReused
INVARIANTS
    TypeOK
    EveryReportCounts
    OkMeansAllReported
    ReturnNeverFails
PROPERTIES
    KeepsPromise
    StreamEndEndsDialog
    EventsComplete
