------------------------------ MODULE MCSingle ------------------------------
(* ConnectRetries for TLC: the single protocol mode *)
EXTENDS ConnectRetries

CONSTANTS p1

\* start_single_protocol(): p1 once, then the connection is dropped
SingleRouteNew == {p1}
SingleRouteReused == {NoProc}

\* No retry, fewer attempts than addresses, more of them, until a timeout
MCStrategies ==
    [attempts : {0, 1, 3}, patience : {FALSE}] \cup [attempts : {0}, patience : {TRUE}]
=============================================================================
