------------------------------ MODULE MCClient ------------------------------
(* ClientService for TLC *)
EXTENDS ClientService

CONSTANTS p1, p2

\* Protocol stacking: the connection starts at p1 or is refused, and may then be
\* routed anywhere, even to a processor that was already used
MCRouteNew == {p1, NoProc}
MCRouteReused == Procs \cup {NoProc}

\* An upgrade: p1 first, then p2 or the end
UpgradeRouteNew == {p1}
UpgradeRouteReused == {p2, NoProc}
=============================================================================
