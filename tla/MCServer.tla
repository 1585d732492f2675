------------------------------ MODULE MCServer ------------------------------
(* ServerService for TLC: two processors and a closure that may answer anything *)
EXTENDS ServerService

CONSTANTS p1, p2

\* The routing closure of a composite protocol: new connections start at p1
\* or are refused, reused ones may go anywhere
MCRouteNew == {p1, NoProc}
MCRouteReused == {p1, p2, NoProc}

\* Connections are interchangeable (only for the runs without liveness)
ConnSymmetry == Permutations(Conns)
=============================================================================
