------------------------------ MODULE MCSetup ------------------------------
(* ServerSetup for TLC, with the closure of MCServer *)
EXTENDS ServerSetup

CONSTANTS p1, p2

MCRouteNew == {p1, NoProc}
MCRouteReused == {p1, p2, NoProc}
=============================================================================
