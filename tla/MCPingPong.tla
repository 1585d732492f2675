----------------------------- MODULE MCPingPong -----------------------------
(* PingPong with some of the lucky numbers: a mishit, a net touch, a ball out *)
(* and a good one                                                            *)
EXTENDS PingPong

MCLuck == {3, 5, 7, 8}
MCVersions == {2, 3}
=============================================================================
