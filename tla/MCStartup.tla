----------------------------- MODULE MCStartup -----------------------------
(***************************************************************************)
(* A small instance of Startup: two gateways that share a log and a port,  *)
(* and an optional third with a log of its own.                            *)
(***************************************************************************)
EXTENDS Startup, TLC

CONSTANTS g1, g2, g3, k1, k2, k3, s1, s2, own, shared, port

MCGateways == {g1, g2, g3}
MCKeys == {k1, k2, k3}
MCSessions == {s1, s2}
MCLogs == {shared, own}
MCLogOf == [g \in MCGateways |-> IF g = g3 THEN own ELSE shared]
MCPorts == {port}
MCPortOf == [g \in MCGateways |-> IF g = g2 THEN NoPort ELSE port]
Interchangeable == Permutations(MCKeys) \cup Permutations(MCSessions)
=============================================================================
