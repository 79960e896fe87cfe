---------------------------- MODULE MCPytestRun -----------------------------
(* Two probes with two assertions and one, and one that has none.           *)
EXTENDS PytestRun, TLC

CONSTANTS p1, p2, p3

MCArity == p1 :> 2 @@ p2 :> 1 @@ p3 :> 0
=============================================================================
