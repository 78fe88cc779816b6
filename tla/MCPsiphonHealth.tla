-------------------------- MODULE MCPsiphonHealth --------------------------
(* A small instance of PsiphonHealth for TLC: two servers in two regions,   *)
(* the source's thresholds scaled down with their order kept                *)
(* (REPEAT < WINDOW <= COOLDOWN <= HEALTHY).                                *)
EXTENDS PsiphonHealth, TLC

CONSTANTS s1, s2, r1, r2, ta, tb

MCRegionOf == [s \in Servers |-> IF s = s1 THEN r1 ELSE r2]
=============================================================================
