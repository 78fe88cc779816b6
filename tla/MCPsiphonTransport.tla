------------------------- MODULE MCPsiphonTransport -------------------------
(* A small instance of PsiphonTransport for TLC. *)
EXTENDS PsiphonTransport

MCRegions == 1 .. 2
MCWishes == {NoRegion, 1}
MCReaches == {{2}, {1, 2}}
MCPorts == {1, 2}
=============================================================================
