----------------------------- MODULE MCNetStack -----------------------------
(* Small instances of NetStack: what each client uploads and each peer sends. *)
EXTENDS NetStack

MCSent == [f \in Flows |-> 6]
MCDownLittle == [f \in Flows |-> 1]
MCSentLittle == [f \in Flows |-> 2]
MCDownAll == [f \in Flows |-> 3]
=============================================================================
