---------------------------- MODULE MCWgSession ----------------------------
(* One tunnel at the engine's own times, in seconds.                       *)
EXTENDS WgSession
MCDataChecks == {TRUE, FALSE}
=============================================================================
