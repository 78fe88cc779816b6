-------------------------- MODULE MCMasqueSession --------------------------
(* Both carriers, with and without the data check. *)
EXTENDS MasqueSession

MCCarriers == {"h2", "h3"}
MCOneCarrier == {"h2"}
MCChecks == BOOLEAN
MCOn == {TRUE}
=============================================================================
