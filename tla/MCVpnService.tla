---------------------------- MODULE MCVpnService ----------------------------
(* Profiles for the small instances of VpnService.                           *)
EXTENDS VpnService, TLC

Profile(m, p, k, s) == [mode |-> m, proxy |-> p, kill |-> k, strict |-> s]

MCPlain    == {Profile("plain", FALSE, TRUE, FALSE)}
MCStrict   == {Profile("plain", FALSE, TRUE, TRUE)}
MCChained  == {Profile("external", FALSE, TRUE, FALSE), Profile("tor", FALSE, FALSE, FALSE)}
MCModes    == MCStrict \cup MCChained
MCOpen     == MCPlain \cup MCStrict \cup {Profile("external", FALSE, TRUE, FALSE)}
=============================================================================
