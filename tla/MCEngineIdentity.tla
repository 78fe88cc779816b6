-------------------------- MODULE MCEngineIdentity --------------------------
(* Personal and organization accounts, one hop and two, on shared files.   *)
EXTENDS EngineIdentity
CONSTANTS t1, t2
MCStarts == {<<"wg", None, TRUE>>, <<"mim", t1, FALSE>>}
MCOneStart == {<<"masque", t1, FALSE>>}
MCTeamStarts == {<<"wg", None, TRUE>>}
MCDevices == 1 .. 9
MCBoth == {TRUE, FALSE}
MCOn == {TRUE}
=============================================================================
