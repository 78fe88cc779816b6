------------------------ MODULE MCEngineSupervisor ------------------------
(* Three edges, two of them ports of one address, and the environments that *)
(* send the loops through every branch.                                      *)
EXTENDS EngineSupervisor

CONSTANTS e1, e2, e3

MCIp == e1 :> 1 @@ e2 :> 1 @@ e3 :> 2

Plain(p) == [proto |-> p, outer |-> None, inner |-> None, team |-> None,
             policy |-> FALSE, quick |-> FALSE]

MCConfigs ==
    {[Plain("wg") EXCEPT !.quick = TRUE], [Plain("wg") EXCEPT !.outer = e1],
     [Plain("masque") EXCEPT !.team = e2, !.policy = TRUE, !.quick = TRUE],
     Plain("gool"), [Plain("mim") EXCEPT !.inner = e1, !.policy = TRUE]}

PolicyConfigs == {[Plain("wg") EXCEPT !.policy = TRUE]}
MasqueConfigs == {Plain("masque")}
=============================================================================
