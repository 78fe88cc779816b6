---------------------------- MODULE MCProfilePath ----------------------------
(* Instances of ProfilePath: a saved profile and a few telling edits. *)
EXTENDS ProfilePath

Plain == [f \in StoredFields |-> ConnectionProfile[f]]
Enrolled == [teamAuth |-> "TOKEN", team |-> <<"team">>]

\* A profile of today's version, and one of a version with a retired backend.
MCSaved == {[noize |-> "GFW", routeSniff |-> FALSE] @@ Plain,
            Enrolled @@ [backend |-> "PSIPHON", mtu |-> 1420] @@ Plain}
MCOneSaved == {[noize |-> "GFW"] @@ Plain}
MCTeamSaved == {Enrolled @@ Plain}
MCOpenSaved == MCOneSaved \cup MCTeamSaved \cup {[backend |-> "TOR"] @@ Plain}

MCEdits == {[routeBlock |-> <<"rule1">>, fastEndpointOnly |-> FALSE],
            Enrolled @@ [accessToken |-> <<"jwt">>],
            [teamAuth |-> "OFF", protocol |-> "MASQUE"]}
MCTwoEdits == {[protocol |-> "MASQUE"], Enrolled @@ [accessToken |-> <<"jwt">>]}
MCOpenEdits == {[protocol |-> "MASQUE"], [accessToken |-> <<"jwt">>],
                [routeBlock |-> <<"rule1", "rule2">>],
                [torCountry |-> <<"ir">>, torBridges |-> "ALWAYS"]}
MCNoEdits == {}
=============================================================================
