---------------------------- MODULE MCConnectPlan ----------------------------
(* Instances of ConnectPlan: profiles that differ in the settings the plans *)
(* read.                                                                    *)
EXTENDS ConnectPlan

Covered == [masqueHttp2 |-> TRUE, fragment |-> TRUE, ech |-> TRUE]
Proxied == [proxyMode |-> TRUE]
Bare == [proxyMode |-> FALSE]
Pinned == [endpointMode |-> "MANUAL_PEER", manualPeer |-> <<"peer">>]
Ranged == [endpointMode |-> "MANUAL_RANGE", manualRange |-> <<"range">>]
Unpinned == [endpointMode |-> "AUTO"]

With(backends, scans, noizes) ==
    {extra @@ endpoint @@ [backend |-> b, protocol |-> pr, scanMode |-> s, noize |-> n]
         @@ ConnectionProfile :
        extra \in {Bare, Covered, Proxied}, endpoint \in {Unpinned, Pinned, Ranged},
        b \in backends, pr \in Protocols, s \in scans, n \in noizes}

\* Every backend, protocol and kind of endpoint.
MCProfiles == With(Backends, {"TURBO", "BALANCED"}, {"OFF", "BALANCED"})

\* The settings that show a disagreement.
MCOpen == With({"AETHER"}, ScanModes, {"OFF"})
              \cup With({"AETHER_TOR", "TOR_AETHER"}, {"BALANCED"}, {"OFF"})
=============================================================================
