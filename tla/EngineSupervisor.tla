-------------------------- MODULE EngineSupervisor --------------------------
(***************************************************************************)
(* The reconnect loops of the native engine (aether/src/lib.rs): which     *)
(* endpoint a tunnel is dialled on, what a tunnel has to prove before the  *)
(* SOCKS port opens, what is torn down when it ends, and what survives a   *)
(* crash in the last-connection file (lastconn.rs).                        *)
(*                                                                         *)
(* The four protocols share the shape of the loop and differ in how an     *)
(* endpoint is kept, given up and scanned for:                             *)
(*   wg      run_wireguard   two failures put the endpoint on a cooldown   *)
(*   masque  run_masque      an endpoint that verifies is always retried   *)
(*   gool    run_gool        two WireGuard hops, one inside the other      *)
(*   mim     run_mim         two MASQUE hops, one inside the other         *)
(***************************************************************************)
EXTENDS Naturals, Sequences, SequencesExt, FiniteSets

CONSTANTS
    Endpoints,      \* address and port of every edge a scan can turn up
    Ip,             \* the address of an endpoint
    None,           \* no endpoint
    StartKinds,     \* what endpoints may be like when the engine starts
    Configs,        \* the environments the process may be started with
    RecentCap,      \* RECENT_CAP, the length of the remembered ring
    CooldownRounds, \* rounds of the loop that fit into one endpoint cooldown
    MaxShifts,      \* bound: times the network changes under the engine
    MaxStarts       \* bound: times the process is started

Protocols == {"wg", "masque", "gool", "mim"}
Nested(p) == p \in {"gool", "mim"}
Maybe == Endpoints \cup {None}

\* What the loops read of the environment: the protocol, the endpoints given by
\* hand (AETHER_WG_PEER, AETHER_PEER or the outer and inner hop of a pair), the
\* endpoint an organization assigned, an exit policy, AETHER_QUICK_RECONNECT.
Settings == [proto: Protocols, outer: Maybe, inner: Maybe, team: Maybe,
             policy: BOOLEAN, quick: BOOLEAN]

\* WiwEndpoints::checked refuses two hops on one address; the single-hop
\* protocols know no inner hop.
Checked(s) == IF Nested(s.proto)
              THEN s.outer # None /\ s.inner # None => Ip[s.outer] # Ip[s.inner]
              ELSE s.inner = None

ASSUME EndpointsAssumption == None \notin Endpoints /\ Ip \in [Endpoints -> Nat]
ASSUME ConfigsAssumption == Configs \subseteq {s \in Settings : Checked(s)}
ASSUME KindsAssumption == StartKinds \subseteq {"dead", "flaky", "abroad", "good"}
ASSUME BoundsAssumption ==
    /\ RecentCap \in Nat \ {0} /\ CooldownRounds \in Nat \ {0}
    /\ MaxShifts \in Nat /\ MaxStarts \in Nat \ {0}

\* What an endpoint does, as far as the loops can tell: "dead" fails the
\* verification, "flaky" passes it and then carries no tunnel, "abroad" works
\* but leaves in a country the exit policy refuses.
Kinds == {"dead", "flaky", "abroad", "good"}

\* MAX_CONSECUTIVE_FAILS of run_wireguard, run_gool and run_mim.
MaxConsecutiveFails == 2

\* The tasks a tunnel spawns: the two pumps that move packets between a stack
\* and its edge, the forwarder that carries the inner hop, the two listeners.
Tasks == {"outer", "inner", "forwarder", "socks", "http"}

\* A last-connection file; without a peer it does not parse, which is also what
\* a missing file and one cut short by a crash come to.
Carrier(p) == IF p = "wg" THEN "wireguard" ELSE "masque"
Carriers == {"", "wireguard", "masque"}
NoFile == [peer |-> None, carrier |-> "", recent |-> <<>>]

VARIABLES
    set,       \* the environment the process was started with
    pc,        \* where the loop stands
    quick,     \* quick / quick_peer: verified before the loop, used once
    outer,     \* last_good, last_good_peer or outer_peer
    inner,     \* inner_peer
    fails,     \* consecutive_fails_on_peer or consecutive_fails
    cooldown,  \* endpoint_cooldowns, as rounds left per endpoint
    hops,      \* the endpoints of the tunnel being dialled: <<outer, inner>>
    tasks,     \* tasks of the tunnels so far that nobody has aborted
    file,      \* the last-connection file
    kind,      \* what each endpoint does at the moment
    shifts, starts,
    ended,     \* history: tunnels in a row that ended on an endpoint
    savedAs    \* history: the carriers under which an endpoint was remembered

loopVars == <<quick, outer, inner, fails, cooldown>>
worldVars == <<kind, shifts, starts, set>>
vars == <<pc, loopVars, hops, tasks, file, worldVars, ended, savedAs>>

Proto == set.proto
Held == {e \in Endpoints : cooldown[e] > 0}
Exit == IF Nested(Proto) THEN hops[2] ELSE hops[1]

\* wireguard::verify_endpoint, quick_verify_masque_peer and the probes of a
\* scan: handshake and data plane, judged at the moment of the call.
Verifies(e) == kind[e] # "dead"
\* establish_wg, verify_endpoint_keep_session and establish_masque.
Carries(e) == kind[e] \in {"abroad", "good"}
Carrying == {e \in Endpoints : Carries(e)}
-----------------------------------------------------------------------------
\* lastconn::usable_peers: the peer and the ring behind it, each once; nothing
\* saved for another carrier, the file of an older build for any of them. The
\* ring holds nobody twice (RingSound), so one removal leaves the peer out.
UsablePeers(f, carrier) ==
    IF f.peer = None \/ f.carrier \notin {"", carrier} THEN <<>>
    ELSE <<f.peer>> \o RemoveFirst(f.recent, f.peer)

\* Mutant: the ring of another carrier is carried over.
Saved_AnyCarrier(f, e, carrier) ==
    [peer |-> e, carrier |-> carrier,
     recent |-> LET ring == <<e>> \o RemoveFirst(f.recent, e)
                IN  SubSeq(ring, 1, IF Len(ring) < RecentCap THEN Len(ring) ELSE RecentCap)]

\* lastconn::save: the newest first, then the ring the same carrier had (the
\* peer of an older build's file, which kept no ring, is dropped), up to the cap.
Saved(f, e, carrier) ==
    LET kept == IF f.peer # None /\ f.carrier \in {"", carrier}
                THEN RemoveFirst(f.recent, e) ELSE <<>>
        ring == <<e>> \o kept
    IN  [peer |-> e, carrier |-> carrier,
         recent |-> SubSeq(ring, 1, IF Len(ring) < RecentCap THEN Len(ring) ELSE RecentCap)]
-----------------------------------------------------------------------------
Init ==
    /\ set \in Configs
    /\ pc = "boot" /\ quick = None /\ outer = None /\ inner = None /\ fails = 0
    /\ cooldown = [e \in Endpoints |-> 0]
    /\ hops = <<None, None>> /\ tasks = {}
    /\ file \in {[NoFile EXCEPT !.peer = e] : e \in Maybe}
    /\ kind \in [Endpoints -> StartKinds]
    /\ shifts = 0 /\ starts = 1
    /\ ended = [e \in Endpoints |-> 0] /\ savedAs = [e \in Endpoints |-> {}]

\* Ahead of the loop: run_wireguard and run_masque verify the endpoint the
\* organization assigned, then the remembered ones in their order, unless an
\* endpoint was given by hand; run_gool and run_mim start from their pins.
FirstAnswering(s) ==
    LET first == SelectInSeq(s, Verifies) IN IF first = 0 THEN None ELSE s[first]

Boot ==
    /\ pc = "boot" /\ pc' = "head"
    /\ IF Nested(Proto)
       THEN outer' = set.outer /\ inner' = set.inner /\ quick' = None
       ELSE /\ quick' = IF set.outer # None THEN None
                       ELSE IF set.team # None /\ Verifies(set.team) THEN set.team
                       ELSE IF set.quick THEN FirstAnswering(UsablePeers(file, Carrier(Proto)))
                       ELSE None
            /\ UNCHANGED <<outer, inner>>
    /\ UNCHANGED <<fails, cooldown, hops, tasks, file, worldVars, ended, savedAs>>

\* The head of the loop: cooldowns that ran out are forgotten, and an endpoint
\* that failed twice in a row is given up. run_wireguard holds it on a
\* cooldown; run_gool and run_mim only forget the hops nobody pinned;
\* run_masque does not count.
GivesUp == fails >= MaxConsecutiveFails /\ Proto # "masque"

\* Mutant: the endpoint is forgotten and not held, as in run_gool.
GiveUp_NoHold ==
    /\ pc = "head" /\ pc' = "pick"
    /\ cooldown' = [e \in Endpoints |-> IF cooldown[e] > 0 THEN cooldown[e] - 1 ELSE 0]
    /\ outer' = IF GivesUp /\ (Proto = "wg" \/ set.outer = None) THEN None ELSE outer
    /\ inner' = IF GivesUp /\ set.inner = None THEN None ELSE inner
    /\ fails' = IF GivesUp THEN 0 ELSE fails
    /\ UNCHANGED <<quick, hops, tasks, file, worldVars, ended, savedAs>>

GiveUp ==
    LET ticked == [e \in Endpoints |-> IF cooldown[e] > 0 THEN cooldown[e] - 1 ELSE 0]
    IN  /\ pc = "head" /\ pc' = "pick"
        /\ cooldown' = IF Proto = "wg" /\ GivesUp /\ outer # None
                       THEN [ticked EXCEPT ![outer] = CooldownRounds] ELSE ticked
        /\ outer' = IF GivesUp /\ (Proto = "wg" \/ set.outer = None) THEN None ELSE outer
        /\ inner' = IF GivesUp /\ set.inner = None THEN None ELSE inner
        /\ fails' = IF GivesUp THEN 0 ELSE fails
        /\ UNCHANGED <<quick, hops, tasks, file, worldVars, ended, savedAs>>
-----------------------------------------------------------------------------
\* A scan answers with endpoints that verify, on separate addresses
\* (distinct_by_ip), none of them excluded. run_wireguard excludes the held
\* ones, run_gool the addresses of the hop it already has, the MASQUE scan
\* nothing at all.
WgAnswers == {e \in Endpoints : Verifies(e) /\ (Proto = "wg" => e \notin Held)}
MasqueAnswers == {e \in Endpoints : Verifies(e)}
Scanned == IF Proto \in {"wg", "gool"} THEN WgAnswers ELSE MasqueAnswers

\* Mutant: a passed verification clears the count of the endpoint in use too.
Use_Forgives(e) ==
    /\ hops' = <<e, None>> /\ fails' = 0 /\ outer' = e /\ pc' = "save"
    /\ ended' = IF e # outer THEN [ended EXCEPT ![e] = 0] ELSE ended
    /\ UNCHANGED <<inner, cooldown, tasks, file, worldVars, savedAs>>

\* A single-hop tunnel will be dialled on e: the loop moves to saving it.
Use(e) ==
    /\ hops' = <<e, None>>
    /\ fails' = IF Proto = "wg" /\ e # outer THEN 0 ELSE fails
    /\ ended' = IF e # outer THEN [ended EXCEPT ![e] = 0] ELSE ended
    /\ outer' = e
    /\ pc' = "save"
    /\ UNCHANGED <<inner, cooldown, tasks, file, worldVars, savedAs>>

UseQuick ==
    /\ pc = "pick" /\ ~Nested(Proto) /\ quick # None
    /\ Use(quick) /\ quick' = None

RetryLastGood ==
    /\ pc = "pick" /\ ~Nested(Proto) /\ quick = None
    /\ outer # None /\ Verifies(outer)
    /\ Use(outer) /\ UNCHANGED quick

Rescans == /\ pc = "pick" /\ ~Nested(Proto) /\ quick = None
           /\ ~(outer # None /\ Verifies(outer))

\* Nothing to dial: the loop sleeps its reconnect delay and starts over.
TryLater == pc' = "head" /\ UNCHANGED <<loopVars, hops, tasks, file, worldVars, ended, savedAs>>

\* run_wireguard verifies a forced peer with every profile, run_masque dials it.
UseForced ==
    /\ Rescans /\ set.outer # None
    /\ IF Proto = "masque" \/ Verifies(set.outer)
       THEN Use(set.outer) /\ UNCHANGED quick ELSE TryLater

Found(e) == /\ Rescans /\ set.outer = None
            /\ e \in Scanned /\ Use(e) /\ UNCHANGED quick
ScanFinds == \E e \in Endpoints : Found(e)

ScanFindsNothing == Rescans /\ set.outer = None /\ TryLater

\* run_gool: the hops that are not known are scanned for, away from the known
\* ones. A scan that yields one edge too few starts over from the pins.
PickPair ==
    /\ pc = "pick" /\ Proto = "gool"
    /\ \E o \in IF outer # None THEN {outer} ELSE Scanned,
          i \in IF inner # None THEN {inner} ELSE Scanned :
            /\ outer = None \/ inner = None => Ip[o] # Ip[i]
            /\ hops' = <<o, i>> /\ outer' = o /\ inner' = i
            /\ ended' = IF o # outer THEN [ended EXCEPT ![o] = 0] ELSE ended
    /\ pc' = "dial"
    /\ UNCHANGED <<quick, fails, cooldown, tasks, file, worldVars, savedAs>>

\* run_mim: the outer hop is the one in use or a scanned one. The inner hop is
\* the pinned one or one of a handful of neighbours, chosen while dialling.
PickOuter ==
    /\ pc = "pick" /\ Proto = "mim"
    /\ \E o \in IF outer # None THEN {outer} ELSE Scanned :
            /\ hops' = <<o, inner>> /\ outer' = o
            /\ ended' = IF o # outer THEN [ended EXCEPT ![o] = 0] ELSE ended
    /\ pc' = "dial"
    /\ UNCHANGED <<quick, inner, fails, cooldown, tasks, file, worldVars, savedAs>>

PairIncomplete ==
    /\ pc = "pick" /\ Nested(Proto) /\ (outer = None \/ (Proto = "gool" /\ inner = None))
    /\ outer' = set.outer /\ inner' = set.inner /\ pc' = "head"
    /\ UNCHANGED <<quick, fails, cooldown, hops, tasks, file, worldVars, ended, savedAs>>

\* The endpoint is remembered before its tunnel has worked, unless it was given
\* by hand.
SaveLastConnection ==
    /\ pc = "save" /\ pc' = "dial"
    /\ IF set.outer = None
       THEN /\ file' = Saved(file, hops[1], Carrier(Proto))
            /\ savedAs' = [savedAs EXCEPT ![hops[1]] = @ \cup {Carrier(Proto)}]
       ELSE UNCHANGED <<file, savedAs>>
    /\ UNCHANGED <<loopVars, hops, tasks, worldVars, ended>>
-----------------------------------------------------------------------------
\* Mutant: the forwarder of the inner hop has no guard.
Guarded_NoForwarder(p) == {"outer", "inner", "socks", "http"}

\* What the TaskGuards of a tunnel abort when it ends or fails on the way.
\* run_wireguard_tunnel polls its tunnel itself, so leaving drops it.
Guarded(p) == CASE p = "wg"     -> {"socks", "http"} \cup {"outer"}
                [] p = "masque" -> {"outer", "socks", "http"}
                [] p = "gool"   -> {"outer", "inner", "forwarder", "socks", "http"}
                [] p = "mim"    -> {"outer", "inner", "forwarder", "socks", "http"}

\* The tunnel ends, for whatever reason: every end counts as a failure.
EndTunnel ==
    /\ pc' = "head"
    /\ tasks' = tasks \ Guarded(Proto)
    /\ fails' = IF Proto = "masque" THEN fails ELSE fails + 1
    /\ ended' = [ended EXCEPT ![hops[1]] = IF @ < MaxConsecutiveFails THEN @ + 1 ELSE @]
    /\ hops' = <<None, None>>
    /\ UNCHANGED <<quick, outer, inner, cooldown, file, worldVars, savedAs>>

Proceed(next, spawned) ==
    /\ pc' = next
    /\ tasks' = tasks \cup spawned
    /\ UNCHANGED <<loopVars, file, worldVars, ended, savedAs>>

\* The first hop. A WireGuard tunnel is validated here but nothing pumps its
\* packets until run_wireguard_tunnel polls it; the other three spawn the pump.
DialOuter ==
    /\ pc = "dial" /\ Carries(hops[1])
    /\ Proto = "gool" => Ip[hops[1]] # Ip[hops[2]]
    /\ Proceed(IF Nested(Proto) THEN "inner" ELSE "settle",
               IF Proto = "wg" THEN {} ELSE {"outer"})
    /\ UNCHANGED hops

\* Mutant: a candidate on the address of the outer hop is dialled.
InnerCandidates_Any == IF hops[2] # None THEN {hops[2]} ELSE Endpoints

\* The second hop, through a forwarder on the first: run_warp_in_warp has one
\* endpoint, run_masque_in_masque walks its candidates and skips the address
\* of the outer hop.
InnerCandidates ==
    {e \in IF hops[2] # None THEN {hops[2]} ELSE Endpoints :
        Proto = "mim" => Ip[e] # Ip[hops[1]]}

DialInner ==
    /\ pc = "inner" /\ Carries(hops[1])
    /\ \E e \in InnerCandidates : Carries(e) /\ hops' = <<hops[1], e>>
    /\ Proceed("settle", {"inner", "forwarder"})

\* A hop that does not come up in time, in run_warp_in_warp for one, two hops it
\* refuses for their address, or a candidate list without one that comes up: the handful of neighbours need not hold the edge that would.
DialFails ==
    \/ /\ pc = "dial" /\ (Carries(hops[1]) => Proto = "gool" /\ Ip[hops[1]] = Ip[hops[2]])
       /\ EndTunnel
    \/ /\ pc = "inner"
       /\ hops[2] = None \/ ~\E e \in InnerCandidates : Carries(e) /\ Carries(hops[1])
       /\ EndTunnel

\* exitloc::settle: without a policy nothing is asked. With one the exit is
\* looked up through the stack, which needs somebody to pump its packets.
PumpRuns == (IF Nested(Proto) THEN "inner" ELSE "outer") \in tasks
Acceptable == PumpRuns /\ kind[Exit] = "good"

Settle ==
    /\ pc = "settle" /\ (set.policy => Acceptable)
    /\ Proceed("bind", {}) /\ UNCHANGED hops

SettleRefuses ==
    /\ pc = "settle" /\ set.policy /\ ~Acceptable
    /\ EndTunnel

\* The listeners are bound and served; in run_wireguard_tunnel the pump starts
\* only now, in the select! that waits for the end.
Expose ==
    /\ pc = "bind"
    /\ Proceed("serve", {"socks", "http"} \cup (IF Proto = "wg" THEN {"outer"} ELSE {}))
    /\ UNCHANGED hops

BindFails == pc = "bind" /\ EndTunnel

TunnelEnds == pc = "serve" /\ EndTunnel

\* Mutant: only the nested tunnels are watched.
WatchRefuses_Nested ==
    /\ pc = "serve" /\ set.policy /\ kind[Exit] = "abroad" /\ Nested(Proto)
    /\ EndTunnel

\* exitloc::watch: a lookup that does not answer changes nothing, a refused
\* country ends the tunnel.
WatchRefuses ==
    /\ pc = "serve" /\ set.policy /\ kind[Exit] = "abroad"
    /\ EndTunnel
-----------------------------------------------------------------------------
\* The process dies and is started again, perhaps with other settings on the
\* same files; fs::write truncates before it writes.
Crash ==
    /\ starts < MaxStarts /\ starts' = starts + 1
    /\ set' \in Configs
    /\ file' \in IF pc = "save" THEN {file, NoFile} ELSE {file}
    /\ pc' = "boot" /\ quick' = None /\ outer' = None /\ inner' = None /\ fails' = 0
    /\ cooldown' = [e \in Endpoints |-> 0]
    /\ hops' = <<None, None>> /\ tasks' = {}
    /\ ended' = [e \in Endpoints |-> 0]
    /\ UNCHANGED <<kind, shifts, savedAs>>

\* The network changes under the engine.
Shift ==
    /\ shifts < MaxShifts /\ shifts' = shifts + 1
    /\ \E e \in Endpoints, k \in Kinds : kind' = [kind EXCEPT ![e] = k]
    /\ UNCHANGED <<pc, loopVars, hops, tasks, file, starts, set, ended, savedAs>>

Pick == UseQuick \/ RetryLastGood \/ UseForced \/ ScanFinds \/ ScanFindsNothing
        \/ PickPair \/ PickOuter \/ PairIncomplete
Tunnel == DialOuter \/ DialInner \/ DialFails \/ Settle \/ SettleRefuses
          \/ Expose \/ BindFails \/ TunnelEnds \/ WatchRefuses
Next == Boot \/ GiveUp \/ Pick \/ SaveLastConnection \/ Tunnel \/ Crash \/ Shift

\* The loop keeps going; a scan repeated often enough turns up an endpoint that
\* carries a tunnel, if the loop keeps scanning and does not exclude it, and the
\* port, which was free when the process started, is free again. Nothing is
\* assumed about how long a tunnel lasts.
Fairness ==
    /\ WF_vars(Boot \/ GiveUp \/ Pick \/ SaveLastConnection)
    /\ WF_vars(DialOuter \/ DialInner \/ DialFails \/ Settle \/ SettleRefuses)
    /\ WF_vars(WatchRefuses) /\ WF_vars(Expose \/ BindFails)
    /\ SF_vars(Expose) /\ SF_vars(\E e \in Carrying : Found(e))

Spec == Init /\ [][Next]_vars
FairSpec == Spec /\ Fairness
-----------------------------------------------------------------------------
TypeOK ==
    /\ set \in Configs
    /\ pc \in {"boot", "head", "pick", "save", "dial", "inner", "settle", "bind", "serve"}
    /\ quick \in Maybe /\ outer \in Maybe /\ inner \in Maybe
    /\ fails \in 0 .. MaxConsecutiveFails
    /\ cooldown \in [Endpoints -> 0 .. CooldownRounds]
    /\ hops \in Maybe \X Maybe /\ tasks \subseteq Tasks
    /\ file.peer \in Maybe /\ file.carrier \in Carriers
    /\ DOMAIN file.recent \subseteq 1 .. RecentCap /\ ToSet(file.recent) \subseteq Endpoints
    /\ kind \in [Endpoints -> Kinds]
    /\ shifts \in 0 .. MaxShifts /\ starts \in 1 .. MaxStarts
    /\ ended \in [Endpoints -> 0 .. MaxConsecutiveFails]
    /\ savedAs \in [Endpoints -> SUBSET Carriers]

Dialling == pc \in {"save", "dial", "inner", "settle", "bind", "serve"}

\* Listeners and pumps belong to the tunnel that is up and to no other: nothing
\* of a tunnel that failed half way, or was refused by the exit policy, is left
\* when the next one is dialled, and an open port has every pump of its tunnel
\* behind it (the TaskGuards of run_*_tunnel and the order of binding in them).
NothingOutlivesItsTunnel ==
    /\ pc \in {"head", "pick", "save", "dial"} => tasks = {}
    /\ "socks" \in tasks => /\ pc = "serve" /\ "outer" \in tasks
                            /\ Nested(Proto) => {"inner", "forwarder"} \subseteq tasks

\* An endpoint given by hand is never replaced by a scanned, remembered or
\* assigned one, whatever fails and however often (forced in run_wireguard and
\* run_masque, pinned in run_gool and run_mim).
PinsKept ==
    Dialling => /\ set.outer # None => hops[1] = set.outer
                /\ set.inner # None /\ Nested(Proto) => hops[2] = set.inner

\* The two hops of a nested tunnel that came up leave through different edges.
HopsApart == Nested(Proto) /\ pc \in {"settle", "bind", "serve"} => Ip[hops[1]] # Ip[hops[2]]

\* Both together: a tunnel is built of the hops that were asked for, or of two
\* that differ.
HopsAsAsked == PinsKept /\ HopsApart

\* The remembered ring after any sequence of tunnels, crashes and protocol
\* changes: newest first, nobody twice, within the cap, and every entry was
\* dialled over the carrier the file names (lastconn::save).
RingSound ==
    /\ IsInjective(file.recent) /\ Len(file.recent) <= RecentCap
    /\ file.recent # <<>> => file.peer = Head(file.recent)
    /\ \A e \in ToSet(file.recent) : file.carrier \in savedAs[e]

\* What run_wireguard excludes from its scans has really ended two tunnels in a
\* row, and while it is held no tunnel is dialled on it, be it by the retry, by
\* a scan or by what was remembered.
CooldownIsEarnedAndKept ==
    Proto = "wg" /\ set.outer = None =>
        /\ \A e \in Held : ended[e] >= MaxConsecutiveFails
        /\ Dialling => hops[1] \notin Held

\* The exit policy never turns away a tunnel whose exit it wants: a tunnel that
\* is refused at settle left in a country the policy refuses, or stopped
\* working. (Plain WireGuard is apart: see WantedExitIsServed.)
RefusesOnlyUnwanted ==
    [][Proto # "wg" /\ pc = "settle" /\ pc' = "head" => kind[Exit] # "good"]_vars

\* The same for every protocol, as the help of --exit-loc promises.
WantedExitIsServed ==
    [][pc = "settle" /\ pc' = "head" => kind[Exit] # "good"]_vars

\* A tunnel whose exit has moved to a refused country does not stay exposed.
UnwantedExitIsLeft ==
    (set.policy /\ pc = "serve" /\ kind[Exit] = "abroad")
        ~> (pc # "serve" \/ kind[Exit] # "abroad")

\* The exit policy from both sides, where its lookup has a stack that works.
PolicyHolds == RefusesOnlyUnwanted /\ UnwantedExitIsLeft

\* As long as some endpoint carries a tunnel, the engine gets back to serving:
\* an endpoint that verifies and then carries nothing is not retried for ever.
RecoversOnWireGuard == <>[](Proto = "wg" /\ set.outer = None /\ ~set.policy /\ Carrying # {})
                    => []<>(pc = "serve")

\* The same for MASQUE, as the documentation promises for every transport.
RecoversOnMasque == <>[](Proto = "masque" /\ set.outer = None /\ ~set.policy /\ Carrying # {})
                    => []<>(pc = "serve")

\* Plain WireGuard with nothing given by hand keeps the promise of
\* EndpointLedger: one counter, last_good and the cooldown map account for
\* every endpoint, through crashes and restarts with other settings.
Accounted == Proto = "wg" /\ set.outer = None
Ledger == INSTANCE EndpointLedger WITH
    MaxStrikes <- MaxConsecutiveFails,
    on <- IF Accounted THEN outer ELSE None,
    strikes <- [e \in Endpoints |-> IF Accounted /\ e = outer THEN fails ELSE 0],
    held <- IF Accounted THEN Held ELSE {},
    open <- Accounted /\ pc = "serve",
    life <- starts
KeepsLedger == Ledger!Spec
=============================================================================
