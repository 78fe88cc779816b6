----------------------------- MODULE ConnectPlan -----------------------------
(***************************************************************************)
(* From the profile of a connect to the engine commands that are tried for *)
(* it: the network fingerprint and its strategy ladder (SmartAuto), the    *)
(* two-pass plan of a hand-picked protocol, the stage-1 plan of the        *)
(* chained and Tor modes, the walk over the plan, and the supervisor's     *)
(* restarts with the strategy that won (vpn/AetherVpnService.kt).          *)
(*                                                                         *)
(* VpnService models the same walk as a concurrent process and leaves the  *)
(* rungs opaque; here one session runs alone and the rungs are computed.   *)
(* Whether an attempt succeeds is the network's choice.                    *)
(***************************************************************************)
EXTENDS Profile

CONSTANTS Profiles,      \* the profiles a connect may be asked for
          MaxRestarts    \* bound on the supervisor's restarts in a row

ASSUME ProfilesAssumption == \A p \in Profiles : WellFormed(p)
ASSUME RestartsAssumption == MaxRestarts \in Nat

VARIABLES asked,     \* the profile the session was started with
          fp,        \* the network fingerprint
          phase,     \* where the session is
          rung,      \* index of the attempt in the plan
          launch,    \* the last engine launch: its profile, flags, environment and wait
          tested,    \* the port the last passed self-test went through, 0 before any
          restarts   \* the supervisor's restarts in a row

vars == <<asked, fp, phase, rung, launch, tested, restarts>>

-----------------------------------------------------------------------------
(* The plans.  A candidate is a profile and the seconds it may take.        *)

SHARE_PORT == 1080
TOR_BOOTSTRAP_TIMEOUT == 300
TOR_BRIDGE_BUDGET == 600
FIRST_PASS_MAX == 75

AutoCandidate(p, secs) == [profile |-> p, timeout |-> secs]

\* What the probes concluded: did any UDP resolver answer, did the TLS handshake pass.
DpiClass(udpOk, tlsOk) == IF udpOk THEN IF tlsOk THEN "OPEN" ELSE "SNI_FILTERING"
                                   ELSE IF tlsOk THEN "UDP_THROTTLED" ELSE "HOSTILE"

\* The fastest edges that answered, as one range setting; blank when none did.
Edges == {Blank, <<"edge1, edge2">>}
Fingerprints == [dpiClass : {DpiClass(u, t) : u, t \in BOOLEAN}, iranCellular : BOOLEAN, best : Edges]

Unprobed == [dpiClass |-> "none", iranCellular |-> FALSE, best |-> Blank]

\* Mutant: the probed ranges replace an endpoint the user pinned.
cand_OverridesEndpoint(user, f, proto, noize, h2, hard) ==
    LET p == [user EXCEPT !.protocol = proto,
                          !.noize = IF ordinal(@) >= ordinal(noize) THEN @ ELSE noize,
                          !.masqueHttp2 = @ \/ (h2 /\ proto = "MASQUE"),
                          !.fragment = @ \/ hard, !.ech = @ \/ hard, !.scanMode = "TURBO",
                          !.endpointMode = "MANUAL_RANGE", !.manualRange = f.best]
    IN  AutoCandidate(p, connectTimeout(p))

cand(user, f, proto, noize, h2, hard) ==
    LET stronger == IF ordinal(user.noize) >= ordinal(noize) THEN user.noize ELSE noize
        merged == IF stronger = "OFF" /\ f.iranCellular THEN "LIGHT" ELSE stronger
        tuned == [user EXCEPT !.protocol = proto, !.noize = merged,
                              !.masqueHttp2 = @ \/ (h2 /\ proto = "MASQUE"),
                              !.fragment = @ \/ hard, !.ech = @ \/ hard,
                              !.scanMode = "TURBO"]
        ranged == [tuned EXCEPT !.endpointMode = "MANUAL_RANGE", !.manualRange = f.best]
        p == IF user.endpointMode = "AUTO" /\ f.best # Blank THEN ranged ELSE tuned
    IN  AutoCandidate(p, connectTimeout(p))

ladder(user, f) ==
    LET c(proto, noize, h2, hard) == cand(user, f, proto, noize, h2, hard) IN
    CASE f.dpiClass = "OPEN" ->
           <<c("WIREGUARD", "OFF", FALSE, FALSE), c("MASQUE", "OFF", FALSE, FALSE),
             c("GOOL", "LIGHT", FALSE, FALSE)>>
      [] f.dpiClass = "SNI_FILTERING" ->
           <<c("WIREGUARD", "BALANCED", FALSE, FALSE), c("GOOL", "BALANCED", FALSE, FALSE),
             c("MASQUE", "FIREWALL", FALSE, TRUE)>>
      [] f.dpiClass = "UDP_THROTTLED" ->
           <<c("MASQUE", "LIGHT", TRUE, TRUE), c("GOOL", "AGGRESSIVE", FALSE, FALSE),
             c("WIREGUARD", "GFW", FALSE, FALSE)>>
      [] f.dpiClass = "HOSTILE" ->
           <<c("MASQUE", "GFW", TRUE, TRUE), c("GOOL", "AGGRESSIVE", FALSE, FALSE),
             c("WIREGUARD", "AGGRESSIVE", FALSE, FALSE)>>

\* Mutant: the last resort keeps the ranges the probes liked.
fallback_KeepsRanges(user, f) ==
    LET p == [ladder(user, f)[1].profile EXCEPT !.scanMode = user.scanMode]
    IN  AutoCandidate(p, connectTimeout(p))

\* The last resort: the first strategy on the engine's own ranges and the user's scan mode.
fallback(user, f) ==
    LET first == [ladder(user, f)[1].profile EXCEPT !.scanMode = user.scanMode]
        p == IF user.endpointMode = "AUTO"
             THEN [first EXCEPT !.endpointMode = "AUTO", !.manualRange = user.manualRange]
             ELSE first
    IN  AutoCandidate(p, connectTimeout(p))

\* distinctBy { it.profile }: the three strategies differ in their protocol, so only the
\* last resort can repeat one.
buildPlan(user, f) ==
    LET l == ladder(user, f)
        fb == fallback(user, f)
    IN  IF \E i \in DOMAIN l : l[i].profile = fb.profile THEN l ELSE Append(l, fb)

directPlan(p) ==
    LET full == connectTimeout(p)
        masque == p.protocol = "MASQUE"
        hardened == [p EXCEPT !.noize = IF @ = "OFF" THEN "FIREWALL" ELSE @,
                              !.masqueHttp2 = @ \/ masque, !.fragment = @ \/ masque,
                              !.ech = @ \/ masque]
    IN  IF hardened = p THEN <<AutoCandidate(p, full)>>
        ELSE <<AutoCandidate(p, IF full < FIRST_PASS_MAX THEN full ELSE FIRST_PASS_MAX),
               AutoCandidate(hardened, full)>>

torBudget(p) == IF p.torBridges # "OFF" THEN TOR_BRIDGE_BUDGET ELSE TOR_BOOTSTRAP_TIMEOUT

stageOf(p) == [p EXCEPT !.backend = CASE torMode(@) = "CHAIN"   -> "AETHER_TOR"
                                      [] torMode(@) = "ONLY"    -> "TOR"
                                      [] torMode(@) = "REVERSE" -> "TOR_AETHER"
                                      [] OTHER                  -> "AETHER",
                        !.proxyMode = FALSE, !.lanShare = FALSE, !.chainedStage = TRUE]

connectAetherStage(p, f) ==
    LET stage == stageOf(p) IN
    IF ~usesWarp(stage.backend) THEN <<AutoCandidate(stage, torBudget(stage))>>
    ELSE IF torMode(stage.backend) = "REVERSE"
    THEN <<AutoCandidate([stage EXCEPT !.protocol = "MASQUE", !.masqueHttp2 = TRUE],
                         torBudget(stage))>>
    ELSE IF stage.protocol = "AUTO" THEN buildPlan(stage, f) ELSE directPlan(stage)

\* connectFlow sends the external and the Tor-fronted modes through a stage of their own.
Staged(p) == usesExternal(p.backend) \/ needsTorFront(p.backend)

Plan == IF Staged(asked) THEN connectAetherStage(asked, fp)
        ELSE IF asked.protocol = "AUTO" THEN buildPlan(asked, fp) ELSE directPlan(asked)

\* The port the device's traffic, or in proxy mode the user's apps, will use.
devicePort(p) == IF p.proxyMode THEN SHARE_PORT ELSE exposedSocksPort(p.backend)

Launched(c) == [profile |-> c.profile, args |-> toArgs(c.profile), env |-> toEnv(c.profile),
                wait |-> c.timeout]

-----------------------------------------------------------------------------
(* The walk. *)

NoLaunch == Launched(AutoCandidate(ConnectionProfile, 0))

Init == /\ asked \in Profiles
        /\ fp = Unprobed
        /\ phase = "requested"
        /\ rung = 1
        /\ launch = NoLaunch
        /\ tested = 0
        /\ restarts = 0

\* Only a plan that resolves AUTO looks at the network first.
NeedsProbe(p) == /\ p.protocol = "AUTO"
                 /\ Staged(p) => usesWarp(p.backend)

fingerprint == /\ phase = "requested"
               /\ fp' \in IF NeedsProbe(asked) THEN Fingerprints ELSE {Unprobed}
               /\ phase' = "planned"
               /\ UNCHANGED <<asked, rung, launch, tested, restarts>>

\* connectAttempt: the engine of this rung is started.
connectAttempt == /\ phase = "planned"
                  /\ launch' = Launched(Plan[rung])
                  /\ phase' = "trying"
                  /\ UNCHANGED <<asked, fp, rung, tested, restarts>>

\* The port never opened or the self-test failed: the next strategy, or the session fails.
AttemptFails == /\ phase = "trying"
                /\ IF rung < Len(Plan) THEN rung' = rung + 1 /\ phase' = "planned"
                                       ELSE phase' = "failed" /\ UNCHANGED rung
                /\ UNCHANGED <<asked, fp, launch, tested, restarts>>

\* A stage is only gated on outbound TCP of the engine's port; the front comes next.
StagePasses == /\ phase = "trying" /\ Staged(asked)
               /\ phase' = "stageUp"
               /\ UNCHANGED <<asked, fp, rung, launch, tested, restarts>>

PlainPasses == /\ phase = "trying" /\ ~Staged(asked)
               /\ phase' = "connected"
               /\ tested' = devicePort(asked)
               /\ UNCHANGED <<asked, fp, rung, launch, restarts>>

\* The front is up and the self-test through it answered; connectExternal and connectTor.
FrontPasses == /\ phase = "stageUp"
               /\ phase' = "connected"
               /\ tested' = devicePort(asked)
               /\ UNCHANGED <<asked, fp, rung, launch, restarts>>

FrontFails == /\ phase = "stageUp"
              /\ phase' = "failed"
              /\ UNCHANGED <<asked, fp, rung, launch, tested, restarts>>

\* superviseEngine: the engine died and is started again with the profile that won.  A
\* session with an external stage ends instead.
superviseEngine ==
    /\ phase \in {"connected", "reconnecting"} /\ ~usesExternal(asked.backend)
    /\ restarts < MaxRestarts
    /\ restarts' = restarts + 1
    /\ launch' = Launched(AutoCandidate(Plan[rung].profile, connectTimeout(Plan[rung].profile)))
    /\ phase' = "reconnecting"
    /\ UNCHANGED <<asked, fp, rung, tested>>

\* Diagnostics.run() with its default port.
RestartPasses == /\ phase = "reconnecting"
                 /\ phase' = "connected"
                 /\ tested' = SOCKS_PORT
                 /\ restarts' = 0
                 /\ UNCHANGED <<asked, fp, rung, launch>>

SessionEnds == /\ phase \in {"connected", "reconnecting"}
               /\ phase = "reconnecting" => restarts = MaxRestarts
               /\ phase' = "failed"
               /\ UNCHANGED <<asked, fp, rung, launch, tested, restarts>>

Next == \/ fingerprint \/ connectAttempt \/ AttemptFails \/ StagePasses \/ PlainPasses
        \/ FrontPasses \/ FrontFails \/ superviseEngine \/ RestartPasses \/ SessionEnds

Spec == Init /\ [][Next]_vars

-----------------------------------------------------------------------------
(* What the engine does with a command, from the native sources.            *)

\* The obfuscation profile that runs: without --noize the engine picks its own default.
engineNoize(l) ==
    IF "--noize" \in Names(l.args) THEN ValueOf(l.args, "--noize")[1]
    ELSE IF Names(l.args) \cap {"--masque", "--mim"} # {} THEN "FIREWALL" ELSE "BALANCED"

\* The overall deadline of the engine's endpoint scan, in seconds; 0 for no scan.
scanDeadline(l) ==
    IF "--scan" \notin Names(l.args) THEN 0
    ELSE IF Names(l.args) \cap {"--masque", "--mim"} # {}
    THEN [TURBO |-> 45, BALANCED |-> 120, THOROUGH |-> 300, STEALTH |-> 60,
          IRONCLAD |-> 180][ValueOf(l.args, "--scan")[1]]
    ELSE [TURBO |-> 30, BALANCED |-> 80, THOROUGH |-> 250, STEALTH |-> 60,
          IRONCLAD |-> 180][ValueOf(l.args, "--scan")[1]]

-----------------------------------------------------------------------------
(* Properties. *)

Launching == phase \notin {"requested", "planned"}

\* Type invariant of the session's state.
TypeOK == /\ DOMAIN asked = Fields
          /\ fp \in Fingerprints \cup {Unprobed}
          /\ phase \in {"requested", "planned", "trying", "stageUp", "connected", "reconnecting", "failed"}
          /\ phase # "requested" => rung \in 1..Len(Plan)
          /\ DOMAIN launch.profile = Fields /\ launch.wait \in Nat
          /\ tested \in {0, SOCKS_PORT, TOR_FRONT_PORT, CHAIN_SOCKS_PORT, SHARE_PORT}
          /\ restarts \in 0..MaxRestarts

ProtocolFlags == {"--masque", "--wg", "--gool", "--mim"}
ProtocolFlag == [MASQUE |-> "--masque", WIREGUARD |-> "--wg", GOOL |-> "--gool", MIM |-> "--mim"]

\* A protocol picked by hand is never swapped for another one, whichever rung, stage or
\* restart launches the engine; only the reverse chain, which carries nothing but MASQUE,
\* overrides it.
ProtocolNeverSwapped ==
    Launching /\ asked.protocol # "AUTO" /\ torMode(asked.backend) \notin {"REVERSE", "ONLY"}
        => Names(launch.args) \cap ProtocolFlags = {ProtocolFlag[asked.protocol]}

\* The engine is never given a combination it refuses or cannot run: a mode with a tunnel
\* names exactly one protocol, plain Tor names none, and the reverse chain never asks for a
\* UDP transport and always rides HTTP/2.
EngineAccepts ==
    Launching =>
        LET ps == Names(launch.args) \cap ProtocolFlags IN
        /\ "--tor-only" \in Names(launch.args) => ps = {}
        /\ "--tor-only" \notin Names(launch.args) => \E f \in ps : ps = {f}
        /\ "--tor-reverse" \in Names(launch.args) =>
               ps = {"--masque"} /\ ValueOf(launch.env, "AETHER_MASQUE_HTTP2") = <<1>>

\* Staging a session never changes how Tor takes part in it: the Tor flags of every launch
\* are those of the mode the user chose.
TorSurvivesStaging ==
    Launching => Names(launch.args) \cap {"--tor", "--tor-only", "--tor-reverse"}
                     = Names(TorArgs(asked)) \cap {"--tor", "--tor-only", "--tor-reverse"}

\* An endpoint the user pinned is used by every attempt and restart, and nothing else is.
PinnedEndpointKept ==
    Launching /\ asked.endpointMode # "AUTO" /\ usesWarp(asked.backend) =>
        /\ hasManualPeer(asked) => <<"--peer", asked.manualPeer>> \in launch.args
        /\ {f \in launch.env : f[1] = "AETHER_SCAN_CIDRS"}
               = {f \in toEnv(asked) : f[1] = "AETHER_SCAN_CIDRS"}

\* No rung asks for less cover than the user did: obfuscation, HTTP/2, fragmentation and
\* encrypted hello are only ever strengthened.
NeverWeakerThanAsked ==
    Launching => /\ ordinal(launch.profile.noize) >= ordinal(asked.noize)
                 /\ asked.masqueHttp2 => launch.profile.masqueHttp2
                 /\ asked.fragment => launch.profile.fragment
                 /\ asked.ech => launch.profile.ech

\* Whatever rung, stage or restart launches the engine, what the user decided is in the
\* launch: cand, stageOf, hardened and the plans copy the profile again and again.
AskedIsKept ==
    ProtocolNeverSwapped /\ TorSurvivesStaging /\ PinnedEndpointKept /\ NeverWeakerThanAsked

\* A ladder that gives up has tried the engine's full ranges: with no endpoint pinned, the
\* last attempt is not restricted to the ranges the probes liked.
LastResortUnrestricted ==
    phase = "failed" /\ tested = 0 /\ rung = Len(Plan) /\ asked.endpointMode = "AUTO"
        /\ usesWarp(asked.backend)
        => /\ "AETHER_SCAN_CIDRS" \notin Names(launch.env)
           /\ ValueOf(launch.args, "--scan") = <<asked.scanMode>>

\* Connected is only reported after a self-test through the port the device uses.
TestsTheDevicePort == phase = "connected" => tested = devicePort(asked)

\* The reverse chain makes one attempt, with a budget sized for a Tor bootstrap.
ReverseIsOneTorAttempt ==
    torMode(asked.backend) = "REVERSE" /\ phase = "trying"
        => Len(Plan) = 1 /\ launch.wait = torBudget(asked)

\* An engine is never given up on while it is still within its own scan budget.
WaitOutlastsScan == phase = "trying" => launch.wait > scanDeadline(launch)

\* With obfuscation off, the engine runs without it on the pass that is "as configured".
OffMeansOff ==
    phase = "trying" /\ rung = 1 /\ asked.noize = "OFF" /\ asked.protocol # "AUTO"
        /\ usesWarp(asked.backend) => engineNoize(launch) = "OFF"

\* The anti-DPI pass of a hand-picked protocol runs at least the obfuscation of the pass
\* before it.
HardenedIsHarder ==
    phase = "trying" /\ rung = 2 /\ asked.protocol # "AUTO" =>
        ordinal(engineNoize(launch)) >= ordinal(engineNoize(Launched(Plan[1])))
=============================================================================
