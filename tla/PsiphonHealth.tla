--------------------------- MODULE PsiphonHealth ---------------------------
(***************************************************************************)
(* The session watchdog transport/PsiphonHealth.kt: it counts the          *)
(* destinations a Psiphon server refuses, convicts a server that filters,  *)
(* and orders a rotation off it.                                           *)
(*                                                                         *)
(* Callers: the relay threads of PsiphonSocksFront (Reporters), the        *)
(* psiphon-tunnel-core notice thread, and the transport that binds and     *)
(* resets the watchdog.  The two kinds of callback test `action` and read  *)
(* the clock before they enter synchronized(lock); each is therefore two   *)
(* steps here, the unlocked prologue and the locked body.  reset() does    *)
(* not take the lock: it may fall between the two.                         *)
(*                                                                         *)
(* The watchdog's fields are one record h and every private function of    *)
(* the source is an operator from records to records, composed in the      *)
(* order the code calls them.  Time is a discrete clock; an instant of 0   *)
(* means "never", as in the code.                                          *)
(***************************************************************************)
EXTENDS Integers, FiniteSets

CONSTANTS
    Servers,                    \* diagnosticIDs of Psiphon servers
    Regions,                    \* exit regions
    RegionOf,                   \* the region a ConnectedServer notice reports
    Targets,                    \* host:port destinations apps dial
    ProbeTargets,               \* the ones the app dials for its own checks
    Structural,                 \* servers that refuse udpgw, TCP/53 or IPv6
    Reporters,                  \* relay threads of the front
    NoServer, NoRegion,         \* the empty string of the code
    WINDOW_MS, DISTINCT_TARGETS_TRIGGER, FAILURE_DELTA_TRIGGER,
    FAILURE_CORROBORATION, COOLDOWN_MS, REPEAT_COOLDOWN_MS, SETTLE_MS,
    HEALTHY_MS, MAX_ROTATIONS,
    DRAIN_MS,                   \* how long a dropped tunnel's refusals drain
    MaxTime, MaxSessions, MaxFailures   \* bounds of the model

ASSUME ServersAssumption ==
    /\ NoServer \notin Servers /\ NoRegion \notin Regions
    /\ RegionOf \in [Servers -> Regions]
    /\ ProbeTargets \subseteq Targets /\ Structural \subseteq Servers

ASSUME ConstantsAssumption ==
    /\ WINDOW_MS \in Nat \ {0} /\ DISTINCT_TARGETS_TRIGGER \in Nat \ {0}
    /\ FAILURE_DELTA_TRIGGER \in Nat \ {0} /\ FAILURE_CORROBORATION \in Nat
    /\ COOLDOWN_MS \in Nat /\ REPEAT_COOLDOWN_MS \in Nat
    /\ SETTLE_MS \in Nat /\ HEALTHY_MS \in Nat \ {0}
    /\ MAX_ROTATIONS \in Nat
    /\ DRAIN_MS \in Nat /\ DRAIN_MS <= SETTLE_MS
    /\ MaxTime \in Nat /\ MaxSessions \in Nat /\ MaxFailures \in Nat

VARIABLES
    h,                \* the fields of the PsiphonHealth object
    selfProbeTargets, \* never cleared, not even by reset()
    calls,            \* onDestinationRefused calls between check and lock
    notice,           \* the onNotice call between clock read and lock, if any
    now,              \* System.currentTimeMillis()
    tunnel,           \* external: the server whose tunnel is up
    left, drain,      \* external: the dropped tunnel whose refusals still
                      \* drain, and for how long
    failures,         \* external: the tunnel's port forward failure counter
    sessions,         \* number of bind() calls so far
    from,             \* history: whose tunnel refused each recorded target
    stray,            \* history: targets recorded by a late call
    relanded          \* history: the active tunnel came up on a convict

vars == <<h, selfProbeTargets, calls, notice, now, tunnel, left, drain,
          failures, sessions, from, stray, relanded>>

libVars == <<tunnel, left, drain>>
ghosts  == <<from, stray, relanded>>

AnyServer == Servers \cup {NoServer}

Health ==
    [ action            : BOOLEAN,      \* a session is bound
      activeServer      : AnyServer,
      activeRegion      : Regions \cup {NoRegion},
      serverRegions     : [Servers -> Regions \cup {NoRegion}],
      filtering         : SUBSET Servers,
      filteringRegions  : SUBSET Regions,
      rotations         : Nat,
      lastRotationAt    : Nat,
      settleUntil       : Nat,
      tunnelSince       : Nat,
      refusedTargets    : [Targets -> Nat],        \* 0: not in the map
      windowStartedAt   : Nat,
      windowBaseFailures: Int,                     \* -1: not read yet
      order             : {"none", "RECONNECT", "RESTART"},
                                    \* the rotation handed to the transport
      downgraded        : AnyServer,   \* whose refusal latched the front's
                                       \* udpgw / TCP-53 / IPv6 downgrade
      issued            : Nat ]        \* history: rotate() calls since bind()

NoNotice == [kind |-> "none"]
Notices ==
    {NoNotice}
      \cup [kind : {"ActiveTunnel"}, server : Servers, at : Nat, known : BOOLEAN]
      \cup [kind : {"Failures"}, server : Servers, at : Nat, count : Nat]

\* late (history): the counters were re-pointed, or the target registered as a
\* probe, after the call passed its checks; or it passed them in the first
\* SETTLE_MS of a tunnel, whose settle window a verdict on an older clock reading
\* had moved back.
Calls == [thread : Reporters, target : Targets, at : Nat, src : AnyServer,
          late : BOOLEAN]

Delayed(cs) == {[c EXCEPT !.late = TRUE] : c \in cs}

-----------------------------------------------------------------------------
(* The private functions, each from the record it finds to the one it      *)
(* leaves.  All but Cleared run with the lock held.                        *)

NoTargets == [t \in Targets |-> 0]

\* reset(): every field but selfProbeTargets
Cleared ==
    [ action |-> FALSE, activeServer |-> NoServer, activeRegion |-> NoRegion,
      serverRegions |-> [s \in Servers |-> NoRegion],
      filtering |-> {}, filteringRegions |-> {},
      rotations |-> 0, lastRotationAt |-> 0, settleUntil |-> 0,
      tunnelSince |-> 0, refusedTargets |-> NoTargets,
      windowStartedAt |-> 0, windowBaseFailures |-> -1,
      order |-> "none", downgraded |-> NoServer, issued |-> 0 ]

DistinctTargets(g) == Cardinality({t \in Targets : g.refusedTargets[t] # 0})

EmptyWindow(g) ==
    [g EXCEPT !.refusedTargets = NoTargets, !.windowStartedAt = 0,
              !.windowBaseFailures = -1]

\* Mutant: the window survives a change of server.
adoptServer_KeepsWindow(g, s) ==
    [g EXCEPT !.activeServer = s, !.activeRegion = g.serverRegions[s]]

adoptServer(g, s) ==
    LET r == IF g.activeServer = s THEN g ELSE EmptyWindow(g)
    IN  [r EXCEPT !.activeServer = s, !.activeRegion = g.serverRegions[s]]

\* Mutant: the region of the convict is forgotten.
convict_NoRegion(g) ==
    IF g.activeServer = NoServer THEN g
    ELSE [g EXCEPT !.filtering = @ \cup {g.activeServer}]

convict(g) ==
    IF g.activeServer = NoServer
    THEN g
    ELSE [g EXCEPT !.filtering = @ \cup {g.activeServer},
                   !.filteringRegions =
                        @ \cup ({g.serverRegions[g.activeServer]} \ {NoRegion})]

openOrRollWindow(g, t) ==
    IF g.windowStartedAt = 0 \/ t - g.windowStartedAt > WINDOW_MS
    THEN [EmptyWindow(g) EXCEPT !.windowStartedAt = t]
    ELSE [g EXCEPT !.refusedTargets =
              [x \in Targets |-> IF t - g.refusedTargets[x] > WINDOW_MS
                                 THEN 0 ELSE g.refusedTargets[x]]]

\* Mutant: a long-lived tunnel refunds whether its server is convicted or not.
refundIfHealthy_Blind(g, t) ==
    IF g.tunnelSince # 0 /\ t - g.tunnelSince >= HEALTHY_MS
    THEN [g EXCEPT !.rotations = 0]
    ELSE g

refundIfHealthy(g, t) ==
    IF /\ g.rotations # 0
       /\ g.tunnelSince # 0
       /\ t - g.tunnelSince >= HEALTHY_MS
       /\ g.activeServer \notin g.filtering
    THEN [g EXCEPT !.rotations = 0]
    ELSE g

\* The guards of maybeRotate after the refund: budget and cooldown.
RotationAllowed(g, t, repeat) ==
    /\ g.action
    /\ g.rotations < MAX_ROTATIONS
    /\ \/ g.lastRotationAt = 0
       \/ t - g.lastRotationAt >= IF repeat THEN REPEAT_COOLDOWN_MS ELSE COOLDOWN_MS

\* Mutant: the budget is not charged.
Rotated_Free(g, t, repeat) ==
    [EmptyWindow(g) EXCEPT
        !.lastRotationAt = t,
        !.settleUntil = t + SETTLE_MS,
        !.downgraded = NoServer,
        !.order = "RECONNECT",
        !.issued = g.issued + 1]

\* The rotation itself: counters of the server being left are dropped, the
\* settle window opens, PsiphonSocksFront.onServerRotated() forgets the
\* per-server downgrades and the transport is handed the order.
Rotated(g, t, repeat) ==
    [EmptyWindow(g) EXCEPT
        !.rotations = g.rotations + 1,
        !.lastRotationAt = t,
        !.settleUntil = t + SETTLE_MS,
        !.downgraded = NoServer,
        !.order = IF g.rotations = 0 /\ ~repeat THEN "RECONNECT" ELSE "RESTART",
        !.issued = g.issued + 1]

maybeRotate(g, t, repeat) ==
    LET r == IF g.action THEN refundIfHealthy(g, t) ELSE g
    IN  IF RotationAllowed(r, t, repeat) THEN Rotated(r, t, repeat) ELSE r

\* The locked body of onDestinationRefused.
Refused(g, target, t) ==
    LET r == [openOrRollWindow(g, t) EXCEPT !.refusedTargets[target] = t]
    IN  IF DistinctTargets(r) >= DISTINCT_TARGETS_TRIGGER
        THEN maybeRotate(convict(r), t, FALSE)
        ELSE r

\* The locked body of onNotice for a "port forward failures" notice.
CountedFailures(g, s, count, t) ==
    LET a     == IF g.activeServer = NoServer THEN adoptServer(g, s) ELSE g
        w     == openOrRollWindow(a, t)
        based == IF w.windowBaseFailures < 0
                 THEN [w EXCEPT !.windowBaseFailures = count] ELSE w
        delta == count - based.windowBaseFailures
    IN  IF s # a.activeServer \/ t < a.settleUntil THEN a
        ELSE IF delta < 0 THEN [based EXCEPT !.windowBaseFailures = count]
        ELSE IF \/ delta < FAILURE_DELTA_TRIGGER
                \/ DistinctTargets(based) < FAILURE_CORROBORATION
             THEN based
             ELSE maybeRotate(convict(based), t, FALSE)

\* The locked body of onTunnelEstablished; `known` was read before the lock.
Established(g, s, t, known) ==
    LET r == [adoptServer(g, s) EXCEPT !.settleUntil = t + SETTLE_MS,
                                       !.tunnelSince = t]
    IN  IF known THEN maybeRotate(r, t, TRUE) ELSE r

-----------------------------------------------------------------------------
Init ==
    /\ h = Cleared
    /\ selfProbeTargets = {}
    /\ calls = {}
    /\ notice = NoNotice
    /\ now = 1
    /\ tunnel = NoServer /\ left = NoServer /\ drain = 0
    /\ failures = 0
    /\ sessions = 0
    /\ from = [t \in Targets |-> NoServer]
    /\ stray = {}
    /\ relanded = FALSE

\* PsiphonTransport.establish() binds a new controller before it starts it;
\* the previous one was stopped, and stopping waits for its notices.
bind ==
    /\ sessions < MaxSessions
    /\ tunnel = NoServer /\ notice = NoNotice
    /\ h' = [Cleared EXCEPT !.action = TRUE]
    /\ sessions' = sessions + 1
    /\ left' = NoServer /\ drain' = 0
    /\ calls' = Delayed(calls)
    /\ stray' = {}
    /\ relanded' = FALSE
    /\ UNCHANGED <<selfProbeTargets, notice, now, tunnel, failures, from>>

\* PsiphonTransport.stop(): reset() comes first, the tunnel drops later.
reset ==
    /\ h.action
    /\ h' = Cleared
    /\ calls' = Delayed(calls)
    /\ stray' = {}
    /\ relanded' = FALSE
    /\ UNCHANGED <<selfProbeTargets, notice, now, libVars, failures,
                   sessions, from>>

registerSelfProbe(t) ==
    /\ t \notin selfProbeTargets
    /\ selfProbeTargets' = selfProbeTargets \cup {t}
    /\ calls' = {c \in calls : c.target # t} \cup Delayed({c \in calls : c.target = t})
    /\ UNCHANGED <<h, notice, now, libVars, failures, sessions, ghosts>>

\* Where a non-zero SOCKS reply can come from at this moment: the live tunnel,
\* a dropped one that still drains, or the library itself, which answers
\* "no active tunnels" while none is up.
Refusers ==
    {s \in Servers : s \in {tunnel, left}}
      \cup (IF tunnel = NoServer THEN {NoServer} ELSE {})

\* establish() starts the front once the session's first tunnel is up.
FrontRuns == h.tunnelSince # 0

\* The unlocked prologue of onDestinationRefused.
onDestinationRefused(r, t, src) ==
    /\ \A c \in calls : c.thread # r
    /\ h.action /\ FrontRuns
    /\ t \notin selfProbeTargets
    /\ ~(now < h.settleUntil)
    /\ src \in Refusers
    /\ calls' = calls \cup {[thread |-> r, target |-> t, at |-> now, src |-> src,
                             late |-> now < h.tunnelSince + SETTLE_MS]}
    /\ UNCHANGED <<h, selfProbeTargets, notice, now, libVars, failures,
                   sessions, ghosts>>

\* ... and its locked body.
RecordRefusal(c) ==
    /\ h' = Refused(h, c.target, c.at)
    /\ calls' = calls \ {c}
    /\ from' = [t \in Targets |-> IF h'.refusedTargets[t] = 0 THEN NoServer
                                  ELSE IF t = c.target THEN c.src ELSE from[t]]
    /\ stray' = IF c.late THEN stray \cup {c.target} ELSE stray \ {c.target}
    /\ UNCHANGED <<selfProbeTargets, notice, now, libVars, failures, sessions,
                   relanded>>

\* A structural refusal (udpgw intercept, TCP/53, IPv6) latches the front's
\* downgrade instead of reaching the watchdog.
StructuralRefusal(src) ==
    /\ h.action /\ FrontRuns
    /\ src \in Refusers \cap Structural
    /\ h.downgraded = NoServer
    /\ h' = [h EXCEPT !.downgraded = src]
    /\ UNCHANGED <<selfProbeTargets, calls, notice, now, libVars, failures,
                   sessions, ghosts>>

\* The library establishes a tunnel on s.  Its ConnectedServer notice teaches
\* the region; the ActiveTunnel notice that follows reads the clock and the
\* blacklist before it asks for the lock.
onTunnelEstablished(s) ==
    /\ notice = NoNotice
    /\ tunnel = NoServer
    /\ h.action
    /\ h' = [h EXCEPT !.serverRegions[s] = RegionOf[s]]
    /\ tunnel' = s
    /\ failures' = 0
    /\ notice' = [kind |-> "ActiveTunnel", server |-> s, at |-> now,
                  known |-> s \in h.filtering]
    /\ UNCHANGED <<selfProbeTargets, calls, now, left, drain, sessions, ghosts>>

AdoptTunnel ==
    /\ notice.kind = "ActiveTunnel"
    /\ h' = Established(h, notice.server, notice.at, notice.known)
    /\ notice' = NoNotice
    /\ calls' = Delayed(calls)
    /\ stray' = IF notice.server = h.activeServer THEN stray ELSE {}
    /\ relanded' = notice.known
    /\ UNCHANGED <<selfProbeTargets, now, libVars, failures, sessions, from>>

\* "port forward failures for <server>: <n>", for the live tunnel or as the
\* tail of a dropped one.
onFailuresNotice(s) ==
    /\ notice = NoNotice
    /\ h.action
    /\ s \in Refusers \ {NoServer}
    /\ failures < MaxFailures
    /\ failures' = failures + 1
    /\ notice' = [kind |-> "Failures", server |-> s, at |-> now, count |-> failures + 1]
    /\ UNCHANGED <<h, selfProbeTargets, calls, now, libVars, sessions, ghosts>>

CountFailures ==
    /\ notice.kind = "Failures"
    /\ h' = CountedFailures(h, notice.server, notice.count, notice.at)
    /\ notice' = NoNotice
    /\ calls' = IF h.activeServer = NoServer THEN Delayed(calls) ELSE calls
    /\ stray' = IF h.activeServer = NoServer THEN {} ELSE stray
    /\ UNCHANGED <<selfProbeTargets, now, libVars, failures, sessions,
                   from, relanded>>

\* The library drops the tunnel: ordered by a rotation, on stop, or by itself.
TunnelDrops ==
    /\ tunnel # NoServer
    /\ tunnel' = NoServer
    /\ left' = IF DRAIN_MS > 0 THEN tunnel ELSE NoServer
    /\ drain' = DRAIN_MS
    /\ h' = [h EXCEPT !.order = "none"]
    /\ UNCHANGED <<selfProbeTargets, calls, notice, now, failures, sessions, ghosts>>

Tick ==
    /\ now < MaxTime
    /\ now' = now + 1
    /\ drain' = IF drain > 0 THEN drain - 1 ELSE 0
    /\ left' = IF drain > 1 THEN left ELSE NoServer
    /\ UNCHANGED <<h, selfProbeTargets, calls, notice, tunnel, failures,
                   sessions, ghosts>>

Next ==
    \/ bind
    \/ reset
    \/ \E t \in ProbeTargets : registerSelfProbe(t)
    \/ \E r \in Reporters, t \in Targets, s \in AnyServer :
            onDestinationRefused(r, t, s)
    \/ \E c \in calls : RecordRefusal(c)
    \/ \E s \in Structural : StructuralRefusal(s)
    \/ \E s \in Servers : onTunnelEstablished(s)
    \/ AdoptTunnel
    \/ \E s \in Servers : onFailuresNotice(s)
    \/ CountFailures
    \/ TunnelDrops
    \/ Tick

Spec == Init /\ [][Next]_vars

-----------------------------------------------------------------------------
(* Properties.                                                             *)

\* Every field has the shape its declaration gives it, and the clock readings
\* a callback carries into the lock are not in the future.
TypeOK ==
    /\ h \in Health
    /\ selfProbeTargets \subseteq ProbeTargets
    /\ calls \subseteq Calls
    /\ notice \in Notices
    /\ now \in Nat \ {0}
    /\ tunnel \in AnyServer /\ left \in AnyServer /\ drain \in Nat
    /\ failures \in Nat /\ sessions \in Nat
    /\ from \in [Targets -> AnyServer]
    /\ stray \subseteq Targets /\ relanded \in BOOLEAN

\* "there are at most MAX_ROTATIONS of them": however refusals, notices and
\* resets interleave, one bound session never hands the transport more than
\* MAX_ROTATIONS rotations (maybeRotate, MAX_ROTATIONS).
RotationCap == h.issued <= MAX_ROTATIONS

\* The rotation budget only shrinks while a session stays bound: no step that
\* keeps `action` set lowers the counter maybeRotate compares with
\* MAX_ROTATIONS.  (It is what makes the cap hold for a whole session, and
\* it says that the refund branch of refundIfHealthy is never taken.)
BudgetOnlyShrinks ==
    [][h.action /\ h'.action /\ sessions' = sessions
          => h'.rotations >= h.rotations]_vars

\* "refusals arriving in the first SETTLE_MS of a new tunnel are attributed to
\* the tunnel that was left": a refusal on record was made by the active
\* server (or by no server at all, while no tunnel was up), unless its thread
\* had already passed the settle check when the counters were re-pointed, or
\* passed it in a settle window that was moved back, or the ActiveTunnel notice
\* is still waiting for the lock.
ForeignEvidenceIsInFlight ==
    \A t \in Targets : h.refusedTargets[t] # 0 =>
        \/ from[t] \in {h.activeServer, NoServer}
        \/ t \in stray
        \/ notice.kind = "ActiveTunnel"

\* A slow trickle never adds up: refusals counted together lie within one
\* window (openOrRollWindow), stale clock readings of delayed threads aside.
EvidenceFitsWindow ==
    \A t \in Targets : h.refusedTargets[t] # 0 =>
        /\ h.windowStartedAt # 0
        /\ h.refusedTargets[t] <= h.windowStartedAt + WINDOW_MS

\* What a verdict is made of: refusals of the server in use, all within one window.
EvidenceIsSound == ForeignEvidenceIsInFlight /\ EvidenceFitsWindow

\* The list of regions nextEgressAway steers around is exactly the regions of
\* the convicted servers, so no clean region is ever ruled out and no convict's
\* region is missed, whatever order regions and verdicts arrive in.
BlacklistAgrees ==
    h.filteringRegions = {h.serverRegions[s] : s \in h.filtering} \ {NoRegion}

\* maybeRotate's comment: "the settle window keeps its dying flows from framing
\* its replacement": no verdict shortens the settle window of the tunnel in use.
SettleCoversTunnel ==
    h.action /\ h.tunnelSince # 0 => h.settleUntil >= h.tunnelSince + SETTLE_MS

\* The class comment: "Landing back on a server already proven to filter.  No
\* new evidence is required ... the rotation is re-issued at once instead of
\* after another minute of broken browsing".  With budget left, a tunnel that
\* came up on a convicted server is not kept beyond REPEAT_COOLDOWN_MS.
RelandingIsRotated ==
    h.action /\ relanded /\ h.rotations < MAX_ROTATIONS
        => now - h.lastRotationAt <= REPEAT_COOLDOWN_MS

\* The class comment: "A server that then stays clean for HEALTHY_MS refunds
\* the budget": a conviction after so long a clean streak is answered from a
\* fresh budget, so at most one rotation is on the books after it.  (Callbacks
\* delayed between clock reading and lock are left out.)
CleanStreakRefunds ==
    [][\A s \in h'.filtering \ h.filtering :
          /\ h.tunnelSince # 0 /\ now - h.tunnelSince >= HEALTHY_MS
          /\ \A c \in calls : c.at = now
          /\ notice # NoNotice => notice.at = now
          => h'.rotations <= 1]_vars

\* The class comment: "when a server proves it is filtering rather than
\* hiccupping" and relayThroughPsiphon's "A REPLY, not a dead proxy: this server
\* declined to dial this destination": every refusal on record is one the
\* active server made.
EvidenceIsFromActiveServer ==
    \A t \in Targets : h.refusedTargets[t] # 0 => from[t] = h.activeServer

\* selfProbeTargets' comment: "they register here so that they can never be
\* counted as evidence about the server".
ProbesAreNoEvidence == \A t \in ProbeTargets : h.refusedTargets[t] = 0

\* PsiphonSocksFront.onServerRotated: "keeping it after a rotation would leave
\* a perfectly capable replacement server permanently downgraded": the first
\* tunnel after a rotation never runs under a downgrade another server earned.
DowngradeIsOwn ==
    /\ tunnel # NoServer /\ notice = NoNotice /\ h.action
    /\ h.issued = 1 /\ h.tunnelSince > h.lastRotationAt
    => h.downgraded \in {NoServer, tunnel}
=============================================================================
