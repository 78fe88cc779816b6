----------------------------- MODULE WgSession -----------------------------
(***************************************************************************)
(* One WireGuard tunnel of the engine (aether/src/wireguard.rs): the       *)
(* verification that hands over a session, and the four tasks of           *)
(* WgTunnel::run that keep it alive on one socket and one lock:            *)
(*   reader  recv_task    decapsulates, notes when something valid came    *)
(*   writer  send_task    encapsulates what the netstack sends             *)
(*   timer   timer_task   runs the session's timers, re-handshakes in place *)
(*   health  health_task  probes, asks for the re-handshake, gives up      *)
(* Time passes in ticks of a second. boringtun's session is external: it is *)
(* up, waits for the answer to its handshake, or has expired.              *)
(***************************************************************************)
EXTENDS Naturals, FiniteSets

CONSTANTS
    Latency,        \* ticks from a datagram sent to the peer's answer
    PauseMin,       \* health_check_pause, the shortest
    PauseMax,       \* and the longest
    RekeyGap,       \* REKEY_MIN_GAP
    Stale,          \* wg_stale_timeout, AETHER_WG_STALE_SECS
    EncapLimit,     \* ENCAP_ERRORS_BEFORE_REKEY
    MaxTransient,   \* MAX_TRANSIENT_RECV_ERRORS
    VerifyTicks,    \* the deadline of a verification
    DataChecks      \* whether AETHER_WG_NO_DATA_CHECK is unset

\* Two pauses of the health task are longer than the gap, even the shortest, and
\* one is longer than the timer's interval.
ASSUME TimesAssumption ==
    /\ {Latency, PauseMin, RekeyGap, EncapLimit, VerifyTicks} \subseteq Nat \ {0}
    /\ PauseMax \in Nat /\ PauseMax >= PauseMin /\ MaxTransient \in Nat
    /\ PauseMin > 1 /\ RekeyGap < PauseMax /\ RekeyGap < 2 * PauseMin
    /\ Stale \in Nat /\ Stale > 2 * PauseMax
ASSUME ChecksAssumption == DataChecks \subseteq BOOLEAN

\* STALE_STRIKES_BEFORE_DEATH and DATAPLANE_REQUIRED_SUCCESSES.
StaleStrikes == 2
RequiredSuccesses == 2
\* rekey_after_idle in WgTunnel::run.
RekeyAfterIdle == Stale \div 2

\* How long a good path may take to revive the session: the round of the health
\* task that asks, one whose request falls into the gap, and the handshake.
HealWithin == 2 * PauseMax + Latency

VARIABLES
    phase,     \* "greet" and "prove" while verifying, then "run", then "over"
    verdict,   \* why it is over
    age,       \* ticks since the verification began
    proven,    \* successes of verify_dataplane
    sess,      \* the boringtun session: "handshake", "up" or "expired"
    net,       \* what is on its way from the peer, with the ticks it has left
    inbox,     \* what waits in the socket's receive buffer
    unread,    \* history: it has waited there for a tick
    good,      \* whether the path loses nothing
    jam,       \* "none"; "uplink": the kernel's send buffer is full and a send
               \* has to wait; "netstack": the inbound queue is full
    reader,    \* "recv", or "send" while an answer waits for the socket
    timer,     \* "idle", or "init" or "other" while that packet waits
    health,    \* "sleep", or "probe": waiting for the socket under the lock
    ticked,    \* the timer's interval came round since the last tick
    nap,       \* ticks since the health task fell asleep
    idle,      \* last_valid_rx.elapsed(), counted up to Stale
    sinceRekey,\* last_rekey.elapsed(), counted up to RekeyGap
    rekeyNow, sessionDead,
    strikes, encapErrors, transientErrors,
    rekeyed,   \* history: a new session was started in this silence
    calm       \* history: ticks the path has been good, up to HealWithin

verifyVars == <<age, proven>>
peerVars == <<net, inbox, unread>>
pathVars == <<good, jam>>
taskVars == <<reader, timer, health, ticked, nap>>
flagVars == <<idle, sinceRekey, rekeyNow, sessionDead, strikes, encapErrors, transientErrors>>
vars == <<phase, verdict, verifyVars, sess, peerVars, pathVars, taskVars, flagVars,
          rekeyed, calm>>

Running == phase = "run"
Locked == health = "probe"
Full == jam = "uplink"

\* What the peer sends back to a datagram that reached it; on a path that is
\* not good either of them may be lost, every time.
Answered(on, what) == {on \cup {<<what, Latency>>}} \cup (IF good THEN {} ELSE {on})

Over(why) == phase' = "over" /\ verdict' = why
-----------------------------------------------------------------------------
Init ==
    /\ phase = "greet" /\ verdict = "none"
    /\ age = 0 /\ proven = 0 /\ sess = "handshake"
    /\ good \in BOOLEAN /\ jam = "none"
    /\ net = {<<"resp", Latency>>} /\ inbox = {} /\ unread = FALSE
    /\ reader = "recv" /\ timer = "idle" /\ health = "sleep"
    /\ ticked = TRUE /\ nap = 0 /\ idle = 0 /\ sinceRekey = RekeyGap
    /\ rekeyNow = FALSE /\ sessionDead = FALSE
    /\ strikes = 0 /\ encapErrors = 0 /\ transientErrors = 0
    /\ rekeyed = FALSE /\ calm = 0

\* from_established and the head of WgTunnel::run: the verified session, its
\* socket and fresh clocks.
HandOver == phase' = "run" /\ age' = 0 /\ proven' = 0 /\ UNCHANGED verdict

\* verify_endpoint_keep_session reads the answer to its handshake; with the
\* data check it goes on to prove the data plane. Everything else is ignored.
Greeted ==
    /\ phase = "greet" /\ "resp" \in inbox /\ inbox' = {} /\ unread' = FALSE
    /\ sess' = "up"
    /\ \E check \in DataChecks :
        IF check THEN /\ phase' = "prove" /\ net' \in Answered(net, "data")
                      /\ UNCHANGED <<verdict, age, proven>>
        ELSE HandOver /\ UNCHANGED net
    /\ UNCHANGED <<pathVars, taskVars, flagVars, rekeyed, calm>>

\* verify_dataplane: two packets have to come back out of the tunnel.
Proven ==
    /\ phase = "prove" /\ inbox # {} /\ inbox' = {} /\ unread' = FALSE
    /\ IF "data" \notin inbox THEN UNCHANGED <<phase, verdict, age, proven, net>>
       ELSE IF proven + 1 >= RequiredSuccesses THEN HandOver /\ UNCHANGED net
       ELSE /\ proven' = proven + 1 /\ net' \in Answered(net, "data")
            /\ UNCHANGED <<phase, verdict, age>>
    /\ UNCHANGED <<sess, pathVars, taskVars, flagVars, rekeyed, calm>>

\* The retransmissions of both phases (VERIFY_RETRY_DELAYS, resend_at).
VerifyResends ==
    /\ phase \in {"greet", "prove"} /\ ~ticked /\ ticked' = TRUE
    /\ net' \in Answered(net, IF phase = "greet" THEN "resp" ELSE "data")
    /\ UNCHANGED <<phase, verdict, verifyVars, sess, inbox, unread, pathVars, reader,
                   timer, health, nap, flagVars, rekeyed, calm>>

\* The deadline, or an error of the socket or of the session's timers.
VerifyFails ==
    /\ phase \in {"greet", "prove"}
    /\ age >= VerifyTicks \/ ~good
    /\ Over("unverified")
    /\ UNCHANGED <<verifyVars, sess, peerVars, pathVars, taskVars, flagVars, rekeyed, calm>>
-----------------------------------------------------------------------------
\* Mutant: the reader is parked until there is room in the netstack's queue.
HandsOver_Waits(d) == jam # "netstack"

\* deliver_inbound: a full queue is waited for no longer than
\* INBOUND_HANDOFF_BUDGET, far less than a tick, and then the packet is dropped.
HandsOver(d) == TRUE

\* One datagram through recv_task: decapsulated under the lock until the session
\* is done, noted as valid if it was, and what the session wants to answer sent
\* outside the lock. An answer to a session that was replaced is an error.
Read ==
    /\ Running /\ reader = "recv" /\ ~Locked
    /\ \E d \in inbox :
        /\ HandsOver(d)
        /\ inbox' = inbox \ {d} /\ unread' = (unread /\ inbox' # {})
        /\ transientErrors' = 0
        /\ LET valid == (d = "resp" /\ sess = "handshake") \/ (d = "data" /\ sess = "up")
           IN  IF valid
               THEN /\ idle' = 0 /\ rekeyed' = FALSE /\ sess' = "up"
                    /\ reader' = IF d = "resp" /\ Full THEN "send" ELSE "recv"
               ELSE UNCHANGED <<idle, rekeyed, sess, reader>>
    /\ UNCHANGED <<phase, verdict, verifyVars, net, pathVars, timer, health, ticked,
                   nap, sinceRekey, rekeyNow, sessionDead, strikes, encapErrors, calm>>

\* A socket error in recv_task. The transient ones are counted and outwaited.
RecvError ==
    /\ Running /\ reader = "recv" /\ ~good
    /\ \/ /\ transientErrors < MaxTransient /\ transientErrors' = transientErrors + 1
          /\ UNCHANGED <<phase, verdict>>
       \/ transientErrors = MaxTransient /\ Over("reader") /\ UNCHANGED transientErrors
    /\ UNCHANGED <<verifyVars, sess, peerVars, pathVars, taskVars, idle, sinceRekey, rekeyNow,
                   sessionDead, strikes, encapErrors, rekeyed, calm>>

\* A fatal socket error, or the netstack at either end of the queues is gone:
\* the reader or the writer ends and select! ends the tunnel.
TaskEnds ==
    /\ Running /\ Over("task")
    /\ UNCHANGED <<verifyVars, sess, peerVars, pathVars, taskVars, flagVars, rekeyed, calm>>

\* send_task encapsulates under the lock: an expired session refuses, one that
\* waits for its handshake keeps the packet, one that is up yields a datagram,
\* with which the writer may wait for the socket.
Write ==
    /\ Running /\ ~Locked
    /\ encapErrors' = IF sess # "expired" THEN 0
                      ELSE IF encapErrors < EncapLimit THEN encapErrors + 1 ELSE EncapLimit
    /\ rekeyNow' = (rekeyNow \/ encapErrors' = EncapLimit)
    /\ UNCHANGED <<phase, verdict, verifyVars, sess, peerVars, pathVars, reader, timer, health,
                   ticked, nap, idle, sinceRekey, sessionDead, strikes, transientErrors,
                   rekeyed, calm>>
-----------------------------------------------------------------------------
\* timer_task puts a packet on the wire, or waits for the socket with it.
TimerSends(packet, on) ==
    IF Full THEN timer' = packet /\ net' = on
    ELSE timer' = "idle" /\ net' \in (IF packet = "init" THEN Answered(on, "resp") ELSE {on})

\* What update_timers may report: nothing, a packet to send (a keepalive, a
\* repeated handshake), or, once, that the session has expired, after its
\* handshakes went unanswered.
TimerReports ==
    {"nothing"} \cup (IF sess = "expired" THEN {} ELSE {"packet"})
                \cup (IF sess # "expired" /\ (Full \/ ~good) THEN {"expired"} ELSE {})

\* A request is taken off the flag whether or not the gap allows serving it.
WantsRekey(report) == rekeyNow \/ report = "expired"

\* One turn of timer_task. A rekey replaces the session under the lock: what
\* the peer still sends to the old one is worth nothing any more. A fresh
\* session that refuses to start its handshake is past saving.
TimerTurn(report) ==
    LET rekey == WantsRekey(report) /\ sinceRekey >= RekeyGap
    IN  /\ Running /\ timer = "idle" /\ ~Locked
        /\ ticked' = TRUE /\ rekeyNow' = FALSE
        /\ \/ /\ rekey
              /\ sinceRekey' = 0 /\ rekeyed' = TRUE
              /\ inbox' = {} /\ unread' = FALSE
              /\ \/ sess' = "handshake" /\ TimerSends("init", {}) /\ UNCHANGED sessionDead
                 \/ sess' = "expired" /\ sessionDead' = TRUE /\ net' = {} /\ UNCHANGED timer
           \/ /\ ~rekey
              /\ sess' = IF report = "expired" THEN "expired" ELSE sess
              /\ IF report = "packet"
                 THEN TimerSends(IF sess = "handshake" THEN "init" ELSE "other", net)
                 ELSE UNCHANGED <<timer, net>>
              /\ UNCHANGED <<sinceRekey, rekeyed, inbox, unread, sessionDead>>
        /\ UNCHANGED <<phase, verdict, verifyVars, pathVars, reader, health, nap, idle,
                       strikes, encapErrors, transientErrors, calm>>

Timer == \E report \in TimerReports : TimerTurn(report)
-----------------------------------------------------------------------------
\* Mutant: the session is only asked to heal once it counts as stale.
AsksRekey_AtStale == idle >= Stale

AsksRekey == idle >= RekeyAfterIdle

\* Mutant: a session that was just started anew gets another chance every time.
Struck_Spares == IF idle >= Stale /\ ~rekeyed THEN strikes + 1 ELSE 0

Struck == IF idle >= Stale THEN strikes + 1 ELSE 0

\* One round of health_task: the verdicts, the request for a re-handshake, and a
\* probe sent under the lock, which is held while the socket is full.
HealthRound ==
    /\ Running /\ health = "sleep" /\ nap >= PauseMin
    /\ nap' = 0
    /\ IF sessionDead THEN Over("dead") /\ UNCHANGED <<rekeyNow, strikes, health, net>>
       ELSE /\ rekeyNow' = (rekeyNow \/ AsksRekey)
            /\ strikes' = Struck
            /\ IF strikes' >= StaleStrikes THEN Over("stale") /\ UNCHANGED <<health, net>>
               ELSE /\ UNCHANGED <<phase, verdict>>
                    /\ IF sess = "up" /\ Full THEN health' = "probe" /\ UNCHANGED net
                       ELSE /\ UNCHANGED health
                            /\ net' \in (IF sess = "up" THEN Answered(net, "data") ELSE {net})
    /\ UNCHANGED <<verifyVars, sess, inbox, unread, pathVars, reader, timer, ticked, idle,
                   sinceRekey, sessionDead, encapErrors, transientErrors, rekeyed, calm>>

\* The socket takes datagrams again: the tasks that waited for it go on.
ReaderSent == /\ reader = "send" /\ reader' = "recv" /\ UNCHANGED <<timer, health, nap, net>>
TimerSent == /\ timer # "idle" /\ TimerSends(timer, net) /\ UNCHANGED <<reader, health, nap>>
ProbeSent == /\ health = "probe" /\ health' = "sleep" /\ nap' = 0
             /\ net' \in Answered(net, "data") /\ UNCHANGED <<reader, timer>>

Sent == /\ Running /\ ~Full
        /\ ReaderSent \/ TimerSent \/ ProbeSent
        /\ UNCHANGED <<phase, verdict, verifyVars, sess, inbox, unread, pathVars, ticked, flagVars,
                       rekeyed, calm>>
-----------------------------------------------------------------------------
\* The peer and the network. What arrives while nobody reads may overflow the
\* receive buffer.
Deaf == Running /\ (Locked \/ reader # "recv")

Arrive ==
    /\ phase # "over"
    /\ \E m \in net :
        /\ m[2] = 0 /\ net' = net \ {m}
        /\ inbox' \in {inbox \cup {m[1]}} \cup (IF good /\ ~Deaf THEN {} ELSE {inbox})
    /\ UNCHANGED <<phase, verdict, verifyVars, sess, unread, pathVars, taskVars, flagVars, rekeyed,
                   calm>>

PeerData ==
    /\ Running /\ sess = "up"
    /\ inbox' = inbox \cup {"data"}
    /\ UNCHANGED <<phase, verdict, verifyVars, sess, net, unread, pathVars, taskVars, flagVars,
                   rekeyed, calm>>

PathTurns ==
    /\ phase # "over" /\ good' = ~good /\ calm' = 0
    /\ UNCHANGED <<phase, verdict, verifyVars, sess, peerVars, jam, taskVars, flagVars, rekeyed>>

\* A buffer that drained takes the packets that waited before it is full again.
Waiting == reader = "send" \/ timer # "idle" \/ health = "probe"
Jam == /\ Running /\ jam = "none" /\ ~Waiting /\ jam' \in {"uplink", "netstack"}
       /\ calm' = IF jam' = "uplink" THEN 0 ELSE calm
       /\ UNCHANGED <<phase, verdict, verifyVars, sess, peerVars, good, taskVars, flagVars, rekeyed>>
Drain == /\ phase # "over" /\ jam # "none" /\ jam' = "none"
         /\ UNCHANGED <<phase, verdict, verifyVars, sess, peerVars, good, taskVars, flagVars,
                        rekeyed, calm>>

\* A tick passes once every task that is not waiting for the lock or the socket
\* has had its turn: they all react within a fraction of it.
Prompt ==
    /\ \A m \in net : m[2] > 0
    /\ ~Running => inbox = {} /\ ticked /\ age < VerifyTicks
    /\ Running =>
        /\ reader = "recv" /\ ~Locked => \A d \in inbox : ~HandsOver(d)
        /\ timer = "idle" /\ ~Locked => ticked
        /\ health = "sleep" => nap < PauseMax
        /\ ~Full => ~Waiting

Tick ==
    /\ phase # "over" /\ Prompt
    /\ net' = {<<m[1], m[2] - 1>> : m \in net}
    /\ ticked' = FALSE /\ unread' = (inbox # {})
    /\ calm' = IF ~good \/ Full THEN 0
               ELSE IF calm < HealWithin THEN calm + 1 ELSE calm
    /\ IF Running
       THEN /\ nap' = IF health = "sleep" THEN nap + 1 ELSE nap
            /\ idle' = IF idle < Stale THEN idle + 1 ELSE idle
            /\ sinceRekey' = IF sinceRekey < RekeyGap THEN sinceRekey + 1 ELSE sinceRekey
            /\ UNCHANGED age
       ELSE age' = age + 1 /\ UNCHANGED <<nap, idle, sinceRekey>>
    /\ UNCHANGED <<phase, verdict, proven, sess, inbox, pathVars, reader, timer,
                   health, rekeyNow, sessionDead, strikes, encapErrors, transientErrors, rekeyed>>

Verify == Greeted \/ Proven \/ VerifyResends \/ VerifyFails
Tasks == Read \/ RecvError \/ TaskEnds \/ Write \/ Timer \/ HealthRound \/ Sent
World == Arrive \/ PeerData \/ PathTurns \/ Jam \/ Drain
Next == Verify \/ Tasks \/ World \/ Tick

\* The tasks are scheduled and time passes; a full send buffer drains sooner or
\* later. Nothing is assumed about the peer or the path.
Fairness ==
    /\ SF_vars(Tick) /\ WF_vars(Read) /\ WF_vars(Timer) /\ WF_vars(HealthRound)
    /\ WF_vars(Sent) /\ WF_vars(Arrive) /\ WF_vars(Verify) /\ WF_vars(Drain)

Spec == Init /\ [][Next]_vars
FairSpec == Spec /\ Fairness
-----------------------------------------------------------------------------
TypeOK ==
    /\ phase \in {"greet", "prove", "run", "over"}
    /\ verdict \in {"none", "unverified", "reader", "task", "stale", "dead"}
    /\ age \in 0 .. VerifyTicks /\ proven \in 0 .. RequiredSuccesses
    /\ sess \in {"handshake", "up", "expired"}
    /\ net \subseteq ({"resp", "data"} \X (0 .. Latency)) /\ inbox \subseteq {"resp", "data"}
    /\ {good, ticked, unread} \subseteq BOOLEAN /\ jam \in {"none", "uplink", "netstack"}
    /\ reader \in {"recv", "send"}
    /\ timer \in {"idle", "init", "other"} /\ health \in {"sleep", "probe"}
    /\ nap \in 0 .. PauseMax /\ idle \in 0 .. Stale /\ sinceRekey \in 0 .. RekeyGap
    /\ {rekeyNow, sessionDead, rekeyed} \subseteq BOOLEAN
    /\ strikes \in 0 .. StaleStrikes /\ encapErrors \in 0 .. EncapLimit
    /\ transientErrors \in 0 .. MaxTransient /\ calm \in 0 .. HealWithin

\* The tunnel is written off as stale only after a new handshake was tried in
\* the same silence, and never while something valid lies unread in its socket:
\* a full uplink, a lock held across a send and a congested netstack may make
\* the reader deaf, but not long enough to be mistaken for a dead peer.
DeathIsEarned == verdict = "stale" => rekeyed /\ ~unread

\* A path that works again is noticed: with the peer reachable and the uplink
\* free for HealWithin ticks, the in-place handshake has revived the session
\* and the tunnel is not written off.
GoodPathIsKept == verdict = "stale" => calm < HealWithin

\* No tunnel stays connected over a session that carries nothing: a session that
\* is not up comes up or ends the tunnel, and a tunnel that stays up hears from
\* its peer again and again.
NoZombie ==
    /\ (Running /\ sess # "up") ~> (phase = "over" \/ sess = "up")
    /\ []<>(Running => idle = 0)
=============================================================================
