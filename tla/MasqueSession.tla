--------------------------- MODULE MasqueSession ---------------------------
(***************************************************************************)
(* One MASQUE tunnel of the engine, from establish_masque (lib.rs) to its   *)
(* end, over either carrier: HTTP/2 on TCP (masque_h2.rs), whose loop hands  *)
(* its sending to a task of its own, and HTTP/3 on QUIC (quic.rs), whose     *)
(* loop feeds quiche and whose sockets are read by tasks of their own.       *)
(* Time passes in ticks of one DATA_PROBE_RESEND. The edge, TCP, the h2      *)
(* crate and quiche are external: a send waits for the edge's window, a     *)
(* ping is answered while the edge is there, and QUIC's idle timer runs.     *)
(***************************************************************************)
EXTENDS Naturals, FiniteSets

CONSTANTS
    Carriers,       \* what AETHER_MASQUE_HTTP2 may choose: "h2", "h3"
    DataChecks,     \* whether AETHER_MASQUE_NO_DATA_CHECK is unset
    Queue,          \* capacity of the channel to the send task
    Validate,       \* ticks until validation_timeout is noticed
    Startup,        \* masque_startup_timeout
    Period,         \* h2_keepalive_interval, keepalive_interval of quic.rs
    Timeout,        \* h2_keepalive_timeout
    Idle,           \* QUIC's idle timeout (tls.rs)
    Latency,        \* ticks from a packet sent to the edge's answer
    MaxWindow       \* bound: capsules the edge takes ahead

ASSUME CarriersAssumption == Carriers \subseteq {"h2", "h3"} /\ DataChecks \subseteq BOOLEAN
ASSUME TicksAssumption ==
    /\ {Queue, Validate, Startup, Period, Latency, MaxWindow} \subseteq Nat \ {0}
    /\ Timeout \in Nat /\ Timeout > Latency
    /\ Idle \in Nat /\ Idle > Period + Latency

\* Bound: quiet is counted well past every limit it is compared with.
MaxQuiet == Validate + Period + Timeout + Idle

\* DATA_PROBE_REQUIRED_SUCCESSES.
Required == 2

VARIABLES
    carrier, check,
    phase,      \* "dial", "loop", "close" (waiting to hand over Finish, or QUIC
                \* draining), "grace" (Finish is on its way) or "over"
    verdict,    \* why it ended
    hop,        \* establish_masque and its caller: "waiting", "up" or "gone"
    clock,      \* ticks since it began to wait
    retried,    \* ech_retried
    ready, successes,
    age,        \* ticks since the validation began
    probeDue,   \* probe_interval has ticked
    queue,      \* capsules in the channel to the send task
    finish,     \* SenderMsg::Finish is behind them
    sender,     \* pump_outbound: "idle" or "wait" (in poll_capacity)
    window,     \* capsules the edge's flow control still allows
    edge,       \* "good"; "mute": control works, traffic is dropped; "silent"
    net,        \* what is on its way from the edge, with the ticks it has left
    owed,       \* what TCP and QUIC resend when the edge is back
    inbox,      \* what waits to be read
    reader,     \* quic.rs: the task that reads the socket: "recv" or "ended"
    keep,       \* where keepalive_interval stands in its period
    pingDue,    \* it has ticked
    unanswered, \* awaiting_pong; QUIC: something was sent since the last receipt
    wait,       \* ticks since that ping; QUIC: the age of the idle timer
    quiet,      \* history: ticks the loop could hear nothing of the edge
    calm        \* history: ticks the edge has been there for it

startVars == <<carrier, check, retried>>
hopVars == <<hop, clock>>
proofVars == <<ready, successes, age, probeDue>>
sendVars == <<queue, finish, sender, window>>
wireVars == <<net, owed>>
liveVars == <<keep, pingDue, unanswered, wait>>
worldVars == <<edge, reader, quiet, calm>>
vars == <<phase, verdict, startVars, hopVars, proofVars, sendVars, wireVars, inbox,
          liveVars, worldVars>>

H2 == carrier = "h2"
Running == phase = "loop"
Hearing == edge # "silent" /\ reader = "recv"

\* A packet leaves. Over TCP everything arrives once the edge is back, which is
\* when a resend gets through; QUIC repeats a ping and never a datagram.
Put(what) ==
    LET datagram == ~H2 /\ what = "data"
    IN  IF edge = "silent"
        THEN net' = net /\ owed' = IF datagram THEN owed ELSE owed \cup {what}
        ELSE /\ owed' = owed
             /\ net' \in {IF edge = "mute" /\ what = "data" THEN net
                          ELSE net \cup {<<what, Latency>>}}
                         \cup (IF datagram THEN {net} ELSE {})

\* quiche restarts its idle timer with the first packet that elicits an answer
\* since something was received.
IdleRestarts ==
    IF H2 \/ unanswered THEN UNCHANGED <<unanswered, wait>>
    ELSE unanswered' = TRUE /\ wait' = 0

\* keepalive_interval has ticked and HTTP/2 has no ping out.
PingsNow == pingDue /\ (H2 => ready /\ ~unanswered)
\* pong_deadline has passed, or QUIC's idle timer has run out.
TimedOut == IF H2 THEN unanswered /\ wait >= Timeout ELSE wait >= Idle

Over(why) == phase' = "over" /\ verdict' = why
\* close_sender: the HTTP/2 loop stops selecting until the send task has Finish.
Close(why) == phase' = "close" /\ verdict' = why
-----------------------------------------------------------------------------
Init ==
    /\ carrier \in Carriers /\ check \in DataChecks /\ retried = FALSE
    /\ phase = "dial" /\ verdict = "none" /\ hop = "waiting" /\ clock = 0
    /\ ready = FALSE /\ successes = 0 /\ age = 0 /\ probeDue = FALSE
    /\ queue = 0 /\ finish = FALSE /\ sender = "idle"
    /\ window \in {0, MaxWindow}
    /\ edge \in {"good", "mute", "silent"} /\ reader = "recv"
    /\ net = {} /\ owed = {} /\ inbox = {}
    /\ keep = 0 /\ pingDue = TRUE /\ unanswered = FALSE /\ wait = 0
    /\ quiet = 0 /\ calm = 0

\* The handshakes and the answer to the CONNECT-IP request (HTTP/2), or QUIC's
\* handshake (HTTP/3), during which its keepalive_interval already runs. With the
\* data check HTTP/2 queues a probe at once.
Dialled ==
    /\ phase = "dial" /\ edge # "silent" /\ phase' = "loop"
    /\ ready' = ~check /\ probeDue' = check /\ age' = 0
    /\ queue' = IF H2 /\ check THEN 1 ELSE 0
    /\ IF H2 THEN keep' = 0 /\ pingDue' = TRUE
       ELSE keep' \in 0 .. Period - 1 /\ pingDue' \in BOOLEAN
    /\ unanswered' = FALSE /\ wait' = 0
    /\ UNCHANGED <<verdict, startVars, hopVars, successes, finish, sender, window, wireVars,
                   inbox, worldVars>>

\* An edge that answers ECH with other keys is dialled once more.
EchRetry ==
    /\ phase = "dial" /\ ~H2 /\ ~retried /\ edge # "silent" /\ retried' = TRUE
    /\ UNCHANGED <<phase, verdict, carrier, check, hopVars, proofVars, sendVars, wireVars,
                   inbox, liveVars, worldVars>>

DialFails ==
    /\ phase = "dial" /\ Over("undialled")
    /\ UNCHANGED <<startVars, hopVars, proofVars, sendVars, wireVars, inbox, liveVars, worldVars>>
-----------------------------------------------------------------------------
\* try_send: a full channel drops the probe.
Queued == IF queue < Queue THEN queue + 1 ELSE queue

\* probe_interval: HTTP/2 hands the probe to the send task, HTTP/3 to quiche.
Probe ==
    /\ Running /\ check /\ ~ready /\ probeDue /\ probeDue' = FALSE
    /\ IF H2 THEN queue' = Queued /\ UNCHANGED <<wireVars, unanswered, wait>>
       ELSE Put("data") /\ IdleRestarts /\ UNCHANGED queue
    /\ UNCHANGED <<phase, verdict, startVars, hopVars, ready, successes, age, finish, sender,
                   window, inbox, keep, pingDue, worldVars>>

\* The deadline, looked at when the loop comes round.
ValidationEnds ==
    /\ Running /\ check /\ ~ready /\ age >= Validate
    /\ IF H2 THEN Close("unproven") ELSE Over("unproven")
    /\ UNCHANGED <<startVars, hopVars, proofVars, sendVars, wireVars, inbox, liveVars, worldVars>>

\* Mutant: sending is part of the receive loop.
Receives_Alone == Running /\ ~(H2 /\ sender = "wait")

\* The loop selects on what arrives whatever the send task waits for.
Receives == Running

\* A chunk with datagrams, or QUIC datagrams: passed to the netstack or dropped
\* when its queue is full, and, before the tunnel is ready, counted; HTTP/2
\* follows the first one up with another probe.
ReceiveData ==
    /\ Receives /\ "data" \in inbox /\ inbox' = inbox \ {"data"}
    /\ IF ready THEN UNCHANGED <<ready, successes, age, queue>>
       ELSE /\ successes' = successes + 1
            /\ ready' = (successes' >= Required) /\ age' = IF ready' THEN 0 ELSE age
            /\ queue' = IF H2 /\ ~ready' THEN Queued ELSE queue
    /\ IF H2 THEN UNCHANGED <<unanswered, wait>> ELSE unanswered' = FALSE /\ wait' = 0
    /\ UNCHANGED <<phase, verdict, startVars, hopVars, probeDue, finish, sender, window,
                   wireVars, keep, pingDue, worldVars>>

\* Mutant: the deadline of the ping outlives its answer.
ReceivePong_Forgets ==
    /\ Running /\ "pong" \in inbox /\ inbox' = inbox \ {"pong"}
    /\ IF H2 THEN UNCHANGED <<unanswered, wait>> ELSE unanswered' = FALSE /\ wait' = 0
    /\ UNCHANGED <<phase, verdict, startVars, hopVars, proofVars, sendVars, wireVars, keep,
                   pingDue, worldVars>>

\* The answer to a ping (poll_pong), or anything QUIC acknowledges.
ReceivePong ==
    /\ Running /\ "pong" \in inbox /\ inbox' = inbox \ {"pong"}
    /\ unanswered' = FALSE /\ wait' = 0
    /\ UNCHANGED <<phase, verdict, startVars, hopVars, proofVars, sendVars, wireVars, keep,
                   pingDue, worldVars>>

\* Mutant: HTTP/2 pings without noting when.
KeepAlive_NoDeadline ==
    /\ Running /\ PingsNow
    /\ pingDue' = FALSE /\ keep' = keep /\ Put("pong") /\ IdleRestarts
    /\ UNCHANGED <<phase, verdict, startVars, hopVars, proofVars, sendVars, inbox, worldVars>>

\* keepalive_interval: HTTP/2 pings when no ping is out, and notes the deadline;
\* HTTP/3 sends something the edge has to acknowledge.
KeepAlive ==
    /\ Running /\ PingsNow
    /\ pingDue' = FALSE /\ keep' = keep /\ Put("pong")
    /\ IF H2 THEN unanswered' = TRUE /\ wait' = 0 ELSE IdleRestarts
    /\ UNCHANGED <<phase, verdict, startVars, hopVars, proofVars, sendVars, inbox, worldVars>>

\* pong_deadline has passed, or quiche closed the connection as idle.
EdgeGone ==
    /\ Running /\ TimedOut
    /\ IF H2 THEN Close("dead") ELSE Over("dead")
    /\ UNCHANGED <<startVars, hopVars, proofVars, sendVars, wireVars, inbox, liveVars, worldVars>>

\* The edge refuses, resets or finishes the stream, or the connection breaks; so
\* does the HTTP/2 loop when the send task reports an error. A close that waits
\* for that task is over then too, and reports what it was for.
ConnectionEnds ==
    /\ phase \in {"loop", "close", "grace"}
    /\ Over(IF Running THEN "ended" ELSE verdict)
    /\ UNCHANGED <<startVars, hopVars, proofVars, sendVars, wireVars, inbox, liveVars, worldVars>>
-----------------------------------------------------------------------------
\* pump_outbound and send_capsule: a capsule is sent if the edge's window allows,
\* else the task waits with it in hand. Probes go before packets.
Sends == IF window > 0 THEN window' = window - 1 /\ sender' = "idle" /\ Put("data")
         ELSE sender' = "wait" /\ UNCHANGED <<window, wireVars>>

SenderOn == H2 /\ phase \in {"loop", "close", "grace"}

SendCapsule ==
    /\ SenderOn /\ sender = "idle" /\ queue > 0 /\ queue' = queue - 1 /\ Sends
    /\ UNCHANGED <<phase, verdict, startVars, hopVars, proofVars, finish, inbox, liveVars,
                   worldVars>>

\* A packet, or a batch of them, of the netstack.
SendPacket ==
    /\ Running \/ SenderOn
    /\ IF H2 THEN sender = "idle" /\ queue = 0 /\ ~finish /\ Sends /\ UNCHANGED <<unanswered, wait>>
       ELSE Put("data") /\ IdleRestarts /\ UNCHANGED <<sender, window>>
    /\ UNCHANGED <<phase, verdict, startVars, hopVars, proofVars, queue, finish, inbox, keep,
                   pingDue, worldVars>>

SendGoesOn ==
    /\ SenderOn /\ sender = "wait" /\ window > 0 /\ Sends
    /\ UNCHANGED <<phase, verdict, startVars, hopVars, proofVars, queue, finish, inbox, liveVars,
                   worldVars>>

\* close_sender waits for room in the channel, without a limit.
HandFinish ==
    /\ phase = "close" /\ H2 /\ queue < Queue
    /\ phase' = "grace" /\ finish' = TRUE
    /\ UNCHANGED <<verdict, startVars, hopVars, proofVars, queue, sender, window, wireVars, inbox,
                   liveVars, worldVars>>

\* The closing frame is out, or SENDER_CLOSE_GRACE is over; QUIC has drained.
Closed ==
    /\ phase = "grace" \/ (phase = "close" /\ ~H2)
    /\ phase' = "over"
    /\ UNCHANGED <<verdict, startVars, hopVars, proofVars, sendVars, wireVars, inbox, liveVars,
                   worldVars>>
-----------------------------------------------------------------------------
\* establish_masque: the oneshot of the loop, its end, or the startup timeout,
\* which aborts the task wherever it stands.
HopUp ==
    /\ hop = "waiting" /\ ready /\ hop' = "up" /\ clock' = 0
    /\ UNCHANGED <<phase, verdict, startVars, proofVars, sendVars, wireVars, inbox,
                   liveVars, worldVars>>

HopGone ==
    /\ hop # "gone" /\ phase = "over" /\ hop' = "gone"
    /\ UNCHANGED <<phase, verdict, startVars, clock, proofVars, sendVars, wireVars, inbox,
                   liveVars, worldVars>>

StartupTimeout ==
    /\ hop = "waiting" /\ ~ready /\ clock >= Startup
    /\ hop' = "gone" /\ Over("startup")
    /\ UNCHANGED <<startVars, clock, proofVars, sendVars, wireVars, inbox, liveVars, worldVars>>

\* The caller drops the hop (an exit policy, the other hop of a pair): the loop
\* may notice its control channel close before the guard aborts it.
HopDropped ==
    /\ hop = "up" /\ phase # "over" /\ hop' = "gone"
    /\ Over("dropped") \/ (Running /\ Close("dropped"))
    /\ UNCHANGED <<startVars, clock, proofVars, sendVars, wireVars, inbox, liveVars, worldVars>>

Aborted ==
    /\ hop = "gone" /\ phase # "over" /\ phase' = "over"
    /\ UNCHANGED <<verdict, startVars, hopVars, proofVars, sendVars, wireVars, inbox, liveVars,
                   worldVars>>
-----------------------------------------------------------------------------
\* The edge and the path to it.
Arrive ==
    /\ phase # "over" /\ Hearing
    /\ \E m \in net : m[2] = 0 /\ net' = net \ {m} /\ inbox' = inbox \cup {m[1]}
    /\ UNCHANGED <<phase, verdict, startVars, hopVars, proofVars, sendVars, owed, liveVars,
                   worldVars>>

EdgeTurns ==
    /\ phase # "over"
    /\ edge' \in {"good", "mute", "silent"} \ {edge}
    /\ IF Running THEN calm' = 0 /\ quiet' = 0 ELSE UNCHANGED <<calm, quiet>>
    /\ IF edge' = "silent"
       THEN net' = {} /\ owed' = owed \cup {m[1] : m \in {n \in net : H2 \/ n[1] = "pong"}}
       ELSE /\ owed' = {}
            /\ net' = net \cup {<<w, Latency>> : w \in {v \in owed : v = "pong" \/ edge' = "good"}}
    /\ UNCHANGED <<phase, verdict, startVars, hopVars, proofVars, sendVars, inbox, liveVars, reader>>

EdgeGrants ==
    /\ SenderOn /\ edge # "silent" /\ window < MaxWindow /\ window' = window + 1
    /\ UNCHANGED <<phase, verdict, startVars, hopVars, proofVars, queue, finish, sender, wireVars,
                   inbox, liveVars, worldVars>>

\* An error of the socket ends the task that reads it, and nobody is told: the
\* loop holds a sender of the channel itself.
ReaderEnds ==
    /\ ~H2 /\ Running /\ reader = "recv" /\ reader' = "ended" /\ calm' = 0 /\ quiet' = 0
    /\ UNCHANGED <<phase, verdict, startVars, hopVars, proofVars, sendVars, wireVars, inbox,
                   liveVars, edge>>

LoopBusy ==
    \/ Receives /\ "data" \in inbox
    \/ Running /\ ("pong" \in inbox \/ PingsNow \/ TimedOut)
    \/ Running /\ check /\ ~ready /\ (probeDue \/ age >= Validate)

\* A tick passes once the loop, the send task and the network have done what
\* they can do without waiting.
Prompt ==
    /\ hop = "gone" => phase = "over"
    /\ hop = "waiting" => clock < Startup /\ ~ready
    /\ Hearing => \A m \in net : m[2] > 0
    /\ ~(SenderOn /\ ((sender = "idle" /\ queue > 0) \/ (sender = "wait" /\ window > 0)))
    /\ ~LoopBusy /\ phase # "grace" /\ (phase = "close" => H2 /\ queue = Queue)

Tick ==
    /\ phase # "over" /\ Prompt
    /\ net' = {<<m[1], IF m[2] > 0 THEN m[2] - 1 ELSE 0>> : m \in net}
    /\ clock' = IF hop = "waiting" THEN clock + 1 ELSE clock
    /\ age' = IF Running /\ ~ready THEN age + 1 ELSE age
    /\ probeDue' = (Running /\ check /\ ~ready)
    /\ keep' = (keep + 1) % Period /\ pingDue' = (pingDue \/ keep' = 0)
    /\ wait' = IF Running /\ (H2 => unanswered) THEN wait + 1 ELSE wait
    /\ quiet' = IF Running /\ ~Hearing /\ quiet < MaxQuiet THEN quiet + 1 ELSE quiet
    /\ calm' = IF Running /\ Hearing /\ calm < Idle THEN calm + 1 ELSE calm
    /\ UNCHANGED <<phase, verdict, startVars, hop, ready, successes, sendVars, owed, inbox,
                   unanswered, edge, reader>>

Loop == Probe \/ ValidationEnds \/ ReceiveData \/ ReceivePong \/ KeepAlive \/ EdgeGone
        \/ ConnectionEnds
Sender == SendCapsule \/ SendPacket \/ SendGoesOn \/ HandFinish \/ Closed
Hop == Dialled \/ EchRetry \/ DialFails \/ HopUp \/ HopGone \/ StartupTimeout \/ HopDropped
       \/ Aborted
World == Arrive \/ EdgeTurns \/ EdgeGrants \/ ReaderEnds
Next == Loop \/ Sender \/ Hop \/ World \/ Tick

\* The tasks are scheduled; nothing is assumed about the edge or its window.
Fairness == WF_vars(ReceiveData) /\ WF_vars(Sender) /\ WF_vars(Aborted \/ HopUp)

Spec == Init /\ [][Next]_vars
FairSpec == Spec /\ Fairness
-----------------------------------------------------------------------------
TypeOK ==
    /\ carrier \in Carriers /\ check \in DataChecks /\ {retried, ready, probeDue} \subseteq BOOLEAN
    /\ phase \in {"dial", "loop", "close", "grace", "over"}
    /\ verdict \in {"none", "undialled", "unproven", "dead", "ended", "startup", "dropped"}
    /\ hop \in {"waiting", "up", "gone"} /\ clock \in 0 .. Startup
    /\ successes \in 0 .. Required /\ age \in 0 .. Validate
    /\ queue \in 0 .. Queue /\ finish \in BOOLEAN /\ sender \in {"idle", "wait"}
    /\ window \in 0 .. MaxWindow /\ edge \in {"good", "mute", "silent"}
    /\ net \subseteq ({"data", "pong"} \X (0 .. Latency)) /\ owed \subseteq {"data", "pong"}
    /\ inbox \subseteq {"data", "pong"} /\ reader \in {"recv", "ended"}
    /\ keep \in 0 .. Period - 1 /\ {pingDue, unanswered} \subseteq BOOLEAN 
    /\ wait \in 0 .. (IF H2 THEN Timeout ELSE Idle)
    /\ quiet \in 0 .. MaxQuiet /\ calm \in 0 .. Idle

\* A tunnel nothing is heard from is given up in bounded time on both carriers:
\* by the ping of HTTP/2 and its deadline, by QUIC's idle timer, also when only
\* the task that reads the socket is gone, and before that by the validation.
GivenUpWithin == IF ~ready THEN Validate
                 ELSE IF ~H2 THEN Period + Idle
                 ELSE Timeout + (IF Latency < Period THEN Period - Latency ELSE 0)
DeadEdgeIsLeft == Running => quiet <= GivenUpWithin

\* An edge that is there is not taken for dead: once it has been back for a round
\* trip neither the deadline of the HTTP/2 ping nor QUIC's idle timer ends the
\* tunnel, and a send that waits for the edge's window does not count against it.
AnsweringEdgeIsKept == verdict = "dead" => calm <= Latency

\* A busy upload does not stall the download: what has arrived is read although
\* the send task waits for the edge's window, for ever if need be (the comment on
\* the send task in masque_h2::run).
UploadStallsOnlyUpload == ("data" \in inbox /\ Running) ~> ("data" \notin inbox \/ ~Running)

\* A loop that has decided to end finds room for Finish in the channel, or a send
\* task about to make some: closing waits for SENDER_CLOSE_GRACE and no longer.
CloseIsBrief == phase = "close" /\ H2 => queue < Queue \/ sender = "idle"
=============================================================================
