------------------------ MODULE MasqueSessionProofs ------------------------
(***************************************************************************)
(* Machine-checked proofs about MasqueSession, for every choice of         *)
(* carriers, every size of the queue and the window and all the times of   *)
(* both carriers: the ping of HTTP/2 and its deadline, the keepalive and   *)
(* the idle timer of QUIC, the validation, the round trip.                 *)
(***************************************************************************)
EXTENDS MasqueSession, TLAPS

-----------------------------------------------------------------------------
(* The inductive invariant, part by part.                                  *)

\* TypeOK, the Boolean variables one by one.
Typed ==
    /\ carrier \in Carriers /\ check \in DataChecks
    /\ retried \in BOOLEAN /\ ready \in BOOLEAN /\ probeDue \in BOOLEAN /\ finish \in BOOLEAN
    /\ pingDue \in BOOLEAN /\ unanswered \in BOOLEAN
    /\ phase \in {"dial", "loop", "close", "grace", "over"}
    /\ verdict \in {"none", "undialled", "unproven", "dead", "ended", "startup", "dropped"}
    /\ hop \in {"waiting", "up", "gone"} /\ clock \in 0 .. Startup
    /\ successes \in 0 .. Required /\ age \in 0 .. Validate
    /\ queue \in 0 .. Queue /\ sender \in {"idle", "wait"} /\ window \in 0 .. MaxWindow
    /\ edge \in {"good", "mute", "silent"} /\ reader \in {"recv", "ended"}
    /\ net \subseteq ({"data", "pong"} \X (0 .. Latency)) /\ owed \subseteq {"data", "pong"}
    /\ inbox \subseteq {"data", "pong"}
    /\ keep \in 0 .. Period - 1 /\ wait \in 0 .. (IF H2 THEN Timeout ELSE Idle)
    /\ quiet \in 0 .. MaxQuiet /\ calm \in 0 .. Idle

\* Before the loop runs nothing was sent, counted or timed.
DialInv ==
    phase = "dial" =>
        /\ ~ready /\ successes = 0 /\ quiet = 0 /\ calm = 0
        /\ net = {} /\ owed = {} /\ inbox = {} /\ ~unanswered /\ wait = 0

\* Nothing is on its way from a silent edge, and nothing is kept from one that
\* is there; HTTP/2 has no reading task of its own that could end.
PathInv ==
    /\ edge = "silent" => net = {}
    /\ edge # "silent" => owed = {}
    /\ H2 => reader = "recv"

\* The two histories: the loop hears the edge or it does not, and what it heard
\* before is read within the same tick.
HearInv ==
    Running => /\ Hearing => quiet = 0
               /\ ~Hearing => calm = 0
               /\ inbox # {} => quiet = 0

\* A tunnel that is not ready is one whose data check runs, and the validation has
\* been watching for as long as nothing was heard. HTTP/2 does not ping before.
ProofInv ==
    /\ ~ready => successes < Required
    /\ Running /\ ~ready => check /\ quiet <= age /\ (H2 => pingDue /\ ~unanswered)

\* The answers to pings that are on their way.
Pongs == {m \in net : m[1] = "pong"}

\* HTTP/2 has one ping out at most, and its answer is in one place: read soon, on
\* its way, or kept until the edge is back. It is never early, and late only by
\* what the edge has not been there for.
ToBeRead == /\ "pong" \in inbox /\ "pong" \notin owed /\ Pongs = {}
            /\ wait >= Latency /\ (calm <= Latency \/ wait <= Latency)
OnItsWay == /\ "pong" \notin inbox \cup owed
            /\ \E r \in 0 .. Latency :
                /\ Pongs = {<<"pong", r>>} /\ wait + r >= Latency
                /\ calm + r <= Latency \/ wait + r <= Latency
HeldBack == "pong" \in owed /\ "pong" \notin inbox /\ Pongs = {}
PongInv ==
    Running /\ H2 =>
        /\ ~unanswered => "pong" \notin inbox \cup owed /\ Pongs = {}
        /\ unanswered => ToBeRead \/ OnItsWay \/ HeldBack

\* The period of HTTP/2's pings against the silence: between an answer and the
\* next ping at least a round trip of the period is over.
Slack == IF Latency < Period THEN Period - Latency ELSE 0
BeatInv ==
    Running /\ H2 =>
        /\ unanswered /\ ~pingDue => keep >= wait
        /\ unanswered => quiet <= wait + Slack
        /\ ~unanswered /\ ~pingDue => keep >= Latency + quiet
        /\ ~unanswered /\ pingDue /\ ready => quiet <= Slack

\* QUIC's idle timer: what is on its way restarts it in time, or else a keepalive
\* that is due within the period will, unless the edge has been away.
Restarts == Period + Latency
IdleInv ==
    Running /\ ~H2 =>
        /\ "pong" \in inbox => wait <= Restarts \/ calm <= Latency
        /\ "pong" \notin inbox /\ Pongs # {} =>
            \E m \in Pongs : wait + m[2] <= Restarts \/ calm + m[2] <= Latency
        /\ "pong" \notin inbox \cup owed /\ Pongs = {} =>
            wait <= keep \/ (pingDue /\ wait <= Period)
        /\ ~unanswered => quiet <= keep \/ (pingDue /\ quiet <= Period)
        /\ unanswered => quiet <= wait + Period

\* A tunnel that was given up for dead had not been heard for a round trip.
DeadInv == verdict = "dead" => phase \notin {"dial", "loop"} /\ calm <= Latency

IInv == /\ Typed /\ DialInv /\ PathInv /\ HearInv /\ ProofInv
        /\ PongInv /\ BeatInv /\ IdleInv /\ DeadInv

-----------------------------------------------------------------------------
(* Facts about constants, packets and the kinds of steps.                  *)

LEMMA Times ==
    /\ Queue \in Nat /\ Queue > 0 /\ Validate \in Nat /\ Validate > 0
    /\ Startup \in Nat /\ Startup > 0 /\ Period \in Nat /\ Period > 0
    /\ Latency \in Nat /\ Latency > 0 /\ MaxWindow \in Nat /\ MaxWindow > 0
    /\ Timeout \in Nat /\ Timeout > Latency /\ Idle \in Nat /\ Idle > Period + Latency
BY TicksAssumption

LEMMA Bounds ==
    /\ MaxQuiet \in Nat /\ MaxQuiet > Validate /\ MaxQuiet >= Period + Idle
    /\ Slack \in Nat /\ Slack <= Period /\ MaxQuiet > Timeout + Slack
    /\ Restarts \in Nat /\ Restarts < Idle
BY Times DEF MaxQuiet, Slack, Restarts

\* A data packet leaves: pings are not touched.
LEMMA PutData ==
    ASSUME Typed, PathInv, Put("data"), UNCHANGED <<edge, reader, carrier>>
    PROVE  /\ net' \subseteq ({"data", "pong"} \X (0 .. Latency)) /\ owed' \subseteq {"data", "pong"}
           /\ PathInv' /\ Pongs' = Pongs /\ ("pong" \in owed' <=> "pong" \in owed)
<1>1. CASE edge = "silent"
  <2>1. net' = net /\ (owed' = owed \/ owed' = owed \cup {"data"})
    BY <1>1 DEF Put
  <2> QED BY <1>1, <2>1 DEF Typed, PathInv, Pongs, H2
<1>2. CASE edge # "silent"
  <2>1. owed' = owed /\ (net' = net \/ net' = net \cup {<<"data", Latency>>})
    BY <1>2 DEF Put
  <2>2. <<"data", Latency>> \in {"data", "pong"} \X (0 .. Latency)
    BY Times
  <2>3. Pongs' = Pongs
    BY <2>1 DEF Pongs
  <2>4. net' \subseteq ({"data", "pong"} \X (0 .. Latency))
    BY <2>1, <2>2 DEF Typed
  <2> QED BY <1>2, <2>1, <2>3, <2>4 DEF Typed, PathInv, H2
<1> QED BY <1>1, <1>2

\* A ping leaves: its answer is on its way, or will be when the edge is back.
LEMMA PutPong ==
    ASSUME Typed, PathInv, Put("pong"), UNCHANGED <<edge, reader, carrier>>
    PROVE  /\ net' \subseteq ({"data", "pong"} \X (0 .. Latency)) /\ owed' \subseteq {"data", "pong"}
           /\ PathInv'
           /\ edge = "silent" => Pongs' = Pongs /\ Pongs = {} /\ "pong" \in owed'
           /\ edge # "silent" => Pongs' = Pongs \cup {<<"pong", Latency>>} /\ owed' = owed /\ owed = {}
<1>1. CASE edge = "silent"
  <2>1. net' = net /\ owed' = owed \cup {"pong"}
    BY <1>1 DEF Put
  <2> QED BY <1>1, <2>1 DEF Typed, PathInv, Pongs, H2
<1>2. CASE edge # "silent"
  <2>1. owed' = owed /\ net' = net \cup {<<"pong", Latency>>}
    BY <1>2 DEF Put
  <2>2. <<"pong", Latency>> \in {"data", "pong"} \X (0 .. Latency)
    BY Times
  <2>3. Pongs' = Pongs \cup {<<"pong", Latency>>}
    BY <2>1 DEF Pongs
  <2>4. net' \subseteq ({"data", "pong"} \X (0 .. Latency))
    BY <2>1, <2>2 DEF Typed
  <2> QED BY <1>2, <2>1, <2>3, <2>4 DEF Typed, PathInv, H2
<1> QED BY <1>1, <1>2

\* What is on its way has a number of ticks left.
LEMMA PongTypes ==
    ASSUME Typed, NEW m \in Pongs
    PROVE  m \in net /\ m = <<"pong", m[2]>> /\ m[2] \in 0 .. Latency /\ m[2] \in Nat
BY Times DEF Typed, Pongs

\* A step after which the loop does not run: the timers of the loop are over.
LEMMA OutOfLoop ==
    ASSUME IInv, phase' \in {"close", "grace", "over"}, Typed', PathInv', DeadInv',
           UNCHANGED <<ready, successes>>
    PROVE  IInv'
BY DEF IInv, DialInv, HearInv, ProofInv, PongInv, BeatInv, IdleInv, Running

\* A step that leaves the loop, or moves on after it: by any verdict but "dead",
\* or by that one once nothing was heard for a round trip.
LEMMA Leaves ==
    ASSUME IInv, phase' \in {"close", "grace", "over"}, Typed', 
           verdict' = "dead" => (verdict = "dead" \/ calm <= Latency),
           UNCHANGED <<carrier, ready, successes, net, owed, edge, reader, calm>>
    PROVE  IInv'
<1>1. PathInv' /\ DeadInv'
  BY DEF IInv, PathInv, DeadInv, H2
<1> QED BY <1>1, OutOfLoop

\* A step of a part of the system that the loop's timers do not see.
LEMMA Unseen ==
    ASSUME IInv, Typed', PathInv', Pongs' = Pongs, "pong" \in owed' <=> "pong" \in owed,
           phase = "dial" => UNCHANGED <<net, owed>>,
           UNCHANGED <<phase, verdict, carrier, check, ready, successes, age, edge, reader, inbox,
                       keep, pingDue, unanswered, wait, quiet, calm>>
    PROVE  IInv'
<1>1. Running' = Running /\ H2' = H2 /\ Hearing' = Hearing
  BY DEF Running, H2, Hearing
<1>2. DialInv' /\ HearInv' /\ ProofInv' /\ DeadInv'
  BY <1>1 DEF IInv, DialInv, HearInv, ProofInv, DeadInv
<1>3. PongInv'
  BY <1>1 DEF IInv, PongInv, ToBeRead, OnItsWay, HeldBack
<1>4. BeatInv' /\ IdleInv'
  BY <1>1 DEF IInv, BeatInv, IdleInv
<1> QED BY <1>2, <1>3, <1>4 DEF IInv

-----------------------------------------------------------------------------
(* The initial states, and the steps that leave the loop or are not seen.  *)

LEMMA InitIInv == Init => IInv
<1> SUFFICES ASSUME Init PROVE IInv
  OBVIOUS
<1>1. Typed
  <2>1. /\ clock \in 0 .. Startup /\ successes \in 0 .. Required /\ age \in 0 .. Validate
        /\ queue \in 0 .. Queue /\ window \in 0 .. MaxWindow
        /\ keep \in 0 .. Period - 1 /\ wait \in 0 .. (IF H2 THEN Timeout ELSE Idle)
        /\ quiet \in 0 .. MaxQuiet /\ calm \in 0 .. Idle
    BY Times, Bounds DEF Init, Required
  <2>2. net \subseteq ({"data", "pong"} \X (0 .. Latency)) /\ owed \subseteq {"data", "pong"}
        /\ inbox \subseteq {"data", "pong"}
    BY DEF Init
  <2> QED BY <2>1, <2>2 DEF Init, Typed
<1>2. DialInv /\ PathInv /\ HearInv /\ ProofInv /\ PongInv /\ BeatInv /\ IdleInv /\ DeadInv
  BY DEF Init, DialInv, PathInv, HearInv, ProofInv, PongInv, BeatInv, IdleInv, DeadInv, Running,
     Required
<1> QED BY <1>1, <1>2 DEF IInv

\* The step leaves every typed variable but the phase, the verdict and the hop.
LEMMA StillTyped ==
    ASSUME Typed,
           phase' \in {"dial", "loop", "close", "grace", "over"},
           verdict' \in {"none", "undialled", "unproven", "dead", "ended", "startup", "dropped"},
           hop' \in {"waiting", "up", "gone"}, clock' \in 0 .. Startup,
           retried' \in BOOLEAN, finish' \in BOOLEAN,
           UNCHANGED <<carrier, check, ready, probeDue, pingDue, unanswered, successes, age, queue,
                       sender, window, edge, reader, net, owed, inbox, keep, wait, quiet, calm>>
    PROVE  Typed'
BY DEF Typed, H2

LEMMA EndSteps ==
    ASSUME IInv,
           \/ DialFails \/ ValidationEnds \/ ConnectionEnds \/ HandFinish \/ Closed
           \/ StartupTimeout \/ HopDropped \/ Aborted
    PROVE  IInv'
<1>1. /\ UNCHANGED <<carrier, check, retried, ready, successes, age, probeDue, queue, sender, window,
                     net, owed, inbox, keep, pingDue, unanswered, wait, edge, reader, quiet, calm>>
      /\ phase' \in {"close", "grace", "over"}
  BY DEF DialFails, ValidationEnds, ConnectionEnds, HandFinish, Closed, StartupTimeout,
     HopDropped, Aborted, Over, Close, startVars, hopVars, proofVars, sendVars, wireVars, liveVars,
     worldVars
<1>2. Typed
  BY DEF IInv
<1>3. verdict' = verdict \/ verdict' \in {"undialled", "unproven", "ended", "startup", "dropped"}
  BY DEF DialFails, ValidationEnds, ConnectionEnds, HandFinish, Closed, StartupTimeout,
     HopDropped, Aborted, Over, Close
<1>4. /\ hop' \in {"waiting", "up", "gone"} /\ clock' \in 0 .. Startup /\ finish' \in BOOLEAN
  BY <1>2 DEF Typed, DialFails, ValidationEnds, ConnectionEnds, HandFinish, Closed, StartupTimeout,
     HopDropped, Aborted, hopVars, sendVars
<1>5. Typed'
  BY <1>1, <1>2, <1>3, <1>4, StillTyped DEF Typed
<1> QED BY <1>1, <1>3, <1>5, Leaves

\* The pong deadline or the idle timer has run out: the edge was away.
LEMMA TimedOutUnheard ==
    ASSUME IInv, Running, TimedOut
    PROVE  calm <= Latency
<1>0. /\ Typed /\ HearInv /\ PathInv /\ PongInv /\ IdleInv
      /\ wait \in Nat /\ calm \in Nat /\ keep \in Nat /\ keep < Period
  BY Times DEF IInv, Typed
<1>1. CASE H2
  <2>1. unanswered /\ wait > Latency
    BY <1>0, <1>1, Times DEF TimedOut
  <2>2. CASE ToBeRead
    BY <1>0, <2>1, <2>2, Times DEF ToBeRead
  <2>3. CASE OnItsWay
    BY <1>0, <2>1, <2>3, Times DEF OnItsWay
  <2>4. CASE HeldBack
    BY <1>0, <2>4, Times DEF HeldBack, PathInv, HearInv, Hearing
  <2> QED BY <1>0, <1>1, <2>1, <2>2, <2>3, <2>4 DEF PongInv
<1>2. CASE ~H2
  <2>1. wait > Restarts /\ wait > Period
    BY <1>0, <1>2, Times, Bounds DEF TimedOut, Restarts
  <2>2. CASE "pong" \in inbox
    BY <1>0, <1>2, <2>1, <2>2, Bounds DEF IdleInv
  <2>3. CASE "pong" \notin inbox /\ Pongs # {}
    <3>1. PICK m \in Pongs : wait + m[2] <= Restarts \/ calm + m[2] <= Latency
      BY <1>0, <1>2, <2>3 DEF IdleInv
    <3>2. m[2] \in Nat
      BY <1>0, PongTypes
    <3> QED BY <1>0, <2>1, <3>1, <3>2, Bounds, Times
  <2>4. CASE "pong" \in owed
    BY <1>0, <2>4, Times DEF PathInv, HearInv, Hearing
  <2>5. CASE "pong" \notin inbox \cup owed /\ Pongs = {}
    BY <1>0, <1>2, <2>1, <2>5, Times DEF IdleInv
  <2> QED BY <2>2, <2>3, <2>4, <2>5
<1> QED BY <1>1, <1>2

LEMMA EdgeGoneStep ==
    ASSUME IInv, EdgeGone
    PROVE  IInv'
<1>1. /\ UNCHANGED <<carrier, check, retried, hop, clock, ready, successes, age, probeDue, queue,
                     finish, sender, window, net, owed, inbox, keep, pingDue, unanswered, wait,
                     edge, reader, quiet, calm>>
      /\ phase' \in {"close", "grace", "over"} /\ verdict' = "dead"
  BY DEF EdgeGone, Over, Close, startVars, hopVars, proofVars, sendVars, wireVars, liveVars,
     worldVars
<1>2. Typed
  BY DEF IInv
<1>3. Typed'
  BY <1>1, <1>2, StillTyped DEF Typed
<1>4. calm <= Latency
  BY TimedOutUnheard DEF EdgeGone
<1> QED BY <1>1, <1>3, <1>4, Leaves

LEMMA HopSteps ==
    ASSUME IInv, EchRetry \/ HopUp \/ HopGone \/ UNCHANGED vars
    PROVE  IInv'
<1>1. /\ UNCHANGED <<phase, verdict, carrier, check, ready, successes, age, probeDue, queue, finish,
                     sender, window, net, owed, inbox, keep, pingDue, unanswered, wait, edge, reader,
                     quiet, calm>>
  BY DEF EchRetry, HopUp, HopGone, vars, startVars, hopVars, proofVars, sendVars, wireVars, liveVars,
     worldVars
<1>2. Typed /\ PathInv
  BY DEF IInv
<1>3. /\ hop' \in {"waiting", "up", "gone"} /\ clock' \in 0 .. Startup /\ retried' \in BOOLEAN
  <2>1. hop' \in {"waiting", "up", "gone"} /\ (clock' = clock \/ clock' = 0)
    BY <1>2 DEF Typed, EchRetry, HopUp, HopGone, vars, hopVars
  <2>2. retried' = retried \/ retried' = TRUE
    BY DEF EchRetry, HopUp, HopGone, vars, startVars
  <2>3. clock' \in 0 .. Startup
    BY <1>2, <2>1, Times DEF Typed
  <2>4. retried' \in BOOLEAN
    BY <1>2, <2>2, Zenon DEF Typed
  <2> QED BY <2>1, <2>3, <2>4
<1>4. Typed'
  BY <1>1, <1>2, <1>3, StillTyped DEF Typed
<1>5. PathInv' /\ Pongs' = Pongs
  BY <1>1, <1>2 DEF PathInv, H2, Pongs
<1> QED BY <1>1, <1>4, <1>5, Unseen

-----------------------------------------------------------------------------
(* The send task, and the steps that send or receive.                      *)

\* The send task of HTTP/2, the edge's window and the packets of the netstack.
LEMMA SenderSteps ==
    ASSUME IInv, SendCapsule \/ SendGoesOn \/ EdgeGrants \/ (H2 /\ SendPacket)
    PROVE  IInv'
<1>0. Typed /\ PathInv /\ phase # "dial"
  BY DEF IInv, SendCapsule, SendGoesOn, EdgeGrants, SendPacket, SenderOn, Running
<1>1. /\ UNCHANGED <<phase, verdict, carrier, check, retried, hop, clock, ready, successes, age,
                     probeDue, finish, inbox, keep, pingDue, unanswered, wait, edge, reader,
                     quiet, calm>>
  BY DEF SendCapsule, SendGoesOn, EdgeGrants, SendPacket, startVars, hopVars, proofVars, liveVars,
     worldVars
<1>2. queue' \in 0 .. Queue
  BY <1>0, Times DEF Typed, SendCapsule, SendGoesOn, EdgeGrants, SendPacket
<1>3. CASE UNCHANGED <<net, owed>> /\ window' \in 0 .. MaxWindow /\ sender' \in {"idle", "wait"}
  <2>1. PathInv' /\ Pongs' = Pongs
    BY <1>0, <1>1, <1>3 DEF PathInv, H2, Pongs
  <2>2. Typed'
    BY <1>0, <1>1, <1>2, <1>3 DEF Typed, H2
  <2> QED BY <1>1, <1>3, <2>1, <2>2, Unseen
<1>4. CASE Put("data") /\ window' \in 0 .. MaxWindow /\ sender' \in {"idle", "wait"}
  <2>1. /\ net' \subseteq ({"data", "pong"} \X (0 .. Latency)) /\ owed' \subseteq {"data", "pong"}
        /\ PathInv' /\ Pongs' = Pongs /\ ("pong" \in owed' <=> "pong" \in owed)
    BY <1>0, <1>1, <1>4, PutData
  <2>2. Typed'
    BY <1>0, <1>1, <1>2, <1>4, <2>1 DEF Typed, H2
  <2> QED BY <1>0, <1>1, <2>1, <2>2, Unseen
<1>5. CASE Sends
  <2>1. window \in Nat
    BY <1>0, Times DEF Typed
  <2>2. CASE window > 0
    BY <1>0, <1>4, <1>5, <2>1, <2>2, Times DEF Sends, Typed
  <2>3. CASE ~(window > 0)
    BY <1>0, <1>3, <1>5, <2>3 DEF Sends, Typed, wireVars
  <2> QED BY <2>2, <2>3
<1>6. CASE EdgeGrants
  BY <1>0, <1>3, <1>6, Times DEF EdgeGrants, Typed, wireVars
<1> QED BY <1>5, <1>6 DEF SendCapsule, SendGoesOn, SendPacket

LEMMA DialledStep ==
    ASSUME IInv, Dialled
    PROVE  IInv'
<1>0. /\ Typed /\ PathInv /\ edge # "silent"
      /\ ~ready /\ successes = 0 /\ quiet = 0 /\ calm = 0
      /\ net = {} /\ owed = {} /\ inbox = {}
  BY DEF IInv, DialInv, Dialled
<1>1. /\ UNCHANGED <<verdict, carrier, check, retried, hop, clock, successes, finish, sender,
                     window, net, owed, inbox, edge, reader, quiet, calm>>
      /\ phase' = "loop" /\ age' = 0 /\ wait' = 0 /\ unanswered' = FALSE
      /\ ready' = ~check /\ probeDue' = check
  BY DEF Dialled, startVars, hopVars, wireVars, worldVars
<1>2. /\ queue' \in 0 .. Queue /\ keep' \in 0 .. Period - 1 /\ pingDue' \in BOOLEAN
  <2>1. queue' \in 0 .. Queue
    BY Times DEF Dialled
  <2>2. keep' \in 0 .. Period - 1
    BY Times DEF Dialled
  <2>3. pingDue' \in BOOLEAN
    BY Zenon DEF Dialled
  <2> QED BY <2>1, <2>2, <2>3
<1>3. H2 => keep' = 0 /\ pingDue' = TRUE
  BY DEF Dialled
<1>4. check \in BOOLEAN
  BY <1>0, CarriersAssumption DEF Typed
<1>5. H2' = H2 /\ Running'
  BY <1>1 DEF H2, Running
<1>6. Typed'
  <2>1. ready' \in BOOLEAN /\ probeDue' \in BOOLEAN /\ unanswered' \in BOOLEAN
    BY <1>1, <1>4, Zenon
  <2>2. /\ age' \in 0 .. Validate /\ wait' \in 0 .. (IF H2' THEN Timeout ELSE Idle)
    BY <1>1, Times
  <2> QED BY <1>0, <1>1, <1>2, <2>1, <2>2 DEF Typed
<1>7. PathInv' /\ Pongs' = {} /\ DeadInv'
  <2>1. verdict # "dead"
    BY DEF IInv, DeadInv, Dialled
  <2> QED BY <1>0, <1>1, <2>1 DEF PathInv, H2, Pongs, DeadInv
<1>8. DialInv' /\ HearInv'
  BY <1>0, <1>1 DEF DialInv, HearInv
<1>9. ProofInv'
  <2>1. ~ready' => check'
    BY <1>1, <1>4
  <2> QED BY <1>0, <1>1, <1>3, <1>5, <2>1 DEF ProofInv, Required
<1>10. PongInv' /\ BeatInv' /\ IdleInv'
  <2>1. PongInv'
    BY <1>0, <1>1, <1>7 DEF PongInv
  <2>2. BeatInv'
    BY <1>0, <1>1, <1>3, <1>5, Bounds DEF BeatInv, Slack
  <2>3. IdleInv'
    BY <1>0, <1>1, <1>2, <1>7, Times DEF IdleInv
  <2> QED BY <2>1, <2>2, <2>3
<1> QED BY <1>6, <1>7, <1>8, <1>9, <1>10 DEF IInv

\* QUIC sends something that is not a ping: its idle timer may restart.
LEMMA QuicSends ==
    ASSUME IInv, Running, ~H2, Put("data"), IdleRestarts, Typed',
           UNCHANGED <<phase, verdict, carrier, check, ready, successes, age, edge, reader,
                       inbox, keep, pingDue, quiet, calm>>
    PROVE  IInv'
<1>0. /\ Typed /\ PathInv /\ HearInv /\ ProofInv /\ IdleInv /\ DeadInv
      /\ wait \in Nat /\ quiet \in Nat /\ keep \in Nat /\ keep < Period /\ calm \in Nat
  BY Times, Bounds DEF IInv, Typed
<1>1. /\ PathInv' /\ Pongs' = Pongs /\ ("pong" \in owed' <=> "pong" \in owed)
  BY <1>0, PutData
<1>2. Running' /\ ~H2' /\ Hearing' = Hearing
  BY DEF Running, H2, Hearing
<1>3. DialInv' /\ HearInv' /\ DeadInv' /\ ProofInv' /\ PongInv' /\ BeatInv'
  BY <1>0, <1>2 DEF DialInv, HearInv, DeadInv, ProofInv, PongInv, BeatInv, Running
<1>4. CASE unanswered
  <2>1. UNCHANGED <<unanswered, wait>>
    BY <1>4 DEF IdleRestarts
  <2>2. IdleInv'
    BY <1>0, <1>1, <2>1 DEF IdleInv
  <2> QED BY <1>1, <1>3, <2>2 DEF IInv
<1>5. CASE ~unanswered
  <2>1. unanswered' = TRUE /\ wait' = 0
    BY <1>5 DEF IdleRestarts
  <2>2. quiet <= Period
    BY <1>0, <1>5, Times DEF IdleInv
  <2>3. "pong" \notin inbox /\ Pongs # {} => \E m \in Pongs : 0 + m[2] <= Restarts
    BY <1>0, PongTypes, Times DEF Restarts
  <2>4. IdleInv'
    BY <1>0, <1>1, <2>1, <2>2, <2>3, Times, Bounds DEF IdleInv
  <2> QED BY <1>1, <1>3, <2>4 DEF IInv
<1> QED BY <1>4, <1>5 

\* The idle timer that restarts is still one.
LEMMA RestartTypes ==
    ASSUME Typed, IdleRestarts
    PROVE  /\ unanswered' \in BOOLEAN /\ wait' \in 0 .. (IF H2 THEN Timeout ELSE Idle)
<1>1. unanswered' = unanswered \/ unanswered' = TRUE
  BY DEF IdleRestarts
<1>2. unanswered' \in BOOLEAN
  BY <1>1, Zenon DEF Typed
<1>3. wait' \in 0 .. (IF H2 THEN Timeout ELSE Idle)
  BY Times DEF IdleRestarts, Typed
<1> QED BY <1>2, <1>3

LEMMA QuicPacketStep ==
    ASSUME IInv, SendPacket, ~H2
    PROVE  IInv'
<1>0. /\ Typed /\ PathInv /\ Running /\ Put("data") /\ IdleRestarts
      /\ UNCHANGED <<phase, verdict, carrier, check, retried, hop, clock, ready, successes, age,
                     probeDue, queue, finish, sender, window, inbox, keep, pingDue, edge, reader,
                     quiet, calm>>
  BY DEF IInv, SendPacket, SenderOn, startVars, hopVars, proofVars, worldVars
<1>1. /\ net' \subseteq ({"data", "pong"} \X (0 .. Latency)) /\ owed' \subseteq {"data", "pong"}
  BY <1>0, PutData
<1>2. unanswered' \in BOOLEAN /\ wait' \in 0 .. (IF H2 THEN Timeout ELSE Idle)
  BY <1>0, RestartTypes
<1>3. Typed'
  BY <1>0, <1>1, <1>2 DEF Typed, H2
<1> QED BY <1>0, <1>3, QuicSends

LEMMA QueuedType ==
    ASSUME queue \in 0 .. Queue PROVE Queued \in 0 .. Queue
BY Times DEF Queued

LEMMA ProbeStep ==
    ASSUME IInv, Probe
    PROVE  IInv'
<1>0. /\ Typed /\ PathInv /\ Running /\ probeDue' \in BOOLEAN
      /\ UNCHANGED <<phase, verdict, carrier, check, retried, hop, clock, ready, successes, age,
                     finish, sender, window, inbox, keep, pingDue, edge, reader, quiet, calm>>
  BY DEF IInv, Probe, startVars, hopVars, worldVars
<1>1. CASE H2
  <2>1. UNCHANGED <<net, owed, unanswered, wait>> /\ queue' \in 0 .. Queue
    BY <1>0, <1>1, QueuedType DEF Probe, Typed, wireVars
  <2>2. Typed'
    BY <1>0, <2>1 DEF Typed, H2
  <2>3. PathInv' /\ Pongs' = Pongs
    BY <1>0, <2>1 DEF PathInv, H2, Pongs
  <2> QED BY <1>0, <2>1, <2>2, <2>3, Unseen
<1>2. CASE ~H2
  <2>1. Put("data") /\ IdleRestarts /\ UNCHANGED queue
    BY <1>2 DEF Probe
  <2>2. /\ net' \subseteq ({"data", "pong"} \X (0 .. Latency)) /\ owed' \subseteq {"data", "pong"}
    BY <1>0, <2>1, PutData
  <2>3. unanswered' \in BOOLEAN /\ wait' \in 0 .. (IF H2 THEN Timeout ELSE Idle)
    BY <1>0, <2>1, RestartTypes
  <2>4. Typed'
    BY <1>0, <2>1, <2>2, <2>3 DEF Typed, H2
  <2> QED BY <1>0, <1>2, <2>1, <2>4, QuicSends
<1> QED BY <1>1, <1>2

\* A datagram is read. Over QUIC it restarts the idle timer like any receipt.
LEMMA ReceiveDataStep ==
    ASSUME IInv, ReceiveData
    PROVE  IInv'
<1>0. /\ Typed /\ PathInv /\ HearInv /\ ProofInv /\ PongInv /\ BeatInv /\ IdleInv /\ DeadInv
      /\ Running /\ "data" \in inbox /\ inbox' = inbox \ {"data"}
      /\ UNCHANGED <<phase, verdict, carrier, check, retried, hop, clock, probeDue, finish, sender,
                     window, net, owed, keep, pingDue, edge, reader, quiet, calm>>
  BY DEF IInv, ReceiveData, Receives, startVars, hopVars, wireVars, worldVars
<1>1. quiet = 0 /\ keep \in Nat
  BY <1>0, Times DEF HearInv, Typed
<1>2. Running' /\ H2' = H2 /\ Hearing' = Hearing /\ Pongs' = Pongs /\ PathInv'
  BY <1>0 DEF Running, H2, Hearing, Pongs, PathInv
<1>3. /\ ready' \in BOOLEAN /\ successes' \in 0 .. Required /\ age' \in 0 .. Validate
      /\ queue' \in 0 .. Queue /\ (ready => ready') /\ (~ready' => successes' < Required)
      /\ (~ready' => ~ready /\ age' = age)
  <2>1. CASE ready
    <3>1. UNCHANGED <<ready, successes, age, queue>>
      BY <2>1 DEF ReceiveData
    <3> QED BY <1>0, <2>1, <3>1 DEF Typed, ProofInv
  <2>2. CASE ~ready
    <3>1. /\ successes' = successes + 1 /\ ready' = (successes' >= Required)
          /\ age' = IF ready' THEN 0 ELSE age
          /\ queue' = IF H2 /\ ~ready' THEN Queued ELSE queue
      BY <2>2 DEF ReceiveData
    <3>2. successes \in 0 .. Required /\ successes < Required /\ Required = 2
      BY <1>0, <2>2 DEF Typed, ProofInv, Required
    <3>3. successes' \in 0 .. Required
      BY <3>1, <3>2
    <3>4. ready' \in BOOLEAN /\ (ready' <=> successes' >= Required)
      <4>1. ready' = (successes' >= Required)
        BY <3>1
      <4>2. ready' <=> successes' >= Required
        BY <4>1, Zenon
      <4>3. (successes' >= Required) \in BOOLEAN
        BY <3>2, <3>3
      <4>4. ready' \in BOOLEAN
        BY <4>1, <4>3, Zenon
      <4> QED BY <4>2, <4>4
    <3>5. age' \in 0 .. Validate
      BY <1>0, <3>1, Times DEF Typed
    <3>6. queue' \in 0 .. Queue
      BY <1>0, <3>1, QueuedType DEF Typed
    <3>7. ready' \in BOOLEAN /\ (~ready' => age' = age)
      BY <3>1, <3>4
    <3>8. ~ready' => successes' < Required
      BY <3>2, <3>3, <3>4
    <3> QED BY <2>2, <3>3, <3>5, <3>6, <3>7, <3>8
  <2> QED BY <2>1, <2>2
<1>4. /\ H2 => UNCHANGED <<unanswered, wait>>
      /\ ~H2 => unanswered' = FALSE /\ wait' = 0
  BY DEF ReceiveData
<1>5. unanswered' \in BOOLEAN /\ wait' \in 0 .. (IF H2 THEN Timeout ELSE Idle)
  <2>1. unanswered' \in BOOLEAN
    BY <1>0, <1>4, Zenon DEF Typed
  <2>2. wait' \in 0 .. (IF H2 THEN Timeout ELSE Idle)
    BY <1>0, <1>4, Times DEF Typed
  <2> QED BY <2>1, <2>2
<1>6. Typed'
  BY <1>0, <1>2, <1>3, <1>5 DEF Typed
<1>7. DialInv' /\ HearInv' /\ DeadInv'
  BY <1>0, <1>1, <1>2 DEF DialInv, HearInv, DeadInv, Running
<1>8. ProofInv'
  BY <1>0, <1>2, <1>3, <1>4 DEF ProofInv
<1>9. PongInv'
  <2>1. "pong" \in inbox' <=> "pong" \in inbox
    BY <1>0
  <2> QED BY <1>0, <1>2, <1>4, <2>1 DEF PongInv, ToBeRead, OnItsWay, HeldBack
<1>10. BeatInv'
  <2>1. SUFFICES ASSUME H2 PROVE BeatInv'
    BY <1>2 DEF BeatInv
  <2> QED BY <1>0, <1>1, <1>2, <1>4, <2>1, Bounds DEF BeatInv
<1>11. IdleInv'
  <2> SUFFICES ASSUME ~H2 PROVE IdleInv'
    BY <1>2 DEF IdleInv
  <2>1. unanswered' = FALSE /\ wait' = 0
    BY <1>4
  <2>2. Pongs # {} => \E m \in Pongs : 0 + m[2] <= Restarts
    BY <1>0, PongTypes, Times DEF Restarts
  <2> QED BY <1>0, <1>1, <1>2, <2>1, <2>2, Times, Bounds DEF IdleInv
<1> QED BY <1>2, <1>6, <1>7, <1>8, <1>9, <1>10, <1>11 DEF IInv

\* The answer to a ping is read. HTTP/2's had to take a round trip, so that much
\* of the period is over.
LEMMA ReceivePongStep ==
    ASSUME IInv, ReceivePong
    PROVE  IInv'
<1>0. /\ Typed /\ PathInv /\ HearInv /\ ProofInv /\ PongInv /\ BeatInv /\ IdleInv /\ DeadInv
      /\ Running /\ "pong" \in inbox /\ inbox' = inbox \ {"pong"}
      /\ unanswered' = FALSE /\ wait' = 0
      /\ UNCHANGED <<phase, verdict, carrier, check, retried, hop, clock, ready, successes, age,
                     probeDue, queue, finish, sender, window, net, owed, keep, pingDue, edge, reader,
                     quiet, calm>>
  BY DEF IInv, ReceivePong, startVars, hopVars, proofVars, sendVars, wireVars, worldVars
<1>1. quiet = 0 /\ keep \in Nat /\ wait \in Nat
  BY <1>0, Times DEF HearInv, Typed
<1>2. Running' /\ H2' = H2 /\ Hearing' = Hearing /\ Pongs' = Pongs /\ PathInv'
  BY <1>0 DEF Running, H2, Hearing, Pongs, PathInv
<1>3. Typed'
  <2>1. unanswered' \in BOOLEAN
    BY <1>0, Zenon
  <2>2. wait' \in 0 .. (IF H2 THEN Timeout ELSE Idle)
    BY <1>0, Times
  <2> QED BY <1>0, <1>2, <2>1, <2>2 DEF Typed
<1>4. DialInv' /\ HearInv' /\ DeadInv' /\ ProofInv'
  BY <1>0, <1>1, <1>2 DEF DialInv, HearInv, DeadInv, ProofInv, Running
<1>5. H2 => unanswered /\ ToBeRead
  BY <1>0 DEF PongInv, OnItsWay, HeldBack
<1>6. PongInv'
  BY <1>0, <1>2, <1>5 DEF PongInv, ToBeRead
<1>7. BeatInv'
  <2> SUFFICES ASSUME H2 PROVE BeatInv'
    BY <1>2 DEF BeatInv
  <2>1. ~pingDue => keep >= Latency
    BY <1>0, <1>1, <1>5, Times DEF BeatInv, ToBeRead
  <2> QED BY <1>0, <1>1, <1>2, <2>1, Times, Bounds DEF BeatInv
<1>8. IdleInv'
  <2> SUFFICES ASSUME ~H2 PROVE IdleInv'
    BY <1>2 DEF IdleInv
  <2>1. Pongs # {} => \E m \in Pongs : 0 + m[2] <= Restarts
    BY <1>0, PongTypes, Times DEF Restarts
  <2> QED BY <1>0, <1>1, <1>2, <2>1, Times, Bounds DEF IdleInv
<1> QED BY <1>2, <1>3, <1>4, <1>6, <1>7, <1>8 DEF IInv

\* A ping, or something QUIC has to have acknowledged.
LEMMA KeepAliveStep ==
    ASSUME IInv, KeepAlive
    PROVE  IInv'
<1>0. /\ Typed /\ PathInv /\ HearInv /\ ProofInv /\ PongInv /\ BeatInv /\ IdleInv /\ DeadInv
      /\ Running /\ pingDue /\ pingDue' = FALSE /\ Put("pong") /\ (H2 => ready /\ ~unanswered)
      /\ UNCHANGED <<phase, verdict, carrier, check, retried, hop, clock, ready, successes, age,
                     probeDue, queue, finish, sender, window, inbox, keep, edge, reader, quiet, calm>>
  BY DEF IInv, KeepAlive, PingsNow, startVars, hopVars, proofVars, sendVars, worldVars
<1>1. /\ keep \in Nat /\ wait \in Nat /\ quiet \in Nat /\ calm \in Nat /\ keep < Period
  BY <1>0, Times, Bounds DEF Typed
<1>2. Running' /\ H2' = H2 /\ Hearing' = Hearing
  BY <1>0 DEF Running, H2, Hearing
<1>3. /\ net' \subseteq ({"data", "pong"} \X (0 .. Latency)) /\ owed' \subseteq {"data", "pong"}
      /\ PathInv'
      /\ edge = "silent" => Pongs' = Pongs /\ Pongs = {} /\ "pong" \in owed'
      /\ edge # "silent" => Pongs' = Pongs \cup {<<"pong", Latency>>} /\ owed' = owed /\ owed = {}
  BY <1>0, PutPong
<1>4. /\ H2 => unanswered' = TRUE /\ wait' = 0
      /\ ~H2 => IdleRestarts
  BY DEF KeepAlive
<1>5. Typed'
  <2>1. unanswered' \in BOOLEAN
    BY <1>0, <1>4, RestartTypes
  <2>2. wait' \in 0 .. (IF H2 THEN Timeout ELSE Idle)
    BY <1>0, <1>4, RestartTypes, Times
  <2>3. pingDue' \in BOOLEAN
    BY <1>0, Zenon
  <2> QED BY <1>0, <1>2, <1>3, <2>1, <2>2, <2>3 DEF Typed
<1>6. DialInv' /\ HearInv' /\ DeadInv'
  BY <1>0, <1>2 DEF DialInv, HearInv, DeadInv, Running
<1>7. ProofInv'
  BY <1>0, <1>2 DEF ProofInv
<1>8. CASE H2
  <2>1. unanswered' = TRUE /\ wait' = 0 /\ "pong" \notin inbox /\ "pong" \notin owed /\ Pongs = {}
    BY <1>0, <1>4, <1>8 DEF PongInv
  <2>2. PongInv'
    <3>1. CASE edge = "silent"
      <4>1. HeldBack'
        BY <1>0, <1>3, <2>1, <3>1 DEF HeldBack
      <4> QED BY <2>1, <4>1 DEF PongInv
    <3>2. CASE edge # "silent"
      <4>1. Pongs' = {<<"pong", Latency>>} /\ "pong" \notin inbox' \cup owed'
        BY <1>0, <1>3, <2>1, <3>2
      <4>2. Latency \in 0 .. Latency /\ 0 + Latency >= Latency /\ 0 + Latency <= Latency
        BY Times
      <4>3. OnItsWay'
        BY <2>1, <4>1, <4>2 DEF OnItsWay
      <4> QED BY <2>1, <4>3 DEF PongInv
    <3> QED BY <3>1, <3>2
  <2>3. BeatInv'
    BY <1>0, <1>1, <1>2, <1>8, <2>1, Bounds DEF BeatInv
  <2>4. IdleInv'
    BY <1>2, <1>8 DEF IdleInv
  <2> QED BY <1>3, <1>5, <1>6, <1>7, <2>2, <2>3, <2>4 DEF IInv
<1>9. CASE ~H2
  <2>0. unanswered'
    BY <1>4, <1>9 DEF IdleRestarts
  <2>1. wait' \in Nat /\ wait' <= wait
    BY <1>1, <1>4, <1>9 DEF IdleRestarts
  <2>2. quiet <= wait' + Period
    <3>1. CASE unanswered
      <4>1. wait' = wait /\ quiet <= wait + Period
        BY <1>0, <1>4, <1>9, <3>1 DEF IdleRestarts, IdleInv
      <4> QED BY <4>1
    <3>2. CASE ~unanswered
      <4>1. wait' = 0 /\ (quiet <= keep \/ quiet <= Period)
        BY <1>0, <1>4, <1>9, <3>2 DEF IdleRestarts, IdleInv
      <4> QED BY <1>1, <4>1, Times
    <3> QED BY <3>1, <3>2
  <2>3. CASE edge = "silent"
    <3>1. calm = 0
      BY <1>0, <2>3 DEF HearInv, Hearing
    <3>2. IdleInv'
      BY <1>0, <1>3, <2>0, <2>1, <2>2, <2>3, <3>1, Times DEF IdleInv
    <3> QED BY <1>2, <1>3, <1>5, <1>6, <1>7, <1>9, <3>2 DEF IInv, PongInv, BeatInv
  <2>4. CASE edge # "silent"
    <3>1. "pong" \notin inbox =>
            \E m \in Pongs' : wait' + m[2] <= Restarts \/ calm + m[2] <= Latency
      <4>1. CASE Pongs # {} /\ "pong" \notin inbox
        <5>1. PICK m \in Pongs : wait + m[2] <= Restarts \/ calm + m[2] <= Latency
          BY <1>0, <1>9, <4>1 DEF IdleInv
        <5>2. m[2] \in Nat /\ m \in Pongs'
          BY <1>0, <1>3, <2>4, PongTypes
        <5> QED BY <1>1, <2>1, <5>1, <5>2, Bounds
      <4>2. CASE Pongs = {} /\ "pong" \notin inbox
        <5>1. wait <= Period
          BY <1>0, <1>1, <1>3, <1>9, <2>4, <4>2, Times DEF IdleInv
        <5>2. wait' + Latency <= Restarts
          <6>1. wait' <= Period
            BY <1>1, <2>1, <5>1, Times
          <6>2. Period \in Nat /\ Latency \in Nat
            BY Times
          <6>3. Restarts = Period + Latency
            BY DEF Restarts
          <6>4. \A a, b, c \in Nat : a <= b => a + c <= b + c
            OBVIOUS
          <6> QED BY <2>1, <6>1, <6>2, <6>3, <6>4
        <5>3. <<"pong", Latency>> \in Pongs' /\ <<"pong", Latency>>[2] = Latency
          BY <1>3, <2>4
        <5> QED BY <5>2, <5>3
      <4> QED BY <4>1, <4>2
    <3>2. IdleInv'
      <4>1. "pong" \in inbox => wait' <= Restarts \/ calm <= Latency
        BY <1>0, <1>1, <1>9, <2>1, Bounds DEF IdleInv
      <4>2. Pongs' # {}
        BY <1>3, <2>4
      <4> QED BY <1>0, <2>0, <2>2, <3>1, <4>1, <4>2 DEF IdleInv
    <3> QED BY <1>2, <1>3, <1>5, <1>6, <1>7, <1>9, <3>2 DEF IInv, PongInv, BeatInv
  <2> QED BY <2>3, <2>4
<1> QED BY <1>8, <1>9

-----------------------------------------------------------------------------
(* The edge and the path to it.                                            *)

LEMMA ArriveStep ==
    ASSUME IInv, Arrive
    PROVE  IInv'
<1>0. /\ Typed /\ DialInv /\ PathInv /\ HearInv /\ ProofInv /\ PongInv /\ BeatInv /\ IdleInv
      /\ DeadInv /\ Hearing /\ phase # "over"
      /\ UNCHANGED <<phase, verdict, carrier, check, retried, hop, clock, ready, successes, age,
                     probeDue, queue, finish, sender, window, owed, keep, pingDue, unanswered, wait,
                     edge, reader, quiet, calm>>
  BY DEF IInv, Arrive, startVars, hopVars, proofVars, sendVars, liveVars, worldVars
<1>1. PICK m \in net : m[2] = 0 /\ net' = net \ {m} /\ inbox' = inbox \cup {m[1]}
  BY DEF Arrive
<1>2. m[1] \in {"data", "pong"} /\ m = <<m[1], 0>> /\ phase # "dial"
  BY <1>0, <1>1 DEF Typed, DialInv
<1>3. /\ net' \subseteq ({"data", "pong"} \X (0 .. Latency)) /\ inbox' \subseteq {"data", "pong"}
  BY <1>0, <1>1, <1>2 DEF Typed
<1>4. Typed' /\ PathInv' /\ DeadInv'
  BY <1>0, <1>1, <1>3 DEF Typed, H2, PathInv, DeadInv
<1>5. CASE ~Running
  <2>1. phase' \in {"close", "grace", "over"}
    BY <1>0, <1>2, <1>5 DEF Running, Typed
  <2> QED BY <1>0, <1>4, <2>1, OutOfLoop
<1>6. CASE Running
  <2>1. Running' /\ H2' = H2 /\ Hearing' = Hearing /\ quiet = 0
    BY <1>0, <1>6 DEF Running, H2, Hearing, HearInv
  <2>2. DialInv' /\ HearInv' /\ ProofInv' /\ BeatInv'
    BY <1>0, <1>6, <2>1 DEF DialInv, HearInv, ProofInv, BeatInv, Running
  <2>3. CASE m[1] = "data"
    <3>1. Pongs' = Pongs /\ ("pong" \in inbox' <=> "pong" \in inbox)
      BY <1>1, <2>3 DEF Pongs
    <3>2. PongInv'
      BY <1>0, <1>6, <2>1, <3>1 DEF PongInv, ToBeRead, OnItsWay, HeldBack
    <3>3. IdleInv'
      BY <1>0, <1>6, <2>1, <3>1 DEF IdleInv
    <3> QED BY <1>4, <2>2, <3>2, <3>3 DEF IInv
  <2>4. CASE m[1] = "pong"
    <3>1. m \in Pongs /\ Pongs' = Pongs \ {m} /\ "pong" \in inbox'
      BY <1>1, <2>4 DEF Pongs
    <3>2. PongInv'
      <4> SUFFICES ASSUME H2 PROVE PongInv'
        BY <2>1 DEF PongInv
      <4>1. unanswered /\ OnItsWay
        BY <1>0, <1>6, <3>1 DEF PongInv, ToBeRead, HeldBack
      <4>2. PICK r \in 0 .. Latency :
                /\ Pongs = {<<"pong", r>>} /\ wait + r >= Latency
                /\ calm + r <= Latency \/ wait + r <= Latency
        BY <4>1 DEF OnItsWay
      <4>3. r = 0
        BY <1>2, <3>1, <4>2
      <4>4. wait >= Latency /\ (calm <= Latency \/ wait <= Latency)
        BY <1>0, <4>2, <4>3, Times DEF Typed
      <4>5. Pongs' = {} /\ "pong" \notin owed'
        BY <1>0, <3>1, <4>1, <4>2 DEF OnItsWay
      <4>6. ToBeRead'
        BY <1>0, <3>1, <4>4, <4>5 DEF ToBeRead
      <4> QED BY <1>0, <4>1, <4>6 DEF PongInv
    <3>3. IdleInv'
      <4> SUFFICES ASSUME ~H2 PROVE IdleInv'
        BY <2>1 DEF IdleInv
      <4>1. wait <= Restarts \/ calm <= Latency
        <5>1. CASE "pong" \in inbox
          BY <1>0, <1>6, <5>1 DEF IdleInv
        <5>2. CASE "pong" \notin inbox
          <6>1. PICK n \in Pongs : wait + n[2] <= Restarts \/ calm + n[2] <= Latency
            BY <1>0, <1>6, <3>1, <5>2 DEF IdleInv
          <6>2. n[2] \in Nat /\ wait \in Nat /\ calm \in Nat
            BY <1>0, PongTypes, Times DEF Typed
          <6> QED BY <6>1, <6>2, Times, Bounds
        <5> QED BY <5>1, <5>2
      <4> QED BY <1>0, <1>6, <2>1, <3>1, <4>1 DEF IdleInv
    <3> QED BY <1>4, <2>2, <3>2, <3>3 DEF IInv
  <2> QED BY <1>2, <2>3, <2>4
<1> QED BY <1>5, <1>6

\* Pings are never lost for good: what was on its way when the edge went is owed,
\* and on its way again when it is back.
LEMMA TurnedPongs ==
    ASSUME Typed, PathInv, EdgeTurns
    PROVE  /\ edge' \in {"good", "mute", "silent"}
           /\ net' \subseteq ({"data", "pong"} \X (0 .. Latency)) /\ owed' \subseteq {"data", "pong"}
           /\ PathInv'
           /\ edge' = "silent" => Pongs' = {} /\ ("pong" \in owed' <=> "pong" \in owed \/ Pongs # {})
           /\ edge' # "silent" =>
                /\ owed' = {}
                /\ "pong" \in owed => Pongs = {} /\ Pongs' = {<<"pong", Latency>>}
                /\ "pong" \notin owed => Pongs' = Pongs
<1>0. edge' \in {"good", "mute", "silent"} /\ UNCHANGED <<carrier, reader>>
  BY DEF EdgeTurns, startVars
<1>1. CASE edge' = "silent"
  <2>1. net' = {} /\ owed' = owed \cup {m[1] : m \in {n \in net : H2 \/ n[1] = "pong"}}
    BY <1>1 DEF EdgeTurns
  <2>2. owed' \subseteq {"data", "pong"}
    BY <2>1 DEF Typed
  <2>3. "pong" \in owed' <=> "pong" \in owed \/ Pongs # {}
    BY <2>1 DEF Pongs
  <2>4. Pongs' = {}
    BY <2>1 DEF Pongs
  <2> QED BY <1>0, <1>1, <2>1, <2>2, <2>3, <2>4 DEF PathInv, H2
<1>2. CASE edge' # "silent"
  <2>1. /\ owed' = {}
        /\ net' = net \cup {<<w, Latency>> : w \in {v \in owed : v = "pong" \/ edge' = "good"}}
    BY <1>2 DEF EdgeTurns
  <2>2. net' \subseteq ({"data", "pong"} \X (0 .. Latency))
    BY <2>1, Times DEF Typed
  <2>3. "pong" \in owed => net = {}
    BY DEF PathInv
  <2>4. "pong" \in owed => Pongs = {} /\ Pongs' = {<<"pong", Latency>>}
    BY <2>1, <2>3 DEF Pongs
  <2>5. "pong" \notin owed => Pongs' = Pongs
    BY <2>1 DEF Pongs
  <2> QED BY <1>0, <1>2, <2>1, <2>2, <2>4, <2>5 DEF PathInv, H2
<1> QED BY <1>1, <1>2

LEMMA EdgeTurnsStep ==
    ASSUME IInv, EdgeTurns
    PROVE  IInv'
<1>0. /\ Typed /\ DialInv /\ PathInv /\ HearInv /\ ProofInv /\ PongInv /\ BeatInv /\ IdleInv
      /\ DeadInv /\ phase # "over"
      /\ UNCHANGED <<phase, verdict, carrier, check, retried, hop, clock, ready, successes, age,
                     probeDue, queue, finish, sender, window, inbox, keep, pingDue, unanswered, wait,
                     reader>>
  BY DEF IInv, EdgeTurns, startVars, hopVars, proofVars, sendVars, liveVars
<1>1. /\ edge' \in {"good", "mute", "silent"}
      /\ net' \subseteq ({"data", "pong"} \X (0 .. Latency)) /\ owed' \subseteq {"data", "pong"}
      /\ PathInv'
      /\ edge' = "silent" => Pongs' = {} /\ ("pong" \in owed' <=> "pong" \in owed \/ Pongs # {})
      /\ edge' # "silent" =>
                /\ owed' = {}
                /\ "pong" \in owed => Pongs = {} /\ Pongs' = {<<"pong", Latency>>}
                /\ "pong" \notin owed => Pongs' = Pongs
  BY <1>0, TurnedPongs
<1>2. /\ Running => calm' = 0 /\ quiet' = 0
      /\ ~Running => UNCHANGED <<calm, quiet>>
  BY DEF EdgeTurns
<1>3. calm' \in 0 .. Idle /\ quiet' \in 0 .. MaxQuiet
  BY <1>0, <1>2, Times, Bounds DEF Typed
<1>4. Typed'
  BY <1>0, <1>1, <1>3 DEF Typed, H2
<1>5. DeadInv'
  BY <1>0, <1>2 DEF DeadInv, Running
<1>6. CASE phase = "dial"
  <2>1. net' = {} /\ owed' = {}
    BY <1>0, <1>6 DEF EdgeTurns, DialInv
  <2>2. DialInv'
    BY <1>0, <1>2, <1>6, <2>1 DEF DialInv, Running
  <2>3. HearInv' /\ ProofInv' /\ PongInv' /\ BeatInv' /\ IdleInv'
    BY <1>0, <1>6 DEF HearInv, ProofInv, PongInv, BeatInv, IdleInv, Running
  <2> QED BY <1>1, <1>4, <1>5, <2>2, <2>3 DEF IInv
<1>7. CASE Running
  <2>1. Running' /\ H2' = H2 /\ calm' = 0 /\ quiet' = 0 /\ wait \in Nat /\ keep \in Nat
        /\ quiet \in Nat
    BY <1>0, <1>2, <1>7, Times, Bounds DEF Running, H2, Typed
  <2>2. DialInv' /\ HearInv'
    BY <1>0, <2>1 DEF DialInv, HearInv, Running
  <2>3. ProofInv'
    BY <1>0, <1>7, <2>1, Times DEF ProofInv, Typed
  <2>4. PongInv'
    <3> SUFFICES ASSUME H2 PROVE PongInv'
      BY <2>1 DEF PongInv
    <3>1. CASE ~unanswered
      <4>1. "pong" \notin inbox \cup owed /\ Pongs = {}
        BY <1>0, <1>7, <3>1 DEF PongInv
      <4>2. "pong" \notin inbox' \cup owed' /\ Pongs' = {}
        BY <1>0, <1>1, <4>1
      <4> QED BY <1>0, <3>1, <4>2 DEF PongInv
    <3>2. CASE unanswered /\ ToBeRead
      <4>1. "pong" \in inbox' /\ "pong" \notin owed' /\ Pongs' = {}
        BY <1>0, <1>1, <3>2 DEF ToBeRead
      <4>2. ToBeRead'
        BY <1>0, <2>1, <3>2, <4>1, Times DEF ToBeRead
      <4> QED BY <1>0, <3>2, <4>2 DEF PongInv
    <3>3. CASE unanswered /\ OnItsWay
      <4>1. PICK r \in 0 .. Latency : Pongs = {<<"pong", r>>} /\ wait + r >= Latency
        BY <3>3 DEF OnItsWay
      <4>2. CASE edge' = "silent"
        <5>1. HeldBack'
          BY <1>0, <1>1, <3>3, <4>1, <4>2 DEF HeldBack, OnItsWay
        <5> QED BY <1>0, <3>3, <5>1 DEF PongInv
      <4>3. CASE edge' # "silent"
        <5>1. Pongs' = {<<"pong", r>>} /\ "pong" \notin inbox' \cup owed'
          BY <1>0, <1>1, <3>3, <4>1, <4>3 DEF OnItsWay
        <5>2. wait' + r >= Latency /\ calm' + r <= Latency
          BY <1>0, <2>1, <4>1, Times
        <5>3. OnItsWay'
          BY <5>1, <5>2 DEF OnItsWay
        <5> QED BY <1>0, <3>3, <5>3 DEF PongInv
      <4> QED BY <4>2, <4>3
    <3>4. CASE unanswered /\ HeldBack
      <4>1. edge = "silent" /\ edge' # "silent"
        BY <1>0, <3>4 DEF PathInv, HeldBack, EdgeTurns
      <4>2. Pongs' = {<<"pong", Latency>>} /\ "pong" \notin inbox' \cup owed'
        BY <1>0, <1>1, <3>4, <4>1 DEF HeldBack
      <4>3. Latency \in 0 .. Latency /\ wait' + Latency >= Latency /\ calm' + Latency <= Latency
        BY <1>0, <2>1, Times
      <4>4. OnItsWay'
        BY <4>2, <4>3 DEF OnItsWay
      <4> QED BY <1>0, <3>4, <4>4 DEF PongInv
    <3> QED BY <1>0, <1>7, <3>1, <3>2, <3>3, <3>4 DEF PongInv
  <2>5. BeatInv'
    <3> SUFFICES ASSUME H2 PROVE BeatInv'
      BY <2>1 DEF BeatInv
    <3> QED BY <1>0, <1>7, <2>1, Times, Bounds DEF BeatInv
  <2>6. IdleInv'
    <3> SUFFICES ASSUME ~H2 PROVE IdleInv'
      BY <2>1 DEF IdleInv
    <3>1. \A m \in Pongs' : calm' + m[2] <= Latency
      BY <1>4, <2>1, Times DEF Typed, Pongs
    <3>2. "pong" \notin inbox' \cup owed' /\ Pongs' = {} => "pong" \notin inbox \cup owed /\ Pongs = {}
      BY <1>0, <1>1
    <3> QED BY <1>0, <1>7, <2>1, <3>1, <3>2, Times DEF IdleInv
  <2> QED BY <1>1, <1>4, <1>5, <2>2, <2>3, <2>4, <2>5, <2>6 DEF IInv
<1>8. CASE phase \in {"close", "grace"}
  BY <1>0, <1>1, <1>4, <1>5, <1>8, OutOfLoop
<1> QED BY <1>0, <1>6, <1>7, <1>8 DEF Typed, Running

\* The task that reads QUIC's socket ends, and the loop hears nothing any more.
LEMMA ReaderEndsStep ==
    ASSUME IInv, ReaderEnds
    PROVE  IInv'
<1>0. /\ Typed /\ PathInv /\ ProofInv /\ IdleInv /\ DeadInv /\ ~H2 /\ Running
      /\ reader' = "ended" /\ calm' = 0 /\ quiet' = 0
      /\ UNCHANGED <<phase, verdict, carrier, check, retried, hop, clock, ready, successes, age,
                     probeDue, queue, finish, sender, window, net, owed, inbox, keep, pingDue,
                     unanswered, wait, edge>>
  BY DEF IInv, ReaderEnds, startVars, hopVars, proofVars, sendVars, wireVars, liveVars
<1>1. Typed'
  BY <1>0, Times, Bounds DEF Typed, H2
<1>2. Running' /\ ~H2' /\ Pongs' = Pongs /\ keep \in Nat /\ wait \in Nat /\ age \in Nat
  BY <1>0, Times DEF Running, H2, Pongs, Typed
<1>3. DialInv' /\ PathInv' /\ HearInv' /\ DeadInv' /\ PongInv' /\ BeatInv'
  BY <1>0, <1>2 DEF DialInv, PathInv, HearInv, DeadInv, PongInv, BeatInv, Running
<1>4. ProofInv'
  BY <1>0, <1>2, Times DEF ProofInv
<1>5. \A m \in Pongs : 0 + m[2] <= Latency
  BY <1>0, PongTypes, Times
<1>6. IdleInv'
  BY <1>0, <1>2, <1>5, Times DEF IdleInv
<1> QED BY <1>1, <1>3, <1>4, <1>6 DEF IInv

-----------------------------------------------------------------------------
(* A tick.                                                                 *)

\* The period goes on or comes round.
LEMMA PeriodGoesOn ==
    ASSUME NEW k \in 0 .. Period - 1
    PROVE  \/ k + 1 < Period /\ (k + 1) % Period = k + 1
           \/ k + 1 = Period /\ (k + 1) % Period = 0
<1>1. k \in Nat /\ Period \in Nat /\ Period > 0 /\ k + 1 <= Period
  BY Times
<1>2. CASE k + 1 < Period
  BY <1>1, <1>2
<1>3. CASE k + 1 = Period
  BY <1>1, <1>3
<1> QED BY <1>1, <1>2, <1>3

\* What is on its way is a tick nearer.
Nearer(m) == <<m[1], IF m[2] > 0 THEN m[2] - 1 ELSE 0>>

LEMMA TickedPongs ==
    ASSUME Typed, PathInv, Tick
    PROVE  /\ net' \subseteq ({"data", "pong"} \X (0 .. Latency)) /\ PathInv'
           /\ Pongs' = {Nearer(m) : m \in Pongs}
           /\ (Pongs' = {}) <=> (Pongs = {})
<1>0. UNCHANGED <<carrier, edge, reader, owed>> /\ net' = {Nearer(m) : m \in net}
  BY DEF Tick, startVars, Nearer
<1>1. \A m \in net : /\ Nearer(m) \in {"data", "pong"} \X (0 .. Latency) 
                     /\ Nearer(m)[1] = m[1]
  BY Times DEF Typed, Nearer
<1>2. net' \subseteq ({"data", "pong"} \X (0 .. Latency))
  BY <1>0, <1>1
<1>3. Pongs' = {Nearer(m) : m \in Pongs}
  BY <1>0, <1>1 DEF Pongs
<1>4. PathInv'
  BY <1>0 DEF PathInv, H2
<1> QED BY <1>2, <1>3, <1>4

\* A tick outside the loop: nothing of the loop is timed.
LEMMA TickOutside ==
    ASSUME IInv, Tick, ~Running
    PROVE  IInv'
<1>0. /\ Typed /\ DialInv /\ PathInv /\ ProofInv /\ DeadInv /\ phase # "over"
      /\ UNCHANGED <<phase, verdict, carrier, check, retried, hop, ready, successes, age, queue,
                     finish, sender, window, owed, inbox, unanswered, wait, edge, reader, quiet, calm>>
  BY DEF IInv, Tick, startVars, sendVars
<1>1. net' \subseteq ({"data", "pong"} \X (0 .. Latency)) /\ PathInv'
  BY <1>0, TickedPongs
<1>2. clock' \in 0 .. Startup
  BY <1>0, Times DEF Tick, Prompt, Typed
<1>3. keep' \in 0 .. Period - 1
  BY <1>0, PeriodGoesOn, Times DEF Tick, Typed
<1>4. pingDue' \in BOOLEAN /\ probeDue' \in BOOLEAN
  BY Zenon DEF Tick
<1>5. Typed'
  BY <1>0, <1>1, <1>2, <1>3, <1>4 DEF Typed, H2
<1>6. DeadInv'
  BY <1>0 DEF DeadInv
<1>7. CASE phase = "dial"
  <2>1. net' = {}
    BY <1>0, <1>7 DEF Tick, DialInv
  <2>2. DialInv'
    BY <1>0, <1>7, <2>1 DEF DialInv
  <2>3. HearInv' /\ ProofInv' /\ PongInv' /\ BeatInv' /\ IdleInv'
    BY <1>0, <1>7 DEF HearInv, ProofInv, PongInv, BeatInv, IdleInv, Running
  <2> QED BY <1>1, <1>5, <1>6, <2>2, <2>3 DEF IInv
<1>8. CASE phase # "dial"
  BY <1>0, <1>1, <1>5, <1>6, <1>8, OutOfLoop DEF Typed, Running
<1> QED BY <1>7, <1>8

\* What a tick finds and does while the loop runs: nothing is left to read, to
\* ping or to give up, and the clocks move.
LEMMA TickFacts ==
    ASSUME IInv, Tick, Running
    PROVE  /\ inbox = {} /\ inbox' = {} /\ ~PingsNow /\ ~TimedOut
           /\ ~ready => check /\ age < Validate /\ age' = age + 1
           /\ ready => age' = age
           /\ (H2 => unanswered) => wait' = wait + 1
           /\ ~(H2 => unanswered) => wait' = wait
           /\ pingDue => pingDue'
           /\ \/ keep + 1 < Period /\ keep' = keep + 1 /\ (pingDue' => pingDue)
              \/ keep + 1 = Period /\ keep' = 0 /\ pingDue'
           /\ Hearing => /\ quiet' = quiet /\ \A m \in net : m[2] > 0
                         /\ calm' = (IF calm < Idle THEN calm + 1 ELSE calm)
           /\ ~Hearing => /\ calm' = calm
                          /\ quiet' = (IF quiet < MaxQuiet THEN quiet + 1 ELSE quiet)
<1>0. Typed /\ ProofInv
  BY DEF IInv
<1>1. inbox = {} /\ inbox' = {} /\ ~PingsNow /\ ~TimedOut
  BY <1>0 DEF Tick, Prompt, LoopBusy, Receives, Typed
<1>2. ~ready => check /\ age < Validate /\ age' = age + 1
  BY <1>0, Times DEF Tick, Prompt, LoopBusy, ProofInv, Typed
<1>3. \/ keep + 1 < Period /\ keep' = keep + 1 /\ keep' # 0
      \/ keep + 1 = Period /\ keep' = 0
  BY <1>0, PeriodGoesOn, Times DEF Tick, Typed
<1>4. pingDue' = (pingDue \/ keep' = 0)
  BY DEF Tick
<1>5. Hearing => \A m \in net : m[2] > 0
  BY DEF Tick, Prompt
<1>6. /\ ready => age' = age
      /\ (H2 => unanswered) => wait' = wait + 1
      /\ ~(H2 => unanswered) => wait' = wait
  BY DEF Tick
<1>7. /\ Hearing => quiet' = quiet /\ calm' = (IF calm < Idle THEN calm + 1 ELSE calm)
      /\ ~Hearing => calm' = calm /\ quiet' = (IF quiet < MaxQuiet THEN quiet + 1 ELSE quiet)
  BY DEF Tick
<1> QED BY <1>1, <1>2, <1>3, <1>4, <1>5, <1>6, <1>7

LEMMA Adding == \A a, b, c \in Nat : a <= b => a + c <= b + c /\ a + c \in Nat
OBVIOUS

LEMMA TickInside ==
    ASSUME IInv, Tick, Running
    PROVE  IInv'
<1>0. /\ Typed /\ PathInv /\ HearInv /\ ProofInv /\ PongInv /\ BeatInv /\ IdleInv /\ DeadInv
      /\ UNCHANGED <<phase, verdict, carrier, check, retried, hop, ready, successes, queue,
                     finish, sender, window, owed, unanswered, edge, reader>>
  BY DEF IInv, Tick, startVars, sendVars
<1>1. /\ net' \subseteq ({"data", "pong"} \X (0 .. Latency)) /\ PathInv'
      /\ Pongs' = {Nearer(m) : m \in Pongs}
      /\ (Pongs' = {}) <=> (Pongs = {})
  BY <1>0, TickedPongs
<1>2. /\ inbox = {} /\ inbox' = {} /\ ~PingsNow /\ ~TimedOut
      /\ ~ready => check /\ age < Validate /\ age' = age + 1
      /\ ready => age' = age
  BY TickFacts
<1>3. /\ (H2 => unanswered) => wait' = wait + 1
      /\ ~(H2 => unanswered) => wait' = wait
      /\ pingDue => pingDue'
      /\ \/ keep + 1 < Period /\ keep' = keep + 1 /\ (pingDue' => pingDue)
         \/ keep + 1 = Period /\ keep' = 0 /\ pingDue'
  BY TickFacts
<1>4. /\ Hearing => /\ quiet' = quiet /\ \A m \in net : m[2] > 0
                    /\ calm' = (IF calm < Idle THEN calm + 1 ELSE calm)
      /\ ~Hearing => /\ calm' = calm
                     /\ quiet' = (IF quiet < MaxQuiet THEN quiet + 1 ELSE quiet)
  BY TickFacts
<1>5. /\ wait \in Nat /\ keep \in Nat /\ quiet \in Nat /\ calm \in Nat /\ age \in Nat
      /\ keep < Period
  BY <1>0, Times, Bounds DEF Typed
<1>6. Running' /\ H2' = H2 /\ Hearing' = Hearing
  BY <1>0 DEF Running, H2, Hearing
<1>7. /\ quiet' \in Nat /\ quiet' <= quiet + 1 /\ calm' \in Nat /\ calm' <= calm + 1
      /\ wait' \in Nat /\ keep' \in Nat
  BY <1>3, <1>4, <1>5, Times, Bounds
<1>8. Typed'
  <2>1. clock' \in 0 .. Startup
    BY <1>0, Times DEF Tick, Prompt, Typed
  <2>2. keep' \in 0 .. Period - 1
    BY <1>3, <1>5, Times
  <2>3. pingDue' \in BOOLEAN /\ probeDue' \in BOOLEAN
    BY Zenon DEF Tick
  <2>4. age' \in 0 .. Validate
    BY <1>0, <1>2, Times DEF Typed
  <2>5. calm' \in 0 .. Idle /\ quiet' \in 0 .. MaxQuiet
    BY <1>0, <1>4, Times, Bounds DEF Typed
  <2>6. wait' \in 0 .. (IF H2 THEN Timeout ELSE Idle)
    <3>1. CASE H2
      <4>1. wait \in 0 .. Timeout
        BY <1>0, <3>1 DEF Typed
      <4>2. unanswered => wait < Timeout
        BY <1>2, <1>5, <3>1, Times DEF TimedOut
      <4>3. (unanswered /\ wait' = wait + 1) \/ wait' = wait
        BY <1>3, <3>1
      <4> QED BY <3>1, <4>1, <4>2, <4>3, Times
    <3>2. CASE ~H2
      <4>1. wait < Idle
        BY <1>2, <1>5, <3>2, Times DEF TimedOut
      <4> QED BY <1>3, <1>5, <3>2, <4>1, Times
    <3> QED BY <3>1, <3>2
  <2> QED BY <1>0, <1>1, <1>2, <1>6, <2>1, <2>2, <2>3, <2>4, <2>5, <2>6 DEF Typed
<1>9. DialInv' /\ DeadInv' /\ HearInv'
  BY <1>0, <1>2, <1>4, <1>6 DEF DialInv, DeadInv, HearInv, Running
<1>10. ProofInv'
  <2>1. ~ready => quiet' <= age' /\ (H2 => pingDue' /\ ~unanswered)
    BY <1>0, <1>2, <1>3, <1>5, <1>7 DEF ProofInv
  <2> QED BY <1>0, <1>2, <1>6, <2>1 DEF ProofInv
<1>11. PongInv'
  <2> SUFFICES ASSUME H2 PROVE PongInv'
    BY <1>6 DEF PongInv
  <2>1. CASE ~unanswered
    <3>1. Pongs' = {} /\ "pong" \notin inbox' \cup owed'
      BY <1>0, <1>1, <1>2, <2>1 DEF PongInv
    <3> QED BY <1>0, <2>1, <3>1 DEF PongInv
  <2>2. CASE unanswered /\ OnItsWay
    <3>1. PICK r \in 0 .. Latency :
                /\ Pongs = {<<"pong", r>>} /\ wait + r >= Latency
                /\ calm + r <= Latency \/ wait + r <= Latency
      BY <2>2 DEF OnItsWay
    <3>2. <<"pong", r>> \in net /\ Hearing
      BY <1>0, <3>1 DEF Pongs, PathInv, Hearing
    <3>3. r > 0
      BY <1>4, <3>2
    <3>4. r - 1 \in 0 .. Latency
      BY <3>1, <3>3, Times
    <3>5. Pongs' = {<<"pong", r - 1>>}
      BY <1>1, <3>1, <3>3 DEF Nearer
    <3>6. wait' + (r - 1) >= Latency /\ (calm' + (r - 1) <= Latency \/ wait' + (r - 1) <= Latency)
      <4>1. wait' = wait + 1
        BY <1>3, <2>2
      <4>2. wait + 1 + (r - 1) = wait + r /\ r \in Nat
        BY <1>5, Times
      <4>3. calm' + (r - 1) <= calm + r /\ calm' + (r - 1) \in Nat
        <5>1. r - 1 \in Nat /\ calm + 1 \in Nat /\ calm + 1 + (r - 1) = calm + r
          BY <1>5, <3>3, <4>2
        <5>2. calm' + (r - 1) <= calm + 1 + (r - 1) /\ calm' + (r - 1) \in Nat
          BY <1>7, <5>1, Adding
        <5> QED BY <5>1, <5>2
      <4>4. calm + r \in Nat /\ Latency \in Nat
        BY <1>5, <4>2, Times
      <4> QED BY <3>1, <4>1, <4>2, <4>3, <4>4
    <3>7. OnItsWay'
      BY <1>0, <1>2, <2>2, <3>4, <3>5, <3>6 DEF OnItsWay
    <3> QED BY <1>0, <2>2, <3>7 DEF PongInv
  <2>3. CASE unanswered /\ HeldBack
    <3>1. HeldBack'
      BY <1>0, <1>1, <1>2, <2>3 DEF HeldBack
    <3> QED BY <1>0, <2>3, <3>1 DEF PongInv
  <2>4. ~ToBeRead
    BY <1>2 DEF ToBeRead
  <2> QED BY <1>0, <2>1, <2>2, <2>3, <2>4 DEF PongInv
<1>12. BeatInv'
  <2> SUFFICES ASSUME H2 PROVE BeatInv'
    BY <1>6 DEF BeatInv
  <2>1. CASE unanswered
    <3>1. wait' = wait + 1 /\ quiet <= wait + Slack /\ (~pingDue => keep >= wait)
      BY <1>0, <1>3, <2>1 DEF BeatInv
    <3>2. quiet' <= wait' + Slack
      BY <1>5, <1>7, <3>1, Bounds
    <3>3. ~pingDue' => keep' >= wait'
      BY <1>3, <1>5, <3>1
    <3> QED BY <1>0, <2>1, <3>2, <3>3 DEF BeatInv
  <2>2. CASE ~unanswered
    <3>1. ~pingDue => keep >= Latency + quiet
      BY <1>0, <2>2 DEF BeatInv
    <3>2. ~pingDue' => keep' >= Latency + quiet'
      <4> SUFFICES ASSUME ~pingDue' PROVE keep' >= Latency + quiet'
        OBVIOUS
      <4>1. keep' = keep + 1 /\ keep >= Latency + quiet
        BY <1>3, <3>1
      <4>2. keep + 1 >= Latency + (quiet + 1)
        BY <1>5, <4>1, Times
      <4>3. quiet' + Latency <= quiet + 1 + Latency /\ quiet' + Latency \in Nat
        <5>1. quiet + 1 \in Nat /\ Latency \in Nat
          BY <1>5, Times
        <5> QED BY <1>7, <5>1, Adding
      <4>4. quiet' + Latency = Latency + quiet'
        BY <1>7, Times
      <4>5. quiet' + Latency <= keep'
        BY <1>5, <4>1, <4>2, <4>3, Times
      <4> QED BY <4>4, <4>5
    <3>3. pingDue' /\ ready => quiet' <= Slack
      <4> SUFFICES ASSUME pingDue', ready PROVE quiet' <= Slack
        OBVIOUS
      <4>1. ~pingDue
        BY <1>2, <2>2 DEF PingsNow
      <4>2. keep + 1 = Period /\ keep >= Latency + quiet
        BY <1>3, <3>1, <4>1
      <4> QED BY <1>5, <1>7, <4>2, Times DEF Slack
    <3> QED BY <1>0, <2>2, <3>2, <3>3 DEF BeatInv
  <2> QED BY <2>1, <2>2
<1>13. IdleInv'
  <2> SUFFICES ASSUME ~H2 PROVE IdleInv'
    BY <1>6 DEF IdleInv
  <2>1. ~pingDue /\ wait' = wait + 1
    BY <1>2, <1>3 DEF PingsNow
  <2>2. Pongs' # {} => \E m \in Pongs' : wait' + m[2] <= Restarts \/ calm' + m[2] <= Latency
    <3> SUFFICES ASSUME Pongs # {}
                 PROVE  \E m \in Pongs' : wait' + m[2] <= Restarts \/ calm' + m[2] <= Latency
      BY <1>1
    <3>1. PICK m \in Pongs : wait + m[2] <= Restarts \/ calm + m[2] <= Latency
      BY <1>0, <1>2 DEF IdleInv
    <3>2. m \in net /\ m[2] \in Nat /\ m[2] <= Latency /\ Nearer(m) \in Pongs'
      BY <1>0, <1>1, PongTypes, Times
    <3>3. CASE Hearing
      <4>1. m[2] > 0 /\ Nearer(m)[2] = m[2] - 1
        BY <1>4, <3>2, <3>3 DEF Nearer
      <4>2. wait' + (m[2] - 1) <= Restarts \/ calm' + (m[2] - 1) <= Latency
        BY <1>5, <1>7, <2>1, <3>1, <3>2, <4>1, Times, Bounds
      <4> QED BY <3>2, <4>1, <4>2
    <3>4. CASE ~Hearing
      <4>1. calm' = 0
        BY <1>0, <1>4, <3>4 DEF HearInv
      <4>2. Nearer(m)[2] \in Nat /\ Nearer(m)[2] <= Latency
        BY <3>2, Times DEF Nearer
      <4> QED BY <3>2, <4>1, <4>2, Times
    <3> QED BY <3>3, <3>4
  <2>3. "pong" \notin owed /\ Pongs = {} => wait' <= keep' \/ (pingDue' /\ wait' <= Period)
    <3> SUFFICES ASSUME "pong" \notin owed, Pongs = {}
                 PROVE  wait' <= keep' \/ (pingDue' /\ wait' <= Period)
      OBVIOUS
    <3>1. wait <= keep
      BY <1>0, <1>2, <2>1 DEF IdleInv
    <3> QED BY <1>3, <1>5, <2>1, <3>1, Times
  <2>4. ~unanswered => quiet' <= keep' \/ (pingDue' /\ quiet' <= Period)
    <3> SUFFICES ASSUME ~unanswered
                 PROVE  quiet' <= keep' \/ (pingDue' /\ quiet' <= Period)
      OBVIOUS
    <3>1. quiet <= keep
      BY <1>0, <2>1 DEF IdleInv
    <3> QED BY <1>3, <1>5, <1>7, <3>1, Times
  <2>5. unanswered => quiet' <= wait' + Period
    <3> SUFFICES ASSUME unanswered PROVE quiet' <= wait' + Period
      OBVIOUS
    <3>1. quiet <= wait + Period
      BY <1>0 DEF IdleInv
    <3> QED BY <1>5, <1>7, <2>1, <3>1, Times
  <2> QED BY <1>0, <1>1, <1>2, <2>2, <2>3, <2>4, <2>5 DEF IdleInv
<1> QED BY <1>1, <1>8, <1>9, <1>10, <1>11, <1>12, <1>13 DEF IInv

-----------------------------------------------------------------------------
(* The theorems.                                                           *)

LEMMA NextIInv ==
    ASSUME IInv, [Next]_vars
    PROVE  IInv'
<1>1. CASE Loop
  BY <1>1, ProbeStep, EndSteps, ReceiveDataStep, ReceivePongStep, KeepAliveStep, EdgeGoneStep
  DEF Loop
<1>2. CASE Sender
  BY <1>2, SenderSteps, QuicPacketStep, EndSteps DEF Sender
<1>3. CASE Hop
  BY <1>3, DialledStep, HopSteps, EndSteps DEF Hop
<1>4. CASE World
  BY <1>4, ArriveStep, EdgeTurnsStep, SenderSteps, ReaderEndsStep DEF World
<1>5. CASE Tick
  BY <1>5, TickInside, TickOutside
<1>6. CASE UNCHANGED vars
  BY <1>6, HopSteps
<1> QED BY <1>1, <1>2, <1>3, <1>4, <1>5, <1>6 DEF Next

\* The inductive invariant holds in every state of every tunnel.
THEOREM Inductive == Spec => []IInv
BY InitIInv, NextIInv, PTL DEF Spec

\* The state of a tunnel keeps its type; no counter leaves its range, the timers of
\* either carrier included.
THEOREM TypeCorrect == Spec => []TypeOK
<1>1. IInv => TypeOK
  BY DEF IInv, Typed, TypeOK
<1> QED BY <1>1, Inductive, PTL

\* A tunnel nothing is heard from is left in bounded time: by the deadline of the
\* ping (masque_h2.rs), by QUIC's idle timer (quic.rs), and before it is ready by
\* the validation.
THEOREM DeadEdgeIsLeftHolds == Spec => []DeadEdgeIsLeft
<1>1. IInv => DeadEdgeIsLeft
  <2> SUFFICES ASSUME IInv, Running PROVE quiet <= GivenUpWithin
    BY DEF DeadEdgeIsLeft
  <2>0. /\ Typed /\ ProofInv /\ BeatInv /\ IdleInv
        /\ wait \in Nat /\ keep \in Nat /\ quiet \in Nat /\ age \in Nat
        /\ keep < Period /\ age <= Validate
    BY Times, Bounds DEF IInv, Typed
  <2>1. CASE ~ready
    BY <2>0, <2>1, Times DEF ProofInv, GivenUpWithin
  <2>2. CASE ready /\ H2
    <3>1. GivenUpWithin = Timeout + Slack
      BY <2>2 DEF GivenUpWithin, Slack
    <3>2. wait <= Timeout
      BY <2>0, <2>2 DEF Typed
    <3>3. CASE unanswered
      BY <2>0, <2>2, <3>1, <3>2, <3>3, Times, Bounds DEF BeatInv
    <3>4. CASE ~unanswered /\ pingDue
      BY <2>0, <2>2, <3>1, <3>4, Times, Bounds DEF BeatInv
    <3>5. CASE ~unanswered /\ ~pingDue
      <4>1. keep >= Latency + quiet
        BY <2>0, <2>2, <3>5 DEF BeatInv
      <4>2. quiet <= Slack
        BY <2>0, <4>1, Times DEF Slack
      <4> QED BY <2>0, <3>1, <4>2, Times, Bounds
    <3> QED BY <3>3, <3>4, <3>5
  <2>3. CASE ready /\ ~H2
    <3>1. GivenUpWithin = Period + Idle
      BY <2>3 DEF GivenUpWithin
    <3>2. wait <= Idle
      BY <2>0, <2>3, Times DEF Typed
    <3> QED BY <2>0, <2>3, <3>1, <3>2, Times DEF IdleInv
  <2> QED BY <2>1, <2>2, <2>3
<1> QED BY <1>1, Inductive, PTL

\* An edge that is there is not taken for dead: when the deadline of the ping or
\* the idle timer ended the tunnel, the edge had not been back for a round trip.
THEOREM AnsweringEdgeIsKeptHolds == Spec => []AnsweringEdgeIsKept
<1>1. IInv => AnsweringEdgeIsKept
  BY DEF IInv, DeadInv, AnsweringEdgeIsKept
<1> QED BY <1>1, Inductive, PTL
=============================================================================
