-------------------------- MODULE WgSessionProofs --------------------------
(***************************************************************************)
(* Machine-checked proofs about WgSession, for all its times: the pauses   *)
(* of the health task, the gap between two re-handshakes, the stale        *)
(* timeout, the round trip and the limits of the error counters.           *)
(***************************************************************************)
EXTENDS WgSession, TLAPS

-----------------------------------------------------------------------------
(* The inductive invariant, part by part.                                  *)

\* What can be on its way.
Packets == {"resp", "data"} \X (0 .. Latency)

\* TypeOK in two parts, the Boolean variables one by one.
Kinds ==
    /\ phase \in {"greet", "prove", "run", "over"}
    /\ verdict \in {"none", "unverified", "reader", "task", "stale", "dead"}
    /\ sess \in {"handshake", "up", "expired"}
    /\ net \subseteq Packets /\ inbox \subseteq {"resp", "data"}
    /\ good \in BOOLEAN /\ ticked \in BOOLEAN /\ unread \in BOOLEAN
    /\ jam \in {"none", "uplink", "netstack"} /\ reader \in {"recv", "send"}
    /\ timer \in {"idle", "init", "other"} /\ health \in {"sleep", "probe"}
    /\ rekeyNow \in BOOLEAN /\ sessionDead \in BOOLEAN /\ rekeyed \in BOOLEAN

Counts ==
    /\ age \in 0 .. VerifyTicks /\ proven \in 0 .. RequiredSuccesses
    /\ nap \in 0 .. PauseMax /\ idle \in 0 .. Stale /\ sinceRekey \in 0 .. RekeyGap
    /\ strikes \in 0 .. StaleStrikes /\ encapErrors \in 0 .. EncapLimit
    /\ transientErrors \in 0 .. MaxTransient /\ calm \in 0 .. HealWithin

Typed == Kinds /\ Counts

\* While it is verified no task runs and no clock of the tunnel.
VerifyInv ==
    phase \in {"greet", "prove"} =>
        /\ jam = "none" /\ ~Waiting /\ nap = 0 /\ strikes = 0 /\ idle = 0
        /\ ~rekeyed /\ ~rekeyNow /\ ~sessionDead /\ sinceRekey = RekeyGap
        /\ proven < RequiredSuccesses /\ (phase = "prove" => sess = "up")

\* A session waits for its handshake only after it was started anew; one that
\* has expired sends nothing; nothing replaces it under the lock.
SessInv ==
    Running => /\ sess = "handshake" => rekeyed
               /\ sess = "expired" => timer = "idle"
               /\ Locked => sess = "up"
               /\ strikes < StaleStrikes

\* In a silence without a re-handshake the gap is as old as the silence.
GapInv == Running /\ ~rekeyed => idle <= sinceRekey \/ sinceRekey = RekeyGap

\* A reader that waits for the socket across a re-handshake misses nothing: what
\* was there is worth nothing any more and nothing new can come.
ReaderInv ==
    Running /\ reader = "send" /\ rekeyed =>
        /\ inbox = {} /\ sess # "up"
        /\ Full => net = {}
        /\ \A m \in net : m[2] > 0

\* What lies unread for a tick does so under the lock, or right after it, or in
\* a silence without a re-handshake.
UnreadInv ==
    /\ unread => inbox # {}
    /\ Running /\ unread => Locked \/ nap = 0 \/ ~rekeyed

\* The request of the last round is going to be served, before the next round.
SoonTurn == nap = 0 \/ (nap = 1 /\ ~ticked)
Pending ==
    /\ rekeyNow /\ sinceRekey = RekeyGap
    /\ Locked \/ ((timer = "idle" \/ ~Full) /\ SoonTurn)

\* After a strike something valid was read, or a new handshake was tried in this
\* silence or is about to be.
Heard == health = "sleep" /\ idle <= nap
StrikeInv == Running /\ strikes >= 1 => Heard \/ rekeyed \/ Pending

\* A tick the path was good for has found every task served.
CalmInv == calm >= 1 => good /\ ~Full /\ ~Waiting

StaleInv == verdict = "stale" => phase = "over" /\ rekeyed /\ ~unread

IInv == /\ Typed /\ VerifyInv /\ SessInv /\ GapInv /\ ReaderInv /\ UnreadInv
        /\ StrikeInv /\ CalmInv /\ StaleInv

-----------------------------------------------------------------------------
(* The second invariant, about a path that works again and answers within  *)
(* the gap between two re-handshakes.                                      *)

\* The round trip is shorter than REKEY_MIN_GAP.
QuickPath == Latency < RekeyGap

\* The answer to the handshake of the session in hand is on its way.
Reviving ==
    /\ sess = "handshake"
    /\ \/ "resp" \in inbox /\ sinceRekey <= Latency
       \/ \E m \in net : m[1] = "resp" /\ sinceRekey + m[2] <= Latency

\* The request of the last round will be served.
Asked == rekeyNow /\ sinceRekey = RekeyGap /\ SoonTurn

\* A re-handshake on the good path is answered or was.
RekeyInv ==
    Running /\ ~sessionDead /\ calm > sinceRekey /\ sinceRekey < RekeyGap =>
        Reviving \/ idle <= sinceRekey

\* What the last round of the health task has led to, if the path was good then:
\* something was read since, its request will be served or is being answered, the
\* silence was too short to ask, or the request fell into the gap, and then the
\* path has not been good for long.
RoundInv ==
    Running /\ ~sessionDead /\ calm > nap =>
        \/ idle <= nap
        \/ Asked
        \/ Reviving /\ (nap <= sinceRekey + 1 \/ calm < RekeyGap + nap)
        \/ idle < RekeyAfterIdle + nap
        \/ calm < RekeyGap + nap /\ (sinceRekey = RekeyGap \/ sinceRekey >= nap)

\* After a strike: the path has not been good for long, or a new handshake is
\* about to be answered.
HealInv ==
    Running /\ ~sessionDead /\ strikes >= 1 =>
        \/ Heard
        \/ calm <= PauseMax + nap
        \/ Reviving /\ nap + PauseMin <= sinceRekey + 1
        \/ calm < RekeyGap + PauseMax + nap /\ (Asked \/ (Reviving /\ nap <= sinceRekey + 1))

KeptInv == verdict = "stale" => calm < HealWithin

PathInv == RekeyInv /\ RoundInv /\ HealInv /\ KeptInv

-----------------------------------------------------------------------------
(* Facts about the constants and about what is on its way.                 *)

LEMMA Times ==
    /\ Latency \in Nat /\ Latency >= 1 /\ PauseMin \in Nat /\ PauseMin >= 2
    /\ PauseMax \in Nat /\ PauseMax >= PauseMin
    /\ RekeyGap \in Nat /\ RekeyGap >= 1 /\ RekeyGap < PauseMax /\ RekeyGap < 2 * PauseMin
    /\ EncapLimit \in Nat /\ EncapLimit >= 1 /\ VerifyTicks \in Nat /\ VerifyTicks >= 1
    /\ MaxTransient \in Nat /\ Stale \in Nat /\ Stale > 2 * PauseMax
    /\ StaleStrikes = 2 /\ RequiredSuccesses = 2
    /\ HealWithin \in Nat /\ HealWithin = 2 * PauseMax + Latency
    /\ RekeyAfterIdle \in Nat /\ 2 * RekeyAfterIdle <= Stale /\ PauseMax <= RekeyAfterIdle
  <1>1. /\ Latency \in Nat \ {0} /\ PauseMin \in Nat \ {0} /\ RekeyGap \in Nat \ {0}
        /\ EncapLimit \in Nat \ {0} /\ VerifyTicks \in Nat \ {0}
    BY TimesAssumption, Zenon
  <1>2. /\ PauseMax \in Nat /\ PauseMax >= PauseMin /\ MaxTransient \in Nat
        /\ PauseMin > 1 /\ RekeyGap < PauseMax /\ RekeyGap < 2 * PauseMin
        /\ Stale \in Nat /\ Stale > 2 * PauseMax
    BY TimesAssumption
  <1>3. Stale \div 2 \in Nat /\ 2 * (Stale \div 2) <= Stale /\ PauseMax <= Stale \div 2
    BY <1>2
  <1> QED
    BY <1>1, <1>2, <1>3 DEF StaleStrikes, RequiredSuccesses, HealWithin, RekeyAfterIdle

LEMMA AnsweredIs ==
    ASSUME NEW on, on \subseteq Packets, NEW what \in {"resp", "data"},
           NEW n \in Answered(on, what)
    PROVE  /\ n \subseteq Packets
           /\ on \subseteq n /\ n \subseteq on \cup {<<what, Latency>>}
           /\ good => <<what, Latency>> \in n
  <1>1. <<what, Latency>> \in Packets
    BY Times DEF Packets
  <1>2. n = on \cup {<<what, Latency>>} \/ (~good /\ n = on)
    BY Zenon DEF Answered
  <1> QED
    BY <1>1, <1>2, Zenon

LEMMA ElapsedIs ==
    ASSUME NEW n, n \subseteq Packets, \A m \in n : m[2] > 0
    PROVE  /\ {<<m[1], m[2] - 1>> : m \in n} \subseteq Packets
           /\ \A m \in n : m[1] \in {"resp", "data"} /\ m[2] \in Nat /\ m[2] <= Latency
  <1>1. \A m \in n : m[1] \in {"resp", "data"} /\ m[2] \in 0 .. Latency
    BY Zenon DEF Packets
  <1>2. \A m \in n : m[2] - 1 \in 0 .. Latency
    BY <1>1, Times
  <1>3. \A m \in n : <<m[1], m[2] - 1>> \in Packets
    BY <1>1, <1>2, Zenon DEF Packets
  <1>4. \A m \in n : m[2] \in Nat /\ m[2] <= Latency
    BY <1>1, Times
  <1> QED
    BY <1>1, <1>3, <1>4, Zenon

LEMMA InitIInv == Init => IInv
  <1> SUFFICES ASSUME Init PROVE IInv
    OBVIOUS
  <1>0. /\ phase = "greet" /\ verdict = "none" /\ age = 0 /\ proven = 0 /\ sess = "handshake"
        /\ good \in BOOLEAN /\ jam = "none"
        /\ net = {<<"resp", Latency>>} /\ inbox = {} /\ unread = FALSE
        /\ reader = "recv" /\ timer = "idle" /\ health = "sleep"
        /\ ticked = TRUE /\ nap = 0 /\ idle = 0 /\ sinceRekey = RekeyGap
        /\ rekeyNow = FALSE /\ sessionDead = FALSE
        /\ strikes = 0 /\ encapErrors = 0 /\ transientErrors = 0
        /\ rekeyed = FALSE /\ calm = 0
    BY DEF Init
  <1>1. net \subseteq Packets
    BY <1>0, Times DEF Packets
  <1>2. Typed
    <2>1. Kinds
      BY <1>0, <1>1, Zenon DEF Kinds
    <2>2. Counts
      BY <1>0, Times DEF Counts
    <2> QED
      BY <2>1, <2>2 DEF Typed
  <1>3. VerifyInv /\ SessInv /\ GapInv /\ ReaderInv /\ UnreadInv /\ StrikeInv /\ CalmInv /\ StaleInv
    BY <1>0, Times DEF VerifyInv, Waiting, SessInv, GapInv, ReaderInv, UnreadInv, StrikeInv,
        CalmInv, StaleInv, Running
  <1> QED
    BY <1>2, <1>3 DEF IInv

-----------------------------------------------------------------------------
(* The verification.                                                       *)

LEMMA GreetedStep == ASSUME IInv, Greeted PROVE IInv'
  <1>0. /\ Typed /\ VerifyInv /\ CalmInv /\ StaleInv
        /\ phase = "greet" /\ inbox' = {} /\ unread' = FALSE /\ sess' = "up"
        /\ UNCHANGED <<verdict, good, jam, reader, timer, health, ticked, nap, idle, sinceRekey,
                       rekeyNow, sessionDead, strikes, encapErrors, transientErrors, rekeyed, calm>>
    BY DEF IInv, Greeted, HandOver, pathVars, taskVars, flagVars
  <1>1. \/ phase' = "prove" /\ net' \in Answered(net, "data") /\ UNCHANGED <<age, proven>>
        \/ phase' = "run" /\ age' = 0 /\ proven' = 0 /\ UNCHANGED net
    BY DEF Greeted, HandOver
  <1>2. net' \subseteq Packets
    <2>1. net \subseteq Packets
      BY <1>0 DEF Typed, Kinds
    <2> QED
      BY <1>1, <2>1, AnsweredIs, Zenon
  <1>3. Typed'
    <2>0. phase' \in {"greet", "prove", "run", "over"} /\ unread' \in BOOLEAN
      BY <1>0, <1>1, Zenon
    <2>1. Kinds'
      BY <1>0, <2>0, <1>2 DEF Typed, Kinds
    <2>2. Counts'
      BY <1>0, <1>1, Times DEF Typed, Counts
    <2> QED
      BY <2>1, <2>2 DEF Typed
  <1>4. VerifyInv' /\ CalmInv'
    BY <1>0, <1>1 DEF VerifyInv, Waiting, CalmInv, Full
  <1>5. SessInv' /\ GapInv' /\ ReaderInv' /\ UnreadInv' /\ StrikeInv'
    BY <1>0, <1>1, Times DEF VerifyInv, Waiting, SessInv, GapInv, ReaderInv, UnreadInv,
        StrikeInv, Running, Locked, Typed, Kinds, Counts
  <1>6. StaleInv'
    BY <1>0 DEF StaleInv
  <1> QED
    BY <1>3, <1>4, <1>5, <1>6 DEF IInv

LEMMA ProvenStep == ASSUME IInv, Proven PROVE IInv'
  <1>0. /\ Typed /\ VerifyInv /\ CalmInv /\ StaleInv
        /\ phase = "prove" /\ inbox' = {} /\ unread' = FALSE
        /\ UNCHANGED <<verdict, sess, good, jam, reader, timer, health, ticked, nap, idle, sinceRekey,
                       rekeyNow, sessionDead, strikes, encapErrors, transientErrors, rekeyed, calm>>
    BY DEF IInv, Proven, HandOver, pathVars, taskVars, flagVars
  <1>1. \/ UNCHANGED <<phase, age, proven, net>>
        \/ /\ phase' = "prove" /\ net' \in Answered(net, "data") /\ proven' = proven + 1
           /\ proven + 1 < RequiredSuccesses /\ UNCHANGED age
        \/ phase' = "run" /\ age' = 0 /\ proven' = 0 /\ UNCHANGED net
    <2>1. proven \in Nat
      BY <1>0, Times DEF Typed, Counts
    <2> QED
      BY <1>0, <2>1, Times DEF Proven, HandOver
  <1>2. net' \subseteq Packets
    <2>1. net \subseteq Packets
      BY <1>0 DEF Typed, Kinds
    <2> QED
      BY <1>1, <2>1, AnsweredIs, Zenon
  <1>3. Typed'
    <2>0. phase' \in {"greet", "prove", "run", "over"} /\ unread' \in BOOLEAN
      BY <1>0, <1>1, Zenon
    <2>1. Kinds'
      BY <1>0, <2>0, <1>2 DEF Typed, Kinds
    <2>2. Counts'
      BY <1>0, <1>1, Times DEF Typed, Counts
    <2> QED
      BY <2>1, <2>2 DEF Typed
  <1>4. VerifyInv' /\ CalmInv'
    BY <1>0, <1>1 DEF VerifyInv, Waiting, CalmInv, Full
  <1>5. SessInv' /\ GapInv' /\ ReaderInv' /\ UnreadInv' /\ StrikeInv'
    BY <1>0, <1>1, Times DEF VerifyInv, Waiting, SessInv, GapInv, ReaderInv, UnreadInv,
        StrikeInv, Running, Locked, Typed, Kinds, Counts
  <1>6. StaleInv'
    BY <1>0 DEF StaleInv
  <1> QED
    BY <1>3, <1>4, <1>5, <1>6 DEF IInv

LEMMA VerifyResendsStep == ASSUME IInv, VerifyResends PROVE IInv'
  <1>0. /\ Typed /\ VerifyInv /\ UnreadInv /\ CalmInv /\ StaleInv
        /\ phase \in {"greet", "prove"} /\ ticked' = TRUE
        /\ net' \in Answered(net, IF phase = "greet" THEN "resp" ELSE "data")
        /\ UNCHANGED <<phase, verdict, age, proven, sess, inbox, unread, good, jam, reader, timer,
                       health, nap, idle, sinceRekey, rekeyNow, sessionDead, strikes, encapErrors,
                       transientErrors, rekeyed, calm>>
    BY DEF IInv, VerifyResends, verifyVars, pathVars, flagVars
  <1>1. net' \subseteq Packets
    <2>1. net \subseteq Packets /\ (IF phase = "greet" THEN "resp" ELSE "data") \in {"resp", "data"}
      BY <1>0 DEF Typed, Kinds
    <2> QED
      BY <1>0, <2>1, AnsweredIs, Zenon
  <1>2. Typed'
    BY <1>0, <1>1 DEF Typed, Kinds, Counts
  <1>3. VerifyInv' /\ CalmInv' /\ StaleInv' /\ UnreadInv'
    BY <1>0 DEF VerifyInv, Waiting, CalmInv, Full, StaleInv, UnreadInv, Running
  <1>4. SessInv' /\ GapInv' /\ ReaderInv' /\ StrikeInv'
    BY <1>0 DEF SessInv, GapInv, ReaderInv, StrikeInv, Running
  <1> QED
    BY <1>2, <1>3, <1>4 DEF IInv

\* A tunnel that ends for another reason than silence.
LEMMA EndsStep ==
    ASSUME IInv, phase # "over", phase' = "over", Typed', verdict' # "stale",
           UNCHANGED <<calm, good, jam, reader, timer, health, unread, inbox>>
    PROVE  IInv'
  <1>1. VerifyInv' /\ SessInv' /\ GapInv' /\ ReaderInv' /\ StrikeInv' /\ StaleInv'
    BY DEF VerifyInv, SessInv, GapInv, ReaderInv, StrikeInv, StaleInv, Running
  <1>2. UnreadInv' /\ CalmInv'
    BY DEF IInv, UnreadInv, CalmInv, Full, Waiting, Running
  <1> QED
    BY <1>1, <1>2 DEF IInv

LEMMA VerifyFailsStep == ASSUME IInv, VerifyFails PROVE IInv'
  <1>1. Typed'
    BY DEF IInv, Typed, Kinds, Counts, VerifyFails, Over, verifyVars, peerVars, pathVars, taskVars, flagVars
  <1> QED
    BY <1>1, EndsStep DEF VerifyFails, Over, peerVars, pathVars, taskVars

-----------------------------------------------------------------------------
(* The reader and the writer.                                              *)

LEMMA ReadStep == ASSUME IInv, Read PROVE IInv'
  <1>0. /\ Typed /\ SessInv /\ GapInv /\ ReaderInv /\ UnreadInv /\ StrikeInv /\ CalmInv /\ StaleInv
        /\ phase = "run" /\ reader = "recv" /\ health # "probe"
        /\ inbox' \subseteq inbox /\ unread' = (unread /\ inbox' # {}) /\ transientErrors' = 0
        /\ UNCHANGED <<phase, verdict, age, proven, net, good, jam, timer, health, ticked, nap,
                       sinceRekey, rekeyNow, sessionDead, strikes, encapErrors, calm>>
    BY DEF IInv, Read, Running, Locked, verifyVars, pathVars
  <1>1. \/ /\ idle' = 0 /\ rekeyed' = FALSE /\ sess' = "up" /\ reader' \in {"recv", "send"}
           /\ reader' = "send" => Full
        \/ UNCHANGED <<idle, rekeyed, sess, reader>>
    BY DEF Read
  <1>2. Typed'
    <2>0. unread' \in BOOLEAN /\ rekeyed' \in BOOLEAN
      BY <1>0, <1>1, Zenon DEF Typed, Kinds
    <2>1. Kinds'
      BY <1>0, <1>1, <2>0 DEF Typed, Kinds
    <2>2. Counts'
      BY <1>0, <1>1, Times DEF Typed, Counts
    <2> QED
      BY <2>1, <2>2 DEF Typed
  <1>3. VerifyInv' /\ StaleInv'
    BY <1>0 DEF VerifyInv, StaleInv
  <1>4. SessInv'
    BY <1>0, <1>1 DEF SessInv, Running, Locked
  <1>5. GapInv'
    BY <1>0, <1>1, Times DEF GapInv, Running, Typed, Counts
  <1>6. ReaderInv'
    BY <1>0, <1>1 DEF ReaderInv, Running
  <1>7. UnreadInv'
    <2>1. unread' => unread /\ inbox' # {}
      BY <1>0
    <2>2. rekeyed' => rekeyed
      BY <1>1
    <2> QED
      BY <1>0, <2>1, <2>2 DEF UnreadInv, Running, Locked
  <1>8. StrikeInv'
    <2>1. CASE idle' = 0
      BY <1>0, <2>1, Times DEF StrikeInv, Heard, Typed, Kinds, Counts
    <2>2. CASE UNCHANGED <<idle, rekeyed, sess, reader>>
      BY <1>0, <2>2 DEF StrikeInv, Heard, Pending, SoonTurn, Running, Locked, Full
    <2> QED
      BY <1>1, <2>1, <2>2
  <1>9. CalmInv'
    BY <1>0, <1>1 DEF CalmInv, Full, Waiting
  <1> QED
    BY <1>2, <1>3, <1>4, <1>5, <1>6, <1>7, <1>8, <1>9 DEF IInv

LEMMA RecvErrorStep == ASSUME IInv, RecvError PROVE IInv'
  <1>0. /\ Typed /\ phase = "run"
        /\ UNCHANGED <<age, proven, sess, net, inbox, unread, good, jam, reader, timer, health, ticked,
                       nap, idle, sinceRekey, rekeyNow, sessionDead, strikes, encapErrors,
                       rekeyed, calm>>
    BY DEF IInv, RecvError, Running, verifyVars, peerVars, pathVars, taskVars
  <1>1. CASE transientErrors < MaxTransient /\ transientErrors' = transientErrors + 1
             /\ UNCHANGED <<phase, verdict>>
    <2>1. Typed'
      BY <1>0, <1>1, Times DEF Typed, Kinds, Counts
    <2>2. VerifyInv' /\ SessInv' /\ GapInv' /\ ReaderInv' /\ UnreadInv' /\ CalmInv' /\ StaleInv'
      BY <1>0, <1>1 DEF IInv, VerifyInv, SessInv, GapInv, ReaderInv, UnreadInv, CalmInv, StaleInv,
          Running, Locked, Waiting, Full
    <2>3. StrikeInv'
      BY <1>0, <1>1 DEF IInv, StrikeInv, Heard, Pending, SoonTurn, Running, Locked, Full
    <2> QED
      BY <2>1, <2>2, <2>3 DEF IInv
  <1>2. CASE Over("reader") /\ UNCHANGED transientErrors
    <2>1. Typed'
      BY <1>0, <1>2 DEF Typed, Kinds, Counts, Over
    <2> QED
      BY <1>0, <1>2, <2>1, EndsStep DEF Over
  <1> QED
    BY <1>1, <1>2 DEF RecvError

LEMMA TaskEndsStep == ASSUME IInv, TaskEnds PROVE IInv'
  <1>1. Typed'
    BY DEF IInv, Typed, Kinds, Counts, TaskEnds, Over, verifyVars, peerVars, pathVars, taskVars,
        flagVars
  <1> QED
    BY <1>1, EndsStep DEF TaskEnds, Over, Running, peerVars, pathVars, taskVars

LEMMA WriteStep == ASSUME IInv, Write PROVE IInv'
  <1>0. /\ Typed /\ phase = "run"
        /\ encapErrors' = IF sess # "expired" THEN 0
                          ELSE IF encapErrors < EncapLimit THEN encapErrors + 1 ELSE EncapLimit
        /\ rekeyNow' = (rekeyNow \/ encapErrors' = EncapLimit)
        /\ UNCHANGED <<phase, verdict, age, proven, sess, net, inbox, unread, good, jam, reader, timer,
                       health, ticked, nap, idle, sinceRekey, sessionDead, strikes,
                       transientErrors, rekeyed, calm>>
    BY DEF IInv, Write, Running, verifyVars, peerVars, pathVars
  <1>1. Typed'
    <2>0. rekeyNow' \in BOOLEAN
      BY <1>0, Zenon
    <2>1. Kinds'
      BY <1>0, <2>0 DEF Typed, Kinds
    <2>2. Counts'
      BY <1>0, Times DEF Typed, Counts
    <2> QED
      BY <2>1, <2>2 DEF Typed
  <1>2. VerifyInv' /\ SessInv' /\ GapInv' /\ ReaderInv' /\ UnreadInv' /\ CalmInv' /\ StaleInv'
    BY <1>0 DEF IInv, VerifyInv, SessInv, GapInv, ReaderInv, UnreadInv, CalmInv, StaleInv,
        Running, Locked, Waiting, Full
  <1>3. StrikeInv'
    <2>1. rekeyNow => rekeyNow'
      BY <1>0
    <2> QED
      BY <1>0, <2>1 DEF IInv, StrikeInv, Heard, Pending, SoonTurn, Running, Locked, Full
  <1> QED
    BY <1>1, <1>2, <1>3 DEF IInv

-----------------------------------------------------------------------------
(* The timer.                                                              *)

LEMMA TimerSendsIs ==
    ASSUME NEW packet \in {"init", "other"}, NEW on, on \subseteq Packets, TimerSends(packet, on)
    PROVE  /\ net' \subseteq Packets /\ on \subseteq net'
           /\ net' \subseteq on \cup {<<"resp", Latency>>}
           /\ timer' \in {"idle", packet}
           /\ Full => timer' = packet /\ net' = on
           /\ ~Full => timer' = "idle"
           /\ ~Full /\ good /\ packet = "init" => <<"resp", Latency>> \in net'
  <1>1. CASE Full
    BY <1>1, Zenon DEF TimerSends
  <1>2. CASE ~Full
    <2>1. timer' = "idle" /\ net' \in (IF packet = "init" THEN Answered(on, "resp") ELSE {on})
      BY <1>2 DEF TimerSends
    <2>2. CASE packet = "init"
      <3>1. net' \in Answered(on, "resp") /\ "resp" \in {"resp", "data"}
        BY <2>1, <2>2
      <3>2. /\ net' \subseteq Packets /\ on \subseteq net'
            /\ net' \subseteq on \cup {<<"resp", Latency>>} /\ (good => <<"resp", Latency>> \in net')
        BY <3>1, AnsweredIs, Zenon
      <3> QED
        BY <1>2, <2>1, <3>2, Zenon
    <2>3. CASE packet # "init"
      <3>1. net' = on
        BY <2>1, <2>3
      <3> QED
        BY <1>2, <2>1, <2>3, <3>1, Zenon
    <2> QED
      BY <2>2, <2>3
  <1> QED
    BY <1>1, <1>2

\* What every turn leaves alone.
TurnFrame ==
    /\ phase = "run" /\ timer = "idle" /\ health # "probe" /\ ticked' = TRUE /\ rekeyNow' = FALSE
    /\ UNCHANGED <<phase, verdict, age, proven, good, jam, reader, health, nap, idle, strikes,
                   encapErrors, transientErrors, calm>>

\* A turn that replaces the session, and one that does not.
Replaces ==
    /\ sinceRekey' = 0 /\ rekeyed' = TRUE /\ inbox' = {} /\ unread' = FALSE
    /\ \/ sess' = "handshake" /\ TimerSends("init", {}) /\ UNCHANGED sessionDead
       \/ sess' = "expired" /\ sessionDead' = TRUE /\ net' = {} /\ UNCHANGED timer

Continues(report) ==
    /\ sess' = IF report = "expired" THEN "expired" ELSE sess
    /\ IF report = "packet"
       THEN TimerSends(IF sess = "handshake" THEN "init" ELSE "other", net)
       ELSE UNCHANGED <<timer, net>>
    /\ UNCHANGED <<sinceRekey, rekeyed, inbox, unread, sessionDead>>

LEMMA TurnIs ==
    ASSUME NEW report, TimerTurn(report)
    PROVE  /\ TurnFrame
           /\ \/ WantsRekey(report) /\ sinceRekey >= RekeyGap /\ Replaces
              \/ ~(WantsRekey(report) /\ sinceRekey >= RekeyGap) /\ Continues(report)
  <1>1. TurnFrame
    BY DEF TimerTurn, TurnFrame, Running, Locked, verifyVars, pathVars
  <1>2. \/ WantsRekey(report) /\ sinceRekey >= RekeyGap /\ Replaces
        \/ ~(WantsRekey(report) /\ sinceRekey >= RekeyGap) /\ Continues(report)
    BY Zenon DEF TimerTurn, Replaces, Continues
  <1> QED
    BY <1>1, <1>2

LEMMA ReplacesStep == ASSUME IInv, TurnFrame, Replaces PROVE IInv'
  <1>0. /\ Typed /\ CalmInv /\ StaleInv /\ sess' \in {"handshake", "expired"}
        /\ sinceRekey' = 0 /\ rekeyed' = TRUE /\ inbox' = {} /\ unread' = FALSE
        /\ phase = "run" /\ timer = "idle" /\ health # "probe" /\ ticked' = TRUE /\ rekeyNow' = FALSE
        /\ UNCHANGED <<phase, verdict, age, proven, good, jam, reader, health, nap, idle, strikes,
                       encapErrors, transientErrors, calm>>
    BY DEF IInv, Replaces, TurnFrame
  <1>1. /\ net' \subseteq Packets /\ net' \subseteq {<<"resp", Latency>>}
        /\ timer' \in {"idle", "init"} /\ sessionDead' \in BOOLEAN
        /\ Full => net' = {}
        /\ ~Full \/ sess' = "expired" => timer' = "idle"
    <2>1. CASE sess' = "handshake" /\ TimerSends("init", {}) /\ UNCHANGED sessionDead
      <3>1. /\ net' \subseteq Packets /\ net' \subseteq {} \cup {<<"resp", Latency>>}
            /\ timer' \in {"idle", "init"} /\ (Full => net' = {}) /\ (~Full => timer' = "idle")
        <4>1. PICK on : on = {} /\ TimerSends("init", on)
          BY <2>1, Zenon
        <4>2. "init" \in {"init", "other"} /\ on \subseteq Packets
          BY <4>1
        <4>3. /\ net' \subseteq Packets /\ net' \subseteq on \cup {<<"resp", Latency>>}
              /\ timer' \in {"idle", "init"} /\ (Full => net' = on) /\ (~Full => timer' = "idle")
          BY <4>1, <4>2, TimerSendsIs, Zenon
        <4> QED
          BY <4>1, <4>3
      <3> QED
        BY <1>0, <2>1, <3>1 DEF Typed, Kinds
    <2>2. CASE sess' = "expired" /\ sessionDead' = TRUE /\ net' = {} /\ UNCHANGED timer
      <3>1. sessionDead' \in BOOLEAN
        BY <2>2, Zenon
      <3> QED
        BY <1>0, <2>2, <3>1
    <2> QED
      BY <2>1, <2>2 DEF Replaces
  <1>2. Typed'
    <2>0. ticked' \in BOOLEAN /\ rekeyNow' \in BOOLEAN /\ rekeyed' \in BOOLEAN /\ unread' \in BOOLEAN
      BY <1>0, Zenon
    <2>1. Kinds'
      BY <1>0, <1>1, <2>0 DEF Typed, Kinds
    <2>2. Counts'
      BY <1>0, Times DEF Typed, Counts
    <2> QED
      BY <2>1, <2>2 DEF Typed
  <1>3. VerifyInv' /\ StaleInv' /\ GapInv' /\ StrikeInv' /\ UnreadInv'
    BY <1>0 DEF VerifyInv, StaleInv, GapInv, StrikeInv, UnreadInv
  <1>4. SessInv'
    BY <1>0, <1>1 DEF IInv, SessInv, Running, Locked
  <1>5. ReaderInv'
    <2>1. \A m \in net' : m[2] > 0
      BY <1>1, Times
    <2> QED
      BY <1>0, <1>1, <2>1 DEF ReaderInv, Full
  <1>6. CalmInv'
    BY <1>0, <1>1 DEF CalmInv, Full, Waiting
  <1> QED
    BY <1>2, <1>3, <1>4, <1>5, <1>6 DEF IInv

LEMMA ContinuesIs ==
    ASSUME Typed, TurnFrame, NEW report \in TimerReports, Continues(report)
    PROVE  /\ net' \subseteq Packets /\ net \subseteq net'
           /\ net' \subseteq net \cup {<<"resp", Latency>>}
           /\ timer' \in {"idle", "init", "other"}
           /\ Full => net' = net
           /\ ~Full => timer' = "idle"
           /\ sess = "expired" => timer' = "idle"
           /\ sess' \in {sess, "expired"} /\ (sess' = "expired" => timer' = "idle")
  <1>0. timer = "idle" /\ net \subseteq Packets
    BY DEF Typed, Kinds, TurnFrame
  <1>1. CASE report = "packet"
    <2>1. sess # "expired"
      BY <1>1 DEF TimerReports
    <2>2. TimerSends(IF sess = "handshake" THEN "init" ELSE "other", net) /\ sess' = sess
      BY <1>1 DEF Continues
    <2>3. (IF sess = "handshake" THEN "init" ELSE "other") \in {"init", "other"}
      OBVIOUS
    <2>4. PICK packet \in {"init", "other"} : TimerSends(packet, net)
      BY <2>2, <2>3, Zenon
    <2>5. /\ net' \subseteq Packets /\ net \subseteq net'
          /\ net' \subseteq net \cup {<<"resp", Latency>>} /\ timer' \in {"idle", packet}
          /\ (Full => net' = net) /\ (~Full => timer' = "idle")
      BY <1>0, <2>4, TimerSendsIs, Zenon
    <2> QED
      BY <2>1, <2>2, <2>5
  <1>2. CASE report # "packet"
    <2>1. UNCHANGED <<timer, net>> /\ sess' \in {sess, "expired"}
      BY <1>2 DEF Continues
    <2> QED
      BY <1>0, <2>1, Zenon
  <1> QED
    BY <1>1, <1>2

LEMMA ContinuesStep ==
    ASSUME IInv, TurnFrame, NEW report \in TimerReports, Continues(report),
           ~(WantsRekey(report) /\ sinceRekey >= RekeyGap)
    PROVE  IInv'
  <1>0. /\ Typed /\ SessInv /\ GapInv /\ ReaderInv /\ UnreadInv /\ StrikeInv /\ CalmInv /\ StaleInv
        /\ phase = "run" /\ timer = "idle" /\ health # "probe" /\ ticked' = TRUE /\ rekeyNow' = FALSE
        /\ UNCHANGED <<phase, verdict, age, proven, good, jam, reader, health, nap, idle, strikes,
                       encapErrors, transientErrors, calm, sinceRekey, rekeyed, inbox, unread,
                       sessionDead>>
    BY DEF IInv, Continues, TurnFrame
  <1>1. /\ net' \subseteq Packets /\ net' \subseteq net \cup {<<"resp", Latency>>}
        /\ timer' \in {"idle", "init", "other"}
        /\ Full => net' = net
        /\ ~Full => timer' = "idle"
        /\ sess' \in {sess, "expired"} /\ (sess' = "expired" => timer' = "idle")
    BY <1>0, ContinuesIs
  <1>2. Typed'
    <2>0. ticked' \in BOOLEAN /\ rekeyNow' \in BOOLEAN
      BY <1>0, Zenon
    <2>1. Kinds'
      BY <1>0, <1>1, <2>0 DEF Typed, Kinds
    <2>2. Counts'
      BY <1>0 DEF Typed, Counts
    <2> QED
      BY <2>1, <2>2 DEF Typed
  <1>3. VerifyInv' /\ StaleInv' /\ GapInv' /\ UnreadInv'
    BY <1>0 DEF VerifyInv, StaleInv, GapInv, UnreadInv, Running, Locked
  <1>4. SessInv'
    BY <1>0, <1>1 DEF SessInv, Running, Locked
  <1>5. ReaderInv'
    <2>1. (\A m \in net : m[2] > 0) => \A m \in net' : m[2] > 0
      BY <1>1, Times
    <2> QED
      BY <1>0, <1>1, <2>1 DEF ReaderInv, Full, Running
  <1>6. StrikeInv'
    <2>1. ~Pending
      BY <1>0, Times DEF Pending, WantsRekey
    <2> QED
      BY <1>0, <2>1 DEF StrikeInv, Heard, Running
  <1>7. CalmInv'
    BY <1>0, <1>1 DEF CalmInv, Full, Waiting
  <1> QED
    BY <1>2, <1>3, <1>4, <1>5, <1>6, <1>7 DEF IInv

LEMMA TimerStep == ASSUME IInv, Timer PROVE IInv'
  <1>1. PICK report \in TimerReports : TimerTurn(report)
    BY DEF Timer
  <1> QED
    BY <1>1, TurnIs, ReplacesStep, ContinuesStep

-----------------------------------------------------------------------------
(* The health task.                                                        *)

RoundFrame ==
    /\ phase = "run" /\ health = "sleep" /\ nap >= PauseMin /\ nap' = 0
    /\ UNCHANGED <<age, proven, sess, inbox, unread, good, jam, reader, timer, ticked, idle,
                   sinceRekey, sessionDead, encapErrors, transientErrors, rekeyed, calm>>

\* The three ways a round goes.
EndsDead == sessionDead /\ Over("dead") /\ UNCHANGED <<rekeyNow, strikes, health, net>>
EndsStale ==
    /\ ~sessionDead /\ rekeyNow' = (rekeyNow \/ AsksRekey) /\ strikes' = Struck
    /\ strikes' >= StaleStrikes /\ Over("stale") /\ UNCHANGED <<health, net>>
Probes ==
    /\ ~sessionDead /\ rekeyNow' = (rekeyNow \/ AsksRekey) /\ strikes' = Struck
    /\ ~(strikes' >= StaleStrikes) /\ UNCHANGED <<phase, verdict>>
    /\ IF sess = "up" /\ Full THEN health' = "probe" /\ UNCHANGED net
       ELSE /\ UNCHANGED health
            /\ net' \in (IF sess = "up" THEN Answered(net, "data") ELSE {net})

LEMMA RoundIs == HealthRound => RoundFrame /\ (EndsDead \/ EndsStale \/ Probes)
  <1> SUFFICES ASSUME HealthRound PROVE RoundFrame /\ (EndsDead \/ EndsStale \/ Probes)
    OBVIOUS
  <1>1. RoundFrame
    BY DEF HealthRound, RoundFrame, Running, verifyVars, pathVars
  <1>2. EndsDead \/ EndsStale \/ Probes
    BY Zenon DEF HealthRound, EndsDead, EndsStale, Probes
  <1> QED
    BY <1>1, <1>2

\* A round strikes only when nothing was heard, and the second time in a row only
\* when the new handshake that the first one asked for was tried.
LEMMA SecondStrike ==
    ASSUME IInv, RoundFrame, strikes' = Struck, strikes' >= StaleStrikes
    PROVE  idle >= Stale /\ strikes >= 1 /\ rekeyed /\ ~unread
  <1>0. /\ Typed /\ StrikeInv /\ UnreadInv /\ phase = "run" /\ health = "sleep" /\ nap >= PauseMin
    BY DEF IInv, RoundFrame
  <1>1. idle >= Stale /\ strikes >= 1
    BY <1>0, Times DEF Struck, Typed, Counts
  <1>2. ~Heard
    BY <1>0, <1>1, Times DEF Heard, Typed, Counts
  <1>3. ~Pending
    BY <1>0, Times DEF Pending, SoonTurn, Locked, Typed, Counts
  <1>4. rekeyed
    BY <1>0, <1>1, <1>2, <1>3 DEF StrikeInv, Running
  <1>5. ~unread
    BY <1>0, <1>4, Times DEF UnreadInv, Running, Locked, Typed, Counts
  <1> QED
    BY <1>1, <1>4, <1>5

LEMMA StruckIs ==
    ASSUME Typed, SessInv, phase = "run"
    PROVE  Struck \in 0 .. StaleStrikes /\ (Struck >= 1 => idle >= Stale)
  BY Times DEF Struck, Typed, Counts, SessInv, Running

LEMMA ProbesStep == ASSUME IInv, RoundFrame, Probes PROVE IInv'
  <1>0. /\ Typed /\ SessInv /\ GapInv /\ ReaderInv /\ UnreadInv /\ CalmInv /\ StaleInv
        /\ phase = "run" /\ health = "sleep" /\ nap' = 0
        /\ rekeyNow' = (rekeyNow \/ AsksRekey) /\ strikes' = Struck /\ ~(strikes' >= StaleStrikes)
        /\ UNCHANGED <<phase, verdict, age, proven, sess, inbox, unread, good, jam, reader, timer,
                       ticked, idle, sinceRekey, sessionDead, encapErrors, transientErrors, rekeyed,
                       calm>>
    BY DEF IInv, RoundFrame, Probes
  <1>1. /\ net' \subseteq Packets /\ health' \in {"sleep", "probe"}
        /\ sess # "up" => net' = net /\ health' = "sleep"
        /\ ~Full => health' = "sleep"
        /\ sess = "up" /\ Full => health' = "probe"
    <2>0. net \subseteq Packets
      BY <1>0 DEF Typed, Kinds
    <2>1. CASE sess = "up" /\ Full
      BY <1>0, <2>0, <2>1 DEF Probes
    <2>2. CASE sess = "up" /\ ~Full
      <3>1. net' \in Answered(net, "data") /\ health' = health
        BY <2>2 DEF Probes
      <3>2. net' \subseteq Packets
        BY <3>1, <2>0, AnsweredIs, Zenon
      <3> QED
        BY <1>0, <2>2, <3>1, <3>2
    <2>3. CASE sess # "up"
      BY <1>0, <2>0, <2>3 DEF Probes
    <2> QED
      BY <2>1, <2>2, <2>3
  <1>2. Typed'
    <2>0. rekeyNow' \in BOOLEAN
      BY <1>0, Zenon
    <2>1. Kinds'
      BY <1>0, <1>1, <2>0 DEF Typed, Kinds
    <2>2. Counts'
      BY <1>0, StruckIs, Times DEF Typed, Counts
    <2> QED
      BY <2>1, <2>2 DEF Typed
  <1>3. VerifyInv' /\ StaleInv' /\ GapInv' /\ UnreadInv'
    BY <1>0 DEF VerifyInv, StaleInv, GapInv, UnreadInv, Running
  <1>4. SessInv'
    BY <1>0, <1>1, StruckIs, Times DEF SessInv, Running, Locked
  <1>5. ReaderInv'
    BY <1>0, <1>1 DEF ReaderInv, Full, Running
  <1>6. StrikeInv'
    <2> SUFFICES ASSUME strikes' >= 1, ~rekeyed PROVE Pending'
      BY <1>0 DEF StrikeInv
    <2>1. idle >= Stale
      BY <1>0, StruckIs
    <2>2. rekeyNow'
      <3>1. AsksRekey
        BY <1>0, <2>1, Times DEF AsksRekey, Typed, Counts
      <3> QED
        BY <1>0, <3>1, Zenon
    <2>3. sinceRekey = RekeyGap
      BY <1>0, <2>1, Times DEF GapInv, Running, Typed, Counts
    <2>4. Full /\ sess = "up" => health' = "probe"
      BY <1>1
    <2>5. sess = "up" \/ timer = "idle"
      BY <1>0 DEF SessInv, Running, Typed, Kinds
    <2> QED
      BY <1>0, <2>2, <2>3, <2>4, <2>5 DEF Pending, SoonTurn, Locked, Full
  <1>7. CalmInv'
    BY <1>0, <1>1 DEF CalmInv, Full, Waiting
  <1> QED
    BY <1>2, <1>3, <1>4, <1>5, <1>6, <1>7 DEF IInv

LEMMA HealthRoundStep == ASSUME IInv, HealthRound PROVE IInv'
  <1>0. /\ RoundFrame /\ Typed /\ SessInv /\ UnreadInv /\ CalmInv /\ phase = "run" /\ nap' = 0
        /\ UNCHANGED <<age, proven, sess, inbox, unread, good, jam, reader, timer, ticked, idle,
                       sinceRekey, sessionDead, encapErrors, transientErrors, rekeyed, calm>>
    BY RoundIs DEF IInv, RoundFrame
  <1>1. CASE EndsDead
    <2>0. phase' = "over" /\ verdict' = "dead" /\ UNCHANGED <<rekeyNow, strikes, health, net>>
      BY <1>1 DEF EndsDead, Over
    <2>1. Typed'
      BY <1>0, <2>0, Times DEF Typed, Kinds, Counts
    <2> QED
      BY <1>0, <2>0, <2>1, EndsStep
  <1>2. CASE EndsStale
    <2>0. /\ phase' = "over" /\ verdict' = "stale" /\ UNCHANGED <<health, net>>
          /\ rekeyNow' = (rekeyNow \/ AsksRekey) /\ strikes' = Struck /\ strikes' >= StaleStrikes
      BY <1>2 DEF EndsStale, Over
    <2>1. rekeyed /\ ~unread
      BY <1>0, <2>0, SecondStrike
    <2>2. Typed'
      <3>0. rekeyNow' \in BOOLEAN
        BY <2>0, Zenon
      <3>1. Kinds'
        BY <1>0, <2>0, <3>0 DEF Typed, Kinds
      <3>2. Counts'
        BY <1>0, <2>0, StruckIs, Times DEF Typed, Counts
      <3> QED
        BY <3>1, <3>2 DEF Typed
    <2>3. VerifyInv' /\ SessInv' /\ GapInv' /\ ReaderInv' /\ StrikeInv' /\ StaleInv'
      BY <1>0, <2>0, <2>1 DEF VerifyInv, SessInv, GapInv, ReaderInv, StrikeInv, StaleInv, Running
    <2>4. UnreadInv' /\ CalmInv'
      BY <1>0, <2>0 DEF UnreadInv, CalmInv, Full, Waiting, Running
    <2> QED
      BY <2>2, <2>3, <2>4 DEF IInv
  <1> QED
    BY <1>0, <1>1, <1>2, RoundIs, ProbesStep

-----------------------------------------------------------------------------
(* The tasks that waited for the socket.                                   *)

LEMMA SentStep == ASSUME IInv, Sent PROVE IInv'
  <1>0. /\ Typed /\ SessInv /\ GapInv /\ ReaderInv /\ UnreadInv /\ StrikeInv /\ CalmInv /\ StaleInv
        /\ phase = "run" /\ ~Full /\ net \subseteq Packets
        /\ UNCHANGED <<phase, verdict, age, proven, sess, inbox, unread, good, jam, ticked, idle,
                       sinceRekey, rekeyNow, sessionDead, strikes, encapErrors, transientErrors,
                       rekeyed, calm>>
    BY DEF IInv, Sent, Running, verifyVars, pathVars, flagVars, Typed, Kinds
  <1>1. VerifyInv' /\ StaleInv' /\ GapInv'
    BY <1>0 DEF VerifyInv, StaleInv, GapInv, Running
  <1>2. CASE ReaderSent
    <2>0. reader' = "recv" /\ UNCHANGED <<timer, health, nap, net>>
      BY <1>2 DEF ReaderSent
    <2>1. Typed'
      BY <1>0, <2>0 DEF Typed, Kinds, Counts
    <2>2. SessInv' /\ ReaderInv' /\ UnreadInv' /\ CalmInv'
      BY <1>0, <2>0 DEF SessInv, ReaderInv, UnreadInv, CalmInv, Running, Locked, Full, Waiting
    <2>3. StrikeInv'
      BY <1>0, <2>0 DEF StrikeInv, Heard, Pending, SoonTurn, Running, Locked, Full
    <2> QED
      BY <1>1, <2>1, <2>2, <2>3 DEF IInv
  <1>3. CASE TimerSent
    <2>0. timer \in {"init", "other"} /\ TimerSends(timer, net) /\ UNCHANGED <<reader, health, nap>>
      BY <1>0, <1>3 DEF TimerSent, Typed, Kinds
    <2>1. /\ net' \subseteq Packets /\ net' \subseteq net \cup {<<"resp", Latency>>}
          /\ timer' = "idle"
      BY <1>0, <2>0, TimerSendsIs
    <2>2. Typed'
      BY <1>0, <2>0, <2>1 DEF Typed, Kinds, Counts
    <2>3. ReaderInv'
      <3>1. (\A m \in net : m[2] > 0) => \A m \in net' : m[2] > 0
        BY <2>1, Times
      <3> QED
        BY <1>0, <2>0, <3>1 DEF ReaderInv, Full, Running
    <2>4. SessInv' /\ UnreadInv' /\ CalmInv'
      BY <1>0, <2>0, <2>1 DEF SessInv, UnreadInv, CalmInv, Running, Locked, Full, Waiting
    <2>5. StrikeInv'
      BY <1>0, <2>0, <2>1 DEF StrikeInv, Heard, Pending, SoonTurn, Running, Locked, Full
    <2> QED
      BY <1>1, <2>2, <2>3, <2>4, <2>5 DEF IInv
  <1>4. CASE ProbeSent
    <2>0. /\ health = "probe" /\ health' = "sleep" /\ nap' = 0 /\ net' \in Answered(net, "data")
          /\ UNCHANGED <<reader, timer>>
      BY <1>4 DEF ProbeSent
    <2>1. net' \subseteq Packets
      BY <1>0, <2>0, AnsweredIs, Zenon
    <2>2. Typed'
      BY <1>0, <2>0, <2>1, Times DEF Typed, Kinds, Counts
    <2>3. sess = "up"
      BY <1>0, <2>0 DEF SessInv, Running, Locked
    <2>4. ReaderInv' /\ SessInv' /\ UnreadInv' /\ CalmInv'
      BY <1>0, <2>0, <2>3 DEF SessInv, ReaderInv, UnreadInv, CalmInv, Running, Locked, Full, Waiting
    <2>5. StrikeInv'
      BY <1>0, <2>0 DEF StrikeInv, Heard, Pending, SoonTurn, Running, Full
    <2> QED
      BY <1>1, <2>2, <2>4, <2>5 DEF IInv
  <1> QED
    BY <1>2, <1>3, <1>4 DEF Sent

-----------------------------------------------------------------------------
(* The peer, the path and time.                                            *)

\* A step after which there may be more to read.
LEMMA MoreStep ==
    ASSUME IInv, phase # "over", inbox \subseteq inbox', inbox' \subseteq {"resp", "data"},
           net' \subseteq net,
           ~(Running /\ reader = "send" /\ rekeyed),
           UNCHANGED <<phase, verdict, age, proven, sess, unread, good, jam, reader, timer, health,
                       ticked, nap, idle, sinceRekey, rekeyNow, sessionDead, strikes, encapErrors,
                       transientErrors, rekeyed, calm>>
    PROVE  IInv'
  <1>1. Typed'
    <2>1. net' \subseteq Packets
      BY DEF IInv, Typed, Kinds
    <2> QED
      BY <2>1 DEF IInv, Typed, Kinds, Counts
  <1>2. VerifyInv' /\ SessInv' /\ GapInv' /\ ReaderInv' /\ UnreadInv' /\ CalmInv' /\ StaleInv'
    BY DEF IInv, VerifyInv, SessInv, GapInv, ReaderInv, UnreadInv, CalmInv, StaleInv, Running,
        Locked, Waiting, Full
  <1>3. StrikeInv'
    BY DEF IInv, StrikeInv, Heard, Pending, SoonTurn, Running, Locked, Full
  <1> QED
    BY <1>1, <1>2, <1>3 DEF IInv

LEMMA ArriveStep == ASSUME IInv, Arrive PROVE IInv'
  <1>0. /\ Typed /\ ReaderInv /\ phase # "over"
        /\ UNCHANGED <<phase, verdict, age, proven, sess, unread, good, jam, reader, timer, health,
                       ticked, nap, idle, sinceRekey, rekeyNow, sessionDead, strikes, encapErrors,
                       transientErrors, rekeyed, calm>>
    BY DEF IInv, Arrive, verifyVars, pathVars, taskVars, flagVars
  <1>1. PICK m \in net :
            /\ m[2] = 0 /\ net' = net \ {m}
            /\ inbox' \in {inbox \cup {m[1]}} \cup (IF good /\ ~Deaf THEN {} ELSE {inbox})
    BY DEF Arrive
  <1>2. m[1] \in {"resp", "data"}
    BY <1>0, Zenon DEF Typed, Kinds, Packets
  <1>3. inbox \subseteq inbox' /\ inbox' \subseteq {"resp", "data"} /\ net' \subseteq net
    BY <1>0, <1>1, <1>2 DEF Typed, Kinds
  <1>4. ~(Running /\ reader = "send" /\ rekeyed)
    BY <1>0, <1>1 DEF ReaderInv
  <1> QED
    BY <1>0, <1>3, <1>4, MoreStep

LEMMA PeerDataStep == ASSUME IInv, PeerData PROVE IInv'
  <1>0. /\ Typed /\ ReaderInv /\ phase = "run" /\ sess = "up" /\ inbox' = inbox \cup {"data"}
        /\ UNCHANGED <<phase, verdict, age, proven, sess, net, unread, good, jam, reader, timer, health,
                       ticked, nap, idle, sinceRekey, rekeyNow, sessionDead, strikes, encapErrors,
                       transientErrors, rekeyed, calm>>
    BY DEF IInv, PeerData, Running, verifyVars, pathVars, taskVars, flagVars
  <1>1. /\ inbox \subseteq inbox' /\ inbox' \subseteq {"resp", "data"} /\ net' \subseteq net
        /\ ~(Running /\ reader = "send" /\ rekeyed)
    BY <1>0 DEF ReaderInv, Typed, Kinds
  <1> QED
    BY <1>0, <1>1, MoreStep

LEMMA PathTurnsStep == ASSUME IInv, PathTurns PROVE IInv'
  <1>0. /\ Typed /\ phase # "over" /\ good' = ~good /\ calm' = 0
        /\ UNCHANGED <<phase, verdict, age, proven, sess, net, inbox, unread, jam, reader, timer,
                       health, ticked, nap, idle, sinceRekey, rekeyNow, sessionDead, strikes,
                       encapErrors, transientErrors, rekeyed>>
    BY DEF IInv, PathTurns, verifyVars, peerVars, taskVars, flagVars
  <1>1. Typed'
    <2>0. good' \in BOOLEAN
      BY <1>0, Zenon
    <2> QED
      BY <1>0, <2>0, Times DEF Typed, Kinds, Counts
  <1>2. VerifyInv' /\ SessInv' /\ GapInv' /\ ReaderInv' /\ UnreadInv' /\ CalmInv' /\ StaleInv'
    BY <1>0 DEF IInv, VerifyInv, SessInv, GapInv, ReaderInv, UnreadInv, CalmInv, StaleInv,
        Running, Locked, Waiting, Full
  <1>3. StrikeInv'
    BY <1>0 DEF IInv, StrikeInv, Heard, Pending, SoonTurn, Running, Locked, Full
  <1> QED
    BY <1>1, <1>2, <1>3 DEF IInv

LEMMA JamStep == ASSUME IInv, Jam PROVE IInv'
  <1>0. /\ Typed /\ phase = "run" /\ ~Waiting /\ jam = "none" /\ jam' \in {"uplink", "netstack"}
        /\ calm' = IF jam' = "uplink" THEN 0 ELSE calm
        /\ UNCHANGED <<phase, verdict, age, proven, sess, net, inbox, unread, good, reader, timer,
                       health, ticked, nap, idle, sinceRekey, rekeyNow, sessionDead, strikes,
                       encapErrors, transientErrors, rekeyed>>
    BY DEF IInv, Jam, Running, verifyVars, peerVars, taskVars, flagVars
  <1>1. Typed'
    BY <1>0, Times DEF Typed, Kinds, Counts
  <1>2. VerifyInv' /\ SessInv' /\ GapInv' /\ ReaderInv' /\ UnreadInv' /\ StaleInv'
    BY <1>0 DEF IInv, VerifyInv, SessInv, GapInv, ReaderInv, UnreadInv, StaleInv,
        Running, Locked, Waiting
  <1>3. CalmInv'
    BY <1>0 DEF IInv, CalmInv, Waiting, Full
  <1>4. StrikeInv'
    BY <1>0 DEF IInv, StrikeInv, Heard, Pending, SoonTurn, Running, Locked, Waiting
  <1> QED
    BY <1>1, <1>2, <1>3, <1>4 DEF IInv

LEMMA DrainStep == ASSUME IInv, Drain PROVE IInv'
  <1>0. /\ Typed /\ phase # "over" /\ jam # "none" /\ jam' = "none"
        /\ UNCHANGED <<phase, verdict, age, proven, sess, net, inbox, unread, good, reader, timer,
                       health, ticked, nap, idle, sinceRekey, rekeyNow, sessionDead, strikes,
                       encapErrors, transientErrors, rekeyed, calm>>
    BY DEF IInv, Drain, verifyVars, peerVars, taskVars, flagVars
  <1>1. Typed'
    BY <1>0 DEF Typed, Kinds, Counts
  <1>2. VerifyInv' /\ SessInv' /\ GapInv' /\ ReaderInv' /\ UnreadInv' /\ StaleInv' /\ CalmInv'
    BY <1>0 DEF IInv, VerifyInv, SessInv, GapInv, ReaderInv, UnreadInv, StaleInv, CalmInv,
        Running, Locked, Waiting, Full
  <1>3. StrikeInv'
    BY <1>0 DEF IInv, StrikeInv, Heard, Pending, SoonTurn, Running, Locked, Full
  <1> QED
    BY <1>1, <1>2, <1>3 DEF IInv

\* What a tick asks for and does.
TickFrame ==
    /\ phase # "over" /\ Prompt /\ ticked' = FALSE /\ unread' = (inbox # {})
    /\ net' = {<<m[1], m[2] - 1>> : m \in net}
    /\ calm' = IF ~good \/ Full THEN 0 ELSE IF calm < HealWithin THEN calm + 1 ELSE calm
    /\ Running => /\ nap' = IF health = "sleep" THEN nap + 1 ELSE nap
                  /\ idle' = IF idle < Stale THEN idle + 1 ELSE idle
                  /\ sinceRekey' = IF sinceRekey < RekeyGap THEN sinceRekey + 1 ELSE sinceRekey
                  /\ age' = age
    /\ ~Running => age' = age + 1 /\ UNCHANGED <<nap, idle, sinceRekey>>
    /\ UNCHANGED <<phase, verdict, proven, sess, inbox, good, jam, reader, timer, health, rekeyNow,
                   sessionDead, strikes, encapErrors, transientErrors, rekeyed>>

LEMMA TickIs == Tick => TickFrame
  BY DEF Tick, TickFrame, pathVars

LEMMA PromptIs ==
    ASSUME Typed, VerifyInv, ReaderInv, phase # "over", Prompt
    PROVE  /\ \A m \in net : m[2] > 0
           /\ ~Running => inbox = {} /\ age < VerifyTicks
           /\ ~Full => ~Waiting
           /\ Running /\ health = "sleep" => nap < PauseMax
           /\ Running /\ timer = "idle" /\ ~Locked => ticked
           /\ Running /\ inbox # {} => Locked \/ reader = "send"
  <1>1. ~Running => ~Waiting
    BY DEF VerifyInv, Running, Typed, Kinds
  <1>2. Running /\ inbox # {} => Locked \/ reader = "send"
    <2>1. Running /\ reader = "recv" /\ ~Locked => inbox = {}
      BY DEF Prompt, HandsOver
    <2> QED
      BY <2>1 DEF Typed, Kinds
  <1> QED
    BY <1>1, <1>2 DEF Prompt

LEMMA TickStep == ASSUME IInv, TickFrame PROVE IInv'
  <1>0. /\ Typed /\ VerifyInv /\ SessInv /\ GapInv /\ ReaderInv /\ StrikeInv /\ CalmInv /\ StaleInv
        /\ phase # "over" /\ Prompt /\ ticked' = FALSE /\ unread' = (inbox # {})
        /\ net' = {<<m[1], m[2] - 1>> : m \in net}
        /\ UNCHANGED <<phase, verdict, proven, sess, inbox, good, jam, reader, timer, health, rekeyNow,
                       sessionDead, strikes, encapErrors, transientErrors, rekeyed>>
    BY DEF IInv, TickFrame
  <1>1. /\ \A m \in net : m[2] > 0
        /\ ~Running => inbox = {} /\ age < VerifyTicks
        /\ ~Full => ~Waiting
        /\ Running /\ health = "sleep" => nap < PauseMax
        /\ Running /\ timer = "idle" /\ ~Locked => ticked
        /\ Running /\ inbox # {} => Locked \/ reader = "send"
    BY <1>0, PromptIs
  <1>2. /\ calm' = IF ~good \/ Full THEN 0 ELSE IF calm < HealWithin THEN calm + 1 ELSE calm
        /\ Running => /\ nap' = IF health = "sleep" THEN nap + 1 ELSE nap
                      /\ idle' = IF idle < Stale THEN idle + 1 ELSE idle
                      /\ sinceRekey' = IF sinceRekey < RekeyGap THEN sinceRekey + 1 ELSE sinceRekey
                      /\ age' = age
        /\ ~Running => age' = age + 1 /\ UNCHANGED <<nap, idle, sinceRekey>>
    BY DEF TickFrame
  <1>3. Typed'
    <2>0. ticked' \in BOOLEAN /\ unread' \in BOOLEAN
      BY <1>0, Zenon
    <2>1. net' \subseteq Packets
      <3>1. net \subseteq Packets
        BY <1>0 DEF Typed, Kinds
      <3> QED
        BY <1>0, <1>1, <3>1, ElapsedIs, Zenon
    <2>2. Kinds'
      BY <1>0, <2>0, <2>1 DEF Typed, Kinds
    <2>3. Counts'
      BY <1>0, <1>1, <1>2, Times DEF Typed, Counts
    <2> QED
      BY <2>2, <2>3 DEF Typed
  <1>4. VerifyInv'
    BY <1>0, <1>2 DEF VerifyInv, Waiting, Running
  <1>5. SessInv' /\ StaleInv'
    BY <1>0 DEF SessInv, StaleInv, Running, Locked
  <1>6. GapInv'
    BY <1>0, <1>2, Times DEF GapInv, Running, Typed, Counts
  <1>7. ReaderInv'
    <2> SUFFICES ASSUME Running, reader = "send", rekeyed
                 PROVE  inbox = {} /\ sess # "up" /\ net' = {}
      BY <1>0 DEF ReaderInv, Running
    <2>1. Full
      BY <1>1 DEF Waiting
    <2>2. inbox = {} /\ sess # "up" /\ net = {}
      BY <1>0, <2>1 DEF ReaderInv
    <2> QED
      BY <1>0, <2>2, Zenon
  <1>8. UnreadInv'
    <2>1. unread' => inbox # {}
      BY <1>0
    <2>2. Running /\ inbox # {} => Locked \/ ~rekeyed
      BY <1>0, <1>1 DEF ReaderInv
    <2> QED
      BY <1>0, <2>1, <2>2 DEF UnreadInv, Running, Locked
  <1>9. StrikeInv'
    <2> SUFFICES ASSUME Running, strikes >= 1, ~rekeyed PROVE Heard' \/ Pending'
      BY <1>0 DEF StrikeInv, Running
    <2>1. Heard => Heard'
      BY <1>0, <1>2, Times DEF Heard, Typed, Counts
    <2>2. ASSUME Pending PROVE Pending'
      <3>1. rekeyNow' /\ sinceRekey' = RekeyGap
        BY <1>0, <1>2, <2>2, Times DEF Pending, Typed, Counts
      <3>2. CASE Locked
        BY <1>0, <3>1, <3>2 DEF Pending, Locked
      <3>3. CASE ~Locked
        <4>1. timer = "idle" /\ SoonTurn
          BY <1>1, <2>2, <3>3 DEF Pending, Waiting
        <4>2. ticked
          BY <1>1, <3>3, <4>1
        <4>3. nap = 0 /\ health = "sleep"
          BY <1>0, <3>3, <4>1, <4>2 DEF SoonTurn, Locked, Typed, Kinds
        <4>4. nap' = 1
          BY <1>2, <4>3
        <4> QED
          BY <1>0, <3>1, <4>1, <4>4 DEF Pending, SoonTurn
      <3> QED
        BY <3>2, <3>3
    <2> QED
      BY <1>0, <2>1, <2>2 DEF StrikeInv
  <1>10. CalmInv'
    <2>1. calm' >= 1 => good /\ ~Full
      BY <1>2
    <2> QED
      BY <1>0, <1>1, <2>1 DEF CalmInv, Full, Waiting
  <1> QED
    BY <1>3, <1>4, <1>5, <1>6, <1>7, <1>8, <1>9, <1>10 DEF IInv

LEMMA StutterStep == ASSUME IInv, UNCHANGED vars PROVE IInv'
  <1>0. UNCHANGED <<phase, verdict, age, proven, sess, net, inbox, unread, good, jam, reader, timer,
                    health, ticked, nap, idle, sinceRekey, rekeyNow, sessionDead, strikes,
                    encapErrors, transientErrors, rekeyed, calm>>
    BY DEF vars, verifyVars, peerVars, pathVars, taskVars, flagVars
  <1>1. Typed' /\ VerifyInv' /\ SessInv' /\ GapInv' /\ ReaderInv' /\ UnreadInv' /\ StaleInv' /\ CalmInv'
    BY <1>0 DEF IInv, Typed, Kinds, Counts, VerifyInv, SessInv, GapInv, ReaderInv, UnreadInv,
        StaleInv, CalmInv, Running, Locked, Waiting, Full
  <1>2. StrikeInv'
    BY <1>0 DEF IInv, StrikeInv, Heard, Pending, SoonTurn, Running, Locked, Full
  <1> QED
    BY <1>1, <1>2 DEF IInv

-----------------------------------------------------------------------------
(* The results.                                                            *)

\* Every step of every task, of the peer, the path and the clock keeps IInv.
THEOREM Inductive == Spec => []IInv
  <1>1. ASSUME IInv, [Next]_vars PROVE IInv'
    <2>1. CASE Verify
      BY <1>1, <2>1, GreetedStep, ProvenStep, VerifyResendsStep, VerifyFailsStep DEF Verify
    <2>2. CASE Tasks
      BY <1>1, <2>2, ReadStep, RecvErrorStep, TaskEndsStep, WriteStep, TimerStep, HealthRoundStep,
         SentStep DEF Tasks
    <2>3. CASE World
      BY <1>1, <2>3, ArriveStep, PeerDataStep, PathTurnsStep, JamStep, DrainStep DEF World
    <2>4. CASE Tick
      BY <1>1, <2>4, TickIs, TickStep
    <2>5. CASE UNCHANGED vars
      BY <1>1, <2>5, StutterStep
    <2> QED
      BY <1>1, <2>1, <2>2, <2>3, <2>4, <2>5 DEF Next
  <1> QED
    BY <1>1, InitIInv, PTL DEF Spec

\* Every variable of the tunnel stays in its type: the clocks and the counters of
\* the health task and of the socket's errors within the limits that stop them.
THEOREM TypeCorrect == Spec => []TypeOK
  <1>1. IInv => TypeOK
    <2> SUFFICES ASSUME Kinds, Counts PROVE TypeOK
      BY DEF IInv, Typed
    <2>1. {good, ticked, unread} \subseteq BOOLEAN /\ {rekeyNow, sessionDead, rekeyed} \subseteq BOOLEAN
      BY Zenon DEF Kinds
    <2> QED
      BY <2>1, Zenon DEF TypeOK, Kinds, Counts, Packets
  <1> QED
    BY <1>1, Inductive, PTL

\* health_task writes a tunnel off only after timer_task has tried a new handshake
\* in the same silence, and never while recv_task has left something in the socket
\* unread, for any pauses, gap, stale timeout, round trip and error limits that
\* are in the proportions of the engine's constants.
THEOREM DeathIsEarnedHolds == Spec => []DeathIsEarned
  <1>1. IInv => DeathIsEarned
    BY DEF IInv, StaleInv, DeathIsEarned
  <1> QED
    BY <1>1, Inductive, PTL

-----------------------------------------------------------------------------
(* The path that works again.                                              *)

LEMMA Clocks ==
    ASSUME Typed
    PROVE  /\ nap \in Nat /\ nap <= PauseMax /\ idle \in Nat /\ idle <= Stale
           /\ sinceRekey \in Nat /\ sinceRekey <= RekeyGap /\ strikes \in Nat
           /\ calm \in Nat /\ calm <= HealWithin
  BY Times DEF Typed, Counts

LEMMA RevivingIs ==
    ASSUME Typed, Reviving PROVE sess = "handshake" /\ sinceRekey <= Latency
  <1>1. CASE "resp" \in inbox /\ sinceRekey <= Latency
    BY <1>1 DEF Reviving
  <1>2. CASE \E m \in net : m[1] = "resp" /\ sinceRekey + m[2] <= Latency
    <2>1. PICK m \in net : sinceRekey + m[2] <= Latency
      BY <1>2
    <2>2. m[2] \in 0 .. Latency
      BY Zenon DEF Typed, Kinds, Packets
    <2> QED
      BY <2>1, <2>2, Clocks, Times DEF Reviving
  <1> QED
    BY <1>1, <1>2 DEF Reviving

LEMMA InitPathInv == Init => PathInv
  BY DEF Init, PathInv, RekeyInv, RoundInv, HealInv, KeptInv, Running

\* The steps the second invariant has nothing to say after.
LEMMA OutsideStep ==
    ASSUME phase' # "run", verdict' # "stale" PROVE PathInv'
  BY DEF PathInv, RekeyInv, RoundInv, HealInv, KeptInv, Running

LEMMA RoughStep ==
    ASSUME Typed', calm' = 0, verdict' # "stale" PROVE PathInv'
  <1>1. nap' \in Nat /\ sinceRekey' \in Nat
    BY Times DEF Typed, Counts
  <1>2. \A n \in Nat : ~(0 > n) /\ 0 <= PauseMax + n
    BY Times
  <1>3. ~(calm' > sinceRekey') /\ ~(calm' > nap') /\ calm' <= PauseMax + nap'
    BY <1>1, <1>2, Zenon
  <1> QED
    BY <1>3 DEF PathInv, RekeyInv, RoundInv, HealInv, KeptInv

LEMMA HeardStep ==
    ASSUME Typed', idle' = 0, health' = "sleep", verdict' # "stale" PROVE PathInv'
  <1>1. nap' \in Nat /\ sinceRekey' \in Nat
    BY Times DEF Typed, Counts
  <1>2. idle' <= nap' /\ idle' <= sinceRekey'
    BY <1>1
  <1> QED
    BY <1>2 DEF PathInv, RekeyInv, RoundInv, HealInv, KeptInv, Heard

\* A step that leaves the clocks alone and does not hinder what is under way.
LEMMA HarmlessStep ==
    ASSUME IInv, PathInv, calm = 0 \/ ((Reviving => Reviving') /\ (Asked => Asked')), verdict' # "stale",
           Typed',
           UNCHANGED <<phase, sessionDead, calm, sinceRekey, idle, nap, strikes>>,
           UNCHANGED health \/ calm = 0
    PROVE  PathInv'
  <1>1. CASE calm = 0
    BY <1>1, RoughStep
  <1>2. CASE calm # 0
    <2>1. RekeyInv'
      BY <1>2 DEF PathInv, RekeyInv, Running
    <2>2. RoundInv'
      BY <1>2 DEF PathInv, RoundInv, Running
    <2>3. HealInv'
      BY <1>2 DEF PathInv, HealInv, Heard, Running
    <2> QED
      BY <2>1, <2>2, <2>3 DEF PathInv, KeptInv
  <1> QED
    BY <1>1, <1>2

LEMMA VerifyPath == ASSUME IInv, Verify PROVE PathInv'
  <1>0. /\ Typed /\ VerifyInv /\ StaleInv /\ phase \in {"greet", "prove"}
    BY DEF IInv, Verify, Greeted, Proven, VerifyResends, VerifyFails
  <1>1. verdict' # "stale"
    BY <1>0 DEF StaleInv, Verify, Greeted, Proven, VerifyResends, VerifyFails, HandOver, Over
  <1>2. CASE phase' = "run"
    <2>1. UNCHANGED <<idle, nap, sinceRekey, strikes>>
      BY <1>0, <1>2 DEF Verify, Greeted, Proven, VerifyResends, VerifyFails, Over, flagVars, taskVars
    <2> QED
      BY <1>0, <1>1, <2>1, Times DEF VerifyInv, PathInv, RekeyInv, RoundInv, HealInv, KeptInv
  <1> QED
    BY <1>1, <1>2, OutsideStep

LEMMA ReadPath == ASSUME IInv, PathInv, Read PROVE PathInv'
  <1>0. /\ Typed' /\ Typed /\ StaleInv /\ phase = "run" /\ health = "sleep"
        /\ UNCHANGED <<phase, verdict, net, health, ticked, nap, sinceRekey, rekeyNow, sessionDead,
                       strikes, calm>>
    BY ReadStep DEF IInv, Read, Running, Locked, Typed, Kinds
  <1>1. PICK d \in inbox :
            /\ inbox' = inbox \ {d}
            /\ LET valid == (d = "resp" /\ sess = "handshake") \/ (d = "data" /\ sess = "up")
               IN  IF valid
                   THEN /\ idle' = 0 /\ rekeyed' = FALSE /\ sess' = "up"
                        /\ reader' = IF d = "resp" /\ Full THEN "send" ELSE "recv"
                   ELSE UNCHANGED <<idle, rekeyed, sess, reader>>
    BY DEF Read
  <1>2. verdict' # "stale"
    BY <1>0 DEF StaleInv
  <1>3. CASE idle' = 0
    BY <1>0, <1>2, <1>3, HeardStep
  <1>4. CASE ~(d = "resp" /\ sess = "handshake") /\ UNCHANGED <<idle, rekeyed, sess, reader>>
    <2>1. Reviving => Reviving'
      BY <1>0, <1>1, <1>4 DEF Reviving
    <2>2. Asked => Asked'
      BY <1>0 DEF Asked, SoonTurn
    <2> QED
      BY <1>0, <1>2, <1>4, <2>1, <2>2, HarmlessStep
  <1> QED
    BY <1>1, <1>3, <1>4

\* Neither a socket error nor a packet that had to wait fits a path that is good.
LEMMA RoughPath == ASSUME IInv, PathInv, RecvError \/ Sent PROVE PathInv'
  <1>1. IInv' /\ Typed'
    BY RecvErrorStep, SentStep DEF IInv
  <1>2. calm \in Nat
    BY Clocks DEF IInv
  <1>3. calm = 0 /\ calm' = calm
    BY <1>2 DEF IInv, CalmInv, RecvError, Sent, ReaderSent, TimerSent, ProbeSent, Waiting, Full
  <1>4. verdict' # "stale"
    BY DEF IInv, StaleInv, RecvError, Sent, Running, Over
  <1> QED
    BY <1>1, <1>3, <1>4, RoughStep

LEMMA WritePath == ASSUME IInv, PathInv, Write PROVE PathInv'
  <1>0. /\ StaleInv /\ Running /\ (rekeyNow => rekeyNow')
        /\ UNCHANGED <<phase, verdict, sess, net, inbox, health, ticked, nap, idle, sinceRekey,
                       sessionDead, strikes, calm>>
    BY DEF IInv, Write, peerVars
  <1>1. Typed'
    BY WriteStep DEF IInv
  <1>2. Reviving => Reviving'
    BY <1>0 DEF Reviving
  <1>3. Asked => Asked'
    BY <1>0 DEF Asked, SoonTurn
  <1> QED
    BY <1>0, <1>1, <1>2, <1>3, HarmlessStep DEF StaleInv, Running

LEMMA ReplacesPath ==
    ASSUME QuickPath, IInv, PathInv, TurnFrame, NEW report \in TimerReports, WantsRekey(report),
           sinceRekey >= RekeyGap, Replaces
    PROVE  PathInv'
  <1>0. /\ Typed /\ Typed' /\ CalmInv /\ StaleInv /\ RoundInv /\ HealInv /\ phase = "run"
        /\ sinceRekey' = 0 /\ ticked' = TRUE
        /\ UNCHANGED <<phase, verdict, good, jam, health, nap, idle, strikes, calm>>
    BY ReplacesStep DEF IInv, PathInv, TurnFrame, Replaces
  <1>1. verdict' # "stale"
    BY <1>0 DEF StaleInv
  <1>2. CASE calm = 0
    BY <1>0, <1>1, <1>2, RoughStep
  <1>3. CASE sess' = "expired" /\ sessionDead' = TRUE
    BY <1>1, <1>3 DEF PathInv, RekeyInv, RoundInv, HealInv, KeptInv
  <1>4. CASE calm # 0 /\ sess' = "handshake" /\ TimerSends("init", {}) /\ UNCHANGED sessionDead
    <2>1. good /\ ~Full
      BY <1>0, <1>4, Clocks DEF CalmInv
    <2>2. rekeyNow
      BY <2>1 DEF WantsRekey, TimerReports
    <2>3. Reviving'
      <3>1. PICK on : on = {} /\ TimerSends("init", on)
        BY <1>4, Zenon
      <3>2. "init" \in {"init", "other"} /\ on \subseteq Packets
        BY <3>1
      <3>3. <<"resp", Latency>> \in net'
        BY <2>1, <3>1, <3>2, TimerSendsIs, Zenon
      <3> QED
        BY <1>0, <1>4, <3>3, Times DEF Reviving
    <2>4. ~Reviving
      BY <1>0, Clocks, RevivingIs, Times DEF QuickPath
    <2>5. Asked => nap <= sinceRekey' + 1
      BY <1>0 DEF Asked, SoonTurn
    <2>6. RekeyInv'
      BY <2>3 DEF RekeyInv
    <2>7. RoundInv'
      BY <1>0, <1>4, <2>3, <2>4, <2>5 DEF RoundInv, Running
    <2>8. HealInv'
      BY <1>0, <1>4, <2>3, <2>4, <2>5 DEF HealInv, Heard, Running
    <2> QED
      BY <1>1, <2>6, <2>7, <2>8 DEF PathInv, KeptInv
  <1> QED
    BY <1>2, <1>3, <1>4 DEF Replaces

LEMMA ContinuesPath ==
    ASSUME IInv, PathInv, TurnFrame, NEW report \in TimerReports, Continues(report),
           ~(WantsRekey(report) /\ sinceRekey >= RekeyGap)
    PROVE  PathInv'
  <1>0. /\ Typed /\ Typed' /\ CalmInv /\ StaleInv /\ phase = "run"
        /\ UNCHANGED <<phase, verdict, good, jam, health, nap, idle, strikes, calm, sinceRekey, inbox,
                       sessionDead>>
    BY ContinuesStep DEF IInv, TurnFrame, Continues
  <1>1. ~Asked
    BY <1>0, Times DEF Asked, WantsRekey
  <1>2. calm # 0 => (Reviving => Reviving')
    <2> SUFFICES ASSUME calm # 0, Reviving PROVE Reviving'
      OBVIOUS
    <2>1. good /\ ~Full
      BY <1>0, Clocks DEF CalmInv
    <2>2. sess' = sess
      BY <2>1 DEF Continues, TimerReports
    <2>3. net \subseteq net'
      BY <1>0, ContinuesIs
    <2> QED
      BY <1>0, <2>2, <2>3 DEF Reviving
  <1> QED
    BY <1>0, <1>1, <1>2, HarmlessStep DEF StaleInv

LEMMA TimerPath == ASSUME QuickPath, IInv, PathInv, Timer PROVE PathInv'
  <1>1. PICK report \in TimerReports : TimerTurn(report)
    BY DEF Timer
  <1> QED
    BY <1>1, TurnIs, ReplacesPath, ContinuesPath

\* A second strike on a path that was good for long enough is impossible: the
\* request of the first one, or of the round before, was answered in between.
LEMMA StalePath ==
    ASSUME QuickPath, IInv, PathInv, RoundFrame, EndsStale PROVE PathInv'
  <1>0. /\ Typed /\ HealInv /\ phase = "run" /\ ~sessionDead /\ nap >= PauseMin /\ strikes >= 1
        /\ idle >= Stale /\ phase' = "over" /\ UNCHANGED calm
    BY SecondStrike DEF IInv, PathInv, RoundFrame, EndsStale, Over
  <1>1. ~Heard
    BY <1>0, Clocks, Times DEF Heard
  <1>2. ~Asked
    BY <1>0, Clocks, Times DEF Asked, SoonTurn
  <1>3. calm < HealWithin
    <2>1. CASE calm <= PauseMax + nap
      BY <1>0, <2>1, Clocks, Times
    <2>2. CASE Reviving /\ nap + PauseMin <= sinceRekey + 1
      BY <1>0, <2>2, RevivingIs, Clocks, Times DEF QuickPath
    <2>3. CASE calm < RekeyGap + PauseMax + nap /\ Reviving /\ nap <= sinceRekey + 1
      BY <1>0, <2>3, RevivingIs, Clocks, Times DEF QuickPath
    <2> QED
      BY <1>0, <1>1, <1>2, <2>1, <2>2, <2>3 DEF HealInv, Running
  <1> QED
    BY <1>0, <1>3 DEF PathInv, RekeyInv, RoundInv, HealInv, KeptInv, Running

LEMMA ProbesPath == ASSUME IInv, PathInv, RoundFrame, Probes PROVE PathInv'
  <1>0. /\ Typed /\ Typed' /\ SessInv /\ CalmInv /\ StaleInv /\ RekeyInv /\ RoundInv
        /\ phase = "run" /\ health = "sleep" /\ ~sessionDead /\ nap >= PauseMin /\ nap' = 0
        /\ rekeyNow' = (rekeyNow \/ AsksRekey) /\ strikes' = Struck
        /\ UNCHANGED <<phase, verdict, sess, inbox, idle, sinceRekey, sessionDead, calm>>
    BY ProbesStep DEF IInv, PathInv, RoundFrame, Probes
  <1>1. verdict' # "stale"
    BY <1>0 DEF StaleInv
  <1>2. CASE calm = 0
    BY <1>0, <1>1, <1>2, RoughStep
  <1>3. CASE calm # 0
    <2>1. net \subseteq net'
      <3>1. net \subseteq Packets
        BY <1>0 DEF Typed, Kinds
      <3>2. net' = net \/ net' \in Answered(net, "data")
        BY DEF Probes
      <3> QED
        BY <3>1, <3>2, AnsweredIs, Zenon
    <2>2. Reviving => Reviving'
      BY <1>0, <2>1 DEF Reviving
    <2>3. RekeyInv'
      BY <1>0, <2>2 DEF RekeyInv, Running
    <2>4. idle >= RekeyAfterIdle => rekeyNow'
      <3>1. idle >= RekeyAfterIdle => AsksRekey
        BY DEF AsksRekey
      <3> QED
        BY <1>0, <3>1, Zenon
    <2>5. idle >= RekeyAfterIdle /\ sinceRekey = RekeyGap => Asked'
      BY <1>0, <2>4 DEF Asked, SoonTurn
    <2>6. idle >= RekeyAfterIdle /\ sinceRekey < RekeyGap /\ calm > sinceRekey => Reviving'
      BY <1>0, <2>2, Clocks, Times DEF RekeyInv, Running
    <2>7. RoundInv'
      <3>1. CASE idle < RekeyAfterIdle
        BY <1>0, <3>1, Times DEF RoundInv
      <3>2. CASE idle >= RekeyAfterIdle /\ sinceRekey = RekeyGap
        BY <2>5, <3>2 DEF RoundInv
      <3>3. CASE idle >= RekeyAfterIdle /\ sinceRekey < RekeyGap /\ calm > sinceRekey
        BY <1>0, <2>6, <3>3, Clocks DEF RoundInv
      <3>4. CASE sinceRekey < RekeyGap /\ calm <= sinceRekey
        BY <1>0, <3>4, Clocks, Times DEF RoundInv
      <3> QED
        BY <3>1, <3>2, <3>3, <3>4, Clocks, <1>0, Times
    <2>8. HealInv'
      <3> SUFFICES ASSUME strikes' >= 1, calm > PauseMax
                   PROVE  \/ Reviving' /\ 0 + PauseMin <= sinceRekey + 1
                          \/ calm < RekeyGap + PauseMax + 0 /\ (Asked' \/ Reviving')
        BY <1>0, Clocks, Times DEF HealInv
      <3>1. idle >= Stale
        BY <1>0, StruckIs
      <3>2. calm > nap /\ ~(idle <= nap) /\ ~(idle < RekeyAfterIdle + nap) /\ idle >= RekeyAfterIdle
        BY <1>0, <3>1, Clocks, Times
      <3>3. ~Asked
        BY <1>0, Clocks, Times DEF Asked, SoonTurn
      <3>4. CASE Reviving /\ nap <= sinceRekey + 1
        BY <1>0, <2>2, <3>4, Clocks, Times
      <3>5. CASE Reviving /\ calm < RekeyGap + nap
        BY <1>0, <2>2, <3>5, Clocks, Times
      <3>6. CASE calm < RekeyGap + nap /\ (sinceRekey = RekeyGap \/ sinceRekey >= nap)
        <4>1. calm < RekeyGap + PauseMax + 0
          BY <1>0, <3>6, Clocks, Times
        <4>2. calm > sinceRekey
          BY <1>0, Clocks, Times
        <4>3. sinceRekey = RekeyGap \/ sinceRekey < RekeyGap
          BY <1>0, Clocks, Times
        <4> QED
          BY <2>5, <2>6, <3>2, <4>1, <4>2, <4>3
      <3> QED
        BY <1>0, <3>2, <3>3, <3>4, <3>5, <3>6 DEF RoundInv, Running
    <2> QED
      BY <1>1, <2>3, <2>7, <2>8 DEF PathInv, KeptInv
  <1> QED
    BY <1>2, <1>3

LEMMA HealthPath == ASSUME QuickPath, IInv, PathInv, HealthRound PROVE PathInv'
  <1>1. CASE EndsDead
    BY <1>1, OutsideStep DEF EndsDead, Over
  <1> QED
    BY <1>1, RoundIs, StalePath, ProbesPath

LEMMA WorldPath == ASSUME IInv, PathInv, World PROVE PathInv'
  <1>0. /\ Typed /\ CalmInv /\ phase # "over" /\ verdict' # "stale"
        /\ UNCHANGED <<phase, sess, health, ticked, nap, idle, sinceRekey, rekeyNow, sessionDead,
                       strikes>>
    BY DEF IInv, StaleInv, World, Arrive, PeerData, PathTurns, Jam, Drain, Running, taskVars, flagVars
  <1>1. Typed'
    BY ArriveStep, PeerDataStep, PathTurnsStep, JamStep, DrainStep DEF World, IInv
  <1>2. Asked => Asked'
    BY <1>0 DEF Asked, SoonTurn
  <1>3. CASE Arrive
    <2>1. UNCHANGED calm
      BY <1>3 DEF Arrive
    <2>2. calm # 0 => (Reviving => Reviving')
      <3> SUFFICES ASSUME calm # 0, Reviving PROVE Reviving'
        OBVIOUS
      <3>1. good /\ ~Deaf
        BY <1>0, Clocks DEF CalmInv, Deaf, Waiting, Locked, Typed, Kinds
      <3>2. PICK m \in net : m[2] = 0 /\ net' = net \ {m} /\ inbox' = inbox \cup {m[1]}
        BY <1>3, <3>1 DEF Arrive
      <3>3. CASE "resp" \in inbox
        BY <1>0, <3>2, <3>3, RevivingIs DEF Reviving
      <3>4. CASE \E a \in net : a[1] = "resp" /\ sinceRekey + a[2] <= Latency
        <4>1. PICK a \in net : a[1] = "resp" /\ sinceRekey + a[2] <= Latency
          BY <3>4
        <4>2. CASE a = m
          BY <1>0, <3>2, <4>1, <4>2, RevivingIs DEF Reviving
        <4>3. CASE a # m
          BY <1>0, <3>2, <4>1, <4>3 DEF Reviving
        <4> QED
          BY <4>2, <4>3
      <3> QED
        BY <3>3, <3>4 DEF Reviving
    <2> QED
      BY <1>0, <1>1, <1>2, <2>1, <2>2, HarmlessStep
  <1>4. CASE PeerData \/ Drain
    <2>1. UNCHANGED calm /\ net' = net /\ inbox \subseteq inbox'
      BY <1>4 DEF PeerData, Drain, peerVars
    <2>2. Reviving => Reviving'
      BY <1>0, <2>1 DEF Reviving
    <2> QED
      BY <1>0, <1>1, <1>2, <2>1, <2>2, HarmlessStep
  <1>5. CASE PathTurns
    BY <1>0, <1>1, <1>5, RoughStep DEF PathTurns
  <1>6. CASE Jam
    <2>1. calm' = 0 \/ UNCHANGED calm
      BY <1>6 DEF Jam
    <2>2. Reviving => Reviving'
      BY <1>0, <1>6 DEF Reviving, Jam, peerVars
    <2> QED
      BY <1>0, <1>1, <1>2, <2>1, <2>2, RoughStep, HarmlessStep
  <1> QED
    BY <1>3, <1>4, <1>5, <1>6 DEF World

LEMMA TickPath == ASSUME QuickPath, IInv, PathInv, TickFrame PROVE PathInv'
  <1>0. /\ Typed /\ Typed' /\ VerifyInv /\ ReaderInv /\ CalmInv /\ StaleInv /\ RekeyInv /\ RoundInv
        /\ HealInv /\ phase # "over" /\ Prompt /\ ticked' = FALSE
        /\ net' = {<<m[1], m[2] - 1>> : m \in net}
        /\ UNCHANGED <<phase, verdict, sess, inbox, health, rekeyNow, sessionDead, strikes>>
    BY TickStep DEF IInv, PathInv, TickFrame
  <1>1. verdict' # "stale"
    BY <1>0 DEF StaleInv
  <1>2. calm' = IF ~good \/ Full THEN 0 ELSE IF calm < HealWithin THEN calm + 1 ELSE calm
    BY DEF TickFrame
  <1>3. CASE calm' = 0
    BY <1>0, <1>1, <1>3, RoughStep
  <1>4. CASE ~Running
    BY <1>0, <1>1, <1>4, OutsideStep DEF Running
  <1>5. CASE calm' # 0 /\ Running
    <2>1. good /\ ~Full /\ calm' <= calm + 1 /\ calm' \in Nat
      BY <1>0, <1>2, <1>5, Clocks, Times
    <2>2. health = "sleep" /\ timer = "idle" /\ reader = "recv"
      BY <1>0, <2>1, PromptIs DEF Waiting, Typed, Kinds
    <2>3. inbox = {} /\ ticked /\ (\A m \in net : m[2] > 0)
      BY <1>0, <1>5, <2>2, PromptIs DEF Locked
    <2>4. /\ nap' = nap + 1 /\ idle' \in Nat /\ idle' <= idle + 1
          /\ sinceRekey' = IF sinceRekey < RekeyGap THEN sinceRekey + 1 ELSE sinceRekey
      BY <1>0, <1>5, <2>2, Clocks, Times DEF TickFrame
    <2>5. ASSUME Reviving PROVE Reviving' /\ sinceRekey' = sinceRekey + 1
      <3>1. sinceRekey' = sinceRekey + 1
        BY <1>0, <2>4, <2>5, RevivingIs, Clocks, Times DEF QuickPath
      <3>2. PICK m \in net : m[1] = "resp" /\ sinceRekey + m[2] <= Latency
        BY <2>3, <2>5 DEF Reviving
      <3>3. m[2] \in 0 .. Latency
        BY <1>0, Zenon DEF Typed, Kinds, Packets
      <3>4. sinceRekey + 1 + (m[2] - 1) <= Latency
        BY <1>0, <3>2, <3>3, Clocks, Times
      <3>5. <<m[1], m[2] - 1>> \in net'
        BY <1>0, Zenon
      <3>6. \E a \in net' : a[1] = "resp" /\ sinceRekey' + a[2] <= Latency
        BY <3>1, <3>2, <3>4, <3>5
      <3> QED
        BY <1>0, <2>5, <3>1, <3>6 DEF Reviving
    <2>6. Asked => Asked'
      BY <1>0, <2>3, <2>4, Times DEF Asked, SoonTurn
    <2>7. RekeyInv'
      <3> SUFFICES ASSUME ~sessionDead, calm' > sinceRekey', sinceRekey' < RekeyGap
                   PROVE  Reviving' \/ idle' <= sinceRekey'
        BY <1>0 DEF RekeyInv
      <3>1. sinceRekey < RekeyGap /\ sinceRekey' = sinceRekey + 1 /\ calm > sinceRekey
        BY <1>0, <2>1, <2>4, Clocks, Times
      <3>2. Reviving \/ idle <= sinceRekey
        BY <1>5, <3>1 DEF RekeyInv, PathInv
      <3> QED
        BY <1>0, <2>4, <2>5, <3>1, <3>2, Clocks, Times
    <2>8. RoundInv'
      <3> SUFFICES ASSUME ~sessionDead, calm' > nap' PROVE RoundInv'
        BY <1>0 DEF RoundInv
      <3>1. calm > nap
        BY <1>0, <2>1, <2>4, Clocks, Times
      <3>2. CASE idle <= nap
        <4>1. idle' <= nap'
          BY <1>0, <2>4, <3>2, Clocks
        <4> QED
          BY <4>1 DEF RoundInv
      <3>3. CASE Asked
        BY <2>6, <3>3 DEF RoundInv
      <3>4. CASE Reviving /\ (nap <= sinceRekey + 1 \/ calm < RekeyGap + nap)
        <4>1. nap' <= sinceRekey' + 1 \/ calm' < RekeyGap + nap'
          BY <1>0, <2>1, <2>4, <2>5, <3>4, Clocks, Times
        <4> QED
          BY <2>5, <3>4, <4>1 DEF RoundInv
      <3>5. CASE idle < RekeyAfterIdle + nap
        <4>1. idle' < RekeyAfterIdle + nap'
          BY <1>0, <2>4, <3>5, Clocks, Times
        <4> QED
          BY <4>1 DEF RoundInv
      <3>6. CASE calm < RekeyGap + nap /\ (sinceRekey = RekeyGap \/ sinceRekey >= nap)
        <4>1. calm' < RekeyGap + nap' /\ (sinceRekey' = RekeyGap \/ sinceRekey' >= nap')
          BY <1>0, <2>1, <2>4, <3>6, Clocks, Times
        <4> QED
          BY <4>1 DEF RoundInv
      <3> QED
        BY <1>0, <1>5, <3>1, <3>2, <3>3, <3>4, <3>5, <3>6 DEF RoundInv
    <2>9. HealInv'
      <3> SUFFICES ASSUME ~sessionDead, strikes >= 1 PROVE HealInv'
        BY <1>0 DEF HealInv
      <3>1. CASE Heard
        <4>1. idle' <= nap' /\ health' = "sleep"
          BY <1>0, <2>2, <2>4, <3>1, Clocks DEF Heard
        <4> QED
          BY <4>1 DEF HealInv, Heard
      <3>2. CASE calm <= PauseMax + nap
        <4>1. calm' <= PauseMax + nap'
          BY <1>0, <2>1, <2>4, <3>2, Clocks, Times
        <4> QED
          BY <4>1 DEF HealInv
      <3>3. CASE Reviving /\ nap + PauseMin <= sinceRekey + 1
        <4>1. nap' + PauseMin <= sinceRekey' + 1
          BY <1>0, <2>4, <2>5, <3>3, Clocks, Times
        <4> QED
          BY <2>5, <3>3, <4>1 DEF HealInv
      <3>4. CASE calm < RekeyGap + PauseMax + nap /\ (Asked \/ (Reviving /\ nap <= sinceRekey + 1))
        <4>1. calm' < RekeyGap + PauseMax + nap'
          BY <1>0, <2>1, <2>4, <3>4, Clocks, Times
        <4>2. Reviving /\ nap <= sinceRekey + 1 => Reviving' /\ nap' <= sinceRekey' + 1
          BY <1>0, <2>4, <2>5, Clocks, Times
        <4> QED
          BY <2>6, <3>4, <4>1, <4>2 DEF HealInv
      <3> QED
        BY <1>0, <1>5, <3>1, <3>2, <3>3, <3>4 DEF HealInv
    <2> QED
      BY <1>1, <2>7, <2>8, <2>9 DEF PathInv, KeptInv
  <1> QED
    BY <1>3, <1>4, <1>5

\* With a round trip shorter than REKEY_MIN_GAP, a tunnel whose peer has been
\* reachable for HealWithin ticks is not written off: the requests of health_task
\* are served by timer_task and answered before the second strike.
THEOREM GoodPathIsKeptHolds == ASSUME QuickPath PROVE Spec => []GoodPathIsKept
  <1>1. IInv /\ PathInv /\ [Next]_vars => PathInv'
    <2> SUFFICES ASSUME IInv, PathInv, [Next]_vars PROVE PathInv'
      OBVIOUS
    <2>1. CASE Verify
      BY <2>1, VerifyPath
    <2>2. CASE Tasks
      <3>1. CASE TaskEnds
        BY <3>1, OutsideStep DEF TaskEnds, Over
      <3> QED
        BY <2>2, <3>1, ReadPath, RoughPath, WritePath, TimerPath, HealthPath DEF Tasks
    <2>3. CASE World
      BY <2>3, WorldPath
    <2>4. CASE Tick
      BY <2>4, TickIs, TickPath
    <2>5. CASE UNCHANGED vars
      <3>1. UNCHANGED <<phase, verdict, sess, net, inbox, health, ticked, nap, idle, sinceRekey,
                        rekeyNow, sessionDead, strikes, calm>>
        BY <2>5 DEF vars, peerVars, taskVars, flagVars
      <3> QED
        BY <3>1 DEF PathInv, RekeyInv, RoundInv, HealInv, KeptInv, Reviving, Asked, Heard, SoonTurn,
            Running
    <2> QED
      BY <2>1, <2>2, <2>3, <2>4, <2>5 DEF Next
  <1>2. PathInv => GoodPathIsKept
    BY DEF PathInv, KeptInv, GoodPathIsKept
  <1> QED
    BY <1>1, <1>2, InitPathInv, Inductive, PTL DEF Spec
=============================================================================
