------------------------------ MODULE NetStack ------------------------------
(* TCP flows of the engine's userspace network stack (netstack.rs) and the     *)
(* relay that drives each of them (relay_tunneled in socks.rs).                *)
(*                                                                             *)
(* A relay task reads from its client, waits for credit, hands chunks to the   *)
(* stack through one bounded channel and writes what comes back.  The stack is *)
(* one task: a pass polls the sockets, services every flow, drains the         *)
(* backlog, resets dead flows and then takes messages from the channel.  The   *)
(* sockets are smoltcp's and external: a send buffer, a receive buffer and the *)
(* TCP states.  Bytes of an upload are numbered, those of a download counted.  *)
EXTENDS Integers, Sequences, FiniteSets, Functions

CONSTANTS
    Flows,                \* connection ids
    Chunk,                \* RELAY_CHUNK: bytes of one read
    TX_BUF, RX_BUF,       \* tcp_tx_buf(), tcp_rx_buf()
    APP_QUEUE,            \* app_queue(): chunks waiting for a relay
    CHANNEL,              \* capacity of data_in
    MIN_TCP_PENDING,      \* the floor of max_tcp_pending()
    MIN_FLOW_QUEUE_BYTES, MAX_BACKLOG_BYTES,
    \* durations, in instants of the model
    TCP_DRAIN_STALL_WARN, TCP_DRAIN_STALL_TIMEOUT, TCP_WEDGE_TIMEOUT,
    STALL_FLAP_WINDOW, CREDIT_WAIT_MAX, ORPHAN_LINGER, CONNECT, HALF_CLOSE_LINGER,
    STALL_FLAP_LIMIT,
    MaxSent, MaxDown      \* bytes a client uploads and a peer sends, per flow

Larger(a, b) == IF a > b THEN a ELSE b
Smaller(a, b) == IF a < b THEN a ELSE b
max_tcp_pending == Larger(2 * TX_BUF, MIN_TCP_PENDING)
Ceiling == Larger(TX_BUF, MIN_FLOW_QUEUE_BYTES)

ASSUME StackAssumption ==
    /\ IsFiniteSet(Flows)
    /\ {Chunk, TX_BUF, RX_BUF, APP_QUEUE, CHANNEL, MIN_TCP_PENDING,
        MIN_FLOW_QUEUE_BYTES, MAX_BACKLOG_BYTES, STALL_FLAP_LIMIT} \subseteq Nat \ {0}
    /\ {TCP_DRAIN_STALL_WARN, TCP_DRAIN_STALL_TIMEOUT, TCP_WEDGE_TIMEOUT, STALL_FLAP_WINDOW,
        CREDIT_WAIT_MAX, ORPHAN_LINGER, CONNECT, HALF_CLOSE_LINGER} \subseteq Nat \ {0}
    /\ MaxSent \in [Flows -> Nat] /\ MaxDown \in [Flows -> Nat]
    \* 16 KB and 48 KB against 64 KB in the source
    /\ Chunk <= MIN_TCP_PENDING /\ MIN_FLOW_QUEUE_BYTES <= MIN_TCP_PENDING
    \* 8 s against 30 s
    /\ TCP_DRAIN_STALL_TIMEOUT <= TCP_WEDGE_TIMEOUT

VARIABLES
    conn,      \* per flow: TcpState, its socket and its FlowCredit
    relay,     \* per flow: the relay task
    data_in,   \* the channel from the relays to the stack
    backlog,   \* what a flow could not take yet
    phase, moved, \* the stack task: before a pass or taking messages; has it taken one?
    ticked,    \* has time passed since the last pass?
    aux        \* per flow, observed by properties only

stackVars == <<conn, relay, data_in, backlog, phase, moved, ticked, aux>>

Never == -1
States == {"SynSent", "Established", "CloseWait", "FinWait1", "FinWait2", "Closing",
           "LastAck", "TimeWait", "Closed"}
Blank ==
    [live |-> FALSE, established |-> FALSE, half_closed |-> FALSE, aborted |-> FALSE,
     connectAge |-> 0, orphanAge |-> Never, pending |-> <<>>, progressAge |-> 0,
     send_queue_high |-> 0, accepted_total |-> 0, acked_high |-> 0, drainAge |-> 0,
     drain_warned |-> FALSE, stall_count |-> 0, stallAge |-> 0,
     state |-> "Closed", queue |-> 0, rx |-> 0,                          \* socket
     sent |-> 0, acked |-> 0, cap |-> MIN_FLOW_QUEUE_BYTES, closed |-> FALSE, \* FlowCredit
     toApp |-> <<>>, listening |-> FALSE, resp |-> "none"]               \* channels
Idle == [up |-> "idle", len |-> 0, waited |-> 0, quiet |-> 0]
EmptyBacklog == [data |-> [f \in Flows |-> <<>>], close |-> {}, blocked |-> {}, bytes |-> 0]
Untouched == [forced |-> FALSE, reset |-> FALSE, silent |-> 0, down |-> 0, got |-> 0,
              ended |-> FALSE]

StackInit ==
    /\ conn = [f \in Flows |-> Blank] /\ relay = [f \in Flows |-> Idle]
    /\ data_in = <<>> /\ backlog = EmptyBacklog
    /\ phase = "poll" /\ moved = FALSE /\ ticked = FALSE
    /\ aux = [f \in Flows |-> Untouched]

-----------------------------------------------------------------------------
(* The socket, as the stack uses it.                                          *)
CanSend(c) == c.state \in {"Established", "CloseWait"} /\ c.queue < TX_BUF

Close(c) ==
    [c EXCEPT !.state = CASE @ = "Established" -> "FinWait1"
                          [] @ = "CloseWait" -> "LastAck"
                          [] @ = "SynSent" -> "Closed"
                          [] OTHER -> @]

Abort(c) == [c EXCEPT !.state = "Closed"]

\* The flow leaves the table: its socket and the sender of its channel go with it.
removed(c) ==
    [Blank EXCEPT !.closed = TRUE, !.sent = c.sent, !.toApp = c.toApp,
                  !.listening = c.listening, !.resp = c.resp]

(* service_tcp, one flow.  answered: the connect is over, one way or the other. *)
answered(c) ==
    IF ~c.established /\ c.state \in {"Established", "CloseWait"}
    THEN [c EXCEPT !.established = TRUE, !.listening = c.resp = "waiting",
                   !.resp = IF @ = "waiting" THEN "ok" ELSE @]
    ELSE c

refused(c) ==
    LET abandoned == c.resp = "given up" IN
    IF c.state \in {"Closed", "TimeWait"} \/ abandoned \/ c.connectAge >= CONNECT
    THEN removed([c EXCEPT !.resp = IF abandoned THEN @ ELSE "err"])
    ELSE c

\* pending goes into the send buffer as far as it fits.
pump(c) ==
    LET n == IF CanSend(c) THEN Smaller(Len(c.pending), TX_BUF - c.queue) ELSE 0 IN
    [c EXCEPT !.progressAge = IF c.pending = <<>> \/ n > 0 THEN 0 ELSE @,
              !.accepted_total = @ + n, !.queue = @ + n,
              !.pending = SubSeq(@, n + 1, Len(@))]

acked(c) == c.accepted_total - c.queue

Drains_Level(c) ==   \* mutant: the level of the queue instead of the bytes acknowledged
    c.queue = 0 \/ c.queue < c.send_queue_high

Drains(c) == c.queue = 0 \/ acked(c) > c.acked_high

Stalls(c) == ~Drains(c) /\ ~c.drain_warned /\ c.drainAge >= TCP_DRAIN_STALL_WARN
Stalled(c) == (IF c.stallAge >= STALL_FLAP_WINDOW THEN 0 ELSE c.stall_count) + 1

liveness(c) ==
    LET m == IF Drains(c)
             THEN [c EXCEPT !.drainAge = 0, !.acked_high = acked(c), !.drain_warned = FALSE]
             ELSE IF Stalls(c)
             THEN [c EXCEPT !.drain_warned = TRUE, !.stallAge = 0, !.stall_count = Stalled(c)]
             ELSE c
    IN [m EXCEPT !.send_queue_high = m.queue]

publish_Accepted(c, budget) ==   \* mutant: what the socket took counts as acknowledged
    [c EXCEPT !.acked = Larger(@, c.accepted_total), !.cap = Larger(budget, MIN_FLOW_QUEUE_BYTES)]

\* FlowCredit::publish; the budget is measured from the rate, clamped.
publish(c, budget) ==
    [c EXCEPT !.acked = Larger(@, acked(c)), !.cap = Larger(budget, MIN_FLOW_QUEUE_BYTES)]

reset(c) == Abort([c EXCEPT !.pending = <<>>, !.closed = TRUE])
flapReset(c, before) ==
    IF Stalls(before) /\ c.stall_count >= STALL_FLAP_LIMIT
    THEN reset([c EXCEPT !.stall_count = 0, !.drain_warned = FALSE])
    ELSE c

halfClose(c) == IF c.half_closed /\ c.pending = <<>> THEN Close(c) ELSE c

deliver(c) ==
    IF c.listening /\ Len(c.toApp) < APP_QUEUE /\ c.rx > 0
    THEN [c EXCEPT !.toApp = Append(@, c.rx), !.rx = 0]
    ELSE c

\* The relay is gone: the socket may linger, unless it still receives.
orphan(c) ==
    LET o == [c EXCEPT !.orphanAge = IF @ = Never THEN 0 ELSE @] IN
    IF c.listening THEN c
    ELSE IF o.rx > 0 \/ o.orphanAge >= ORPHAN_LINGER
    THEN [Abort(o) EXCEPT !.aborted = TRUE]
    ELSE Close(o)

finish(c) ==
    IF c.aborted THEN c
    ELSE IF c.state = "CloseWait" THEN Close(c)
    ELSE IF c.state \in {"Closed", "TimeWait"} THEN removed(c)
    ELSE c

service_tcp(c, budget) ==
    IF ~c.live THEN c
    ELSE IF c.aborted THEN removed(c)
    ELSE LET a == answered(c) IN
         IF ~a.established THEN refused(a)
         ELSE LET p == pump(a) IN
              finish(orphan(deliver(halfClose(
                  flapReset(publish(liveness(p), budget), p)))))

-----------------------------------------------------------------------------
(* Messages from the relays: the bytes lo + 1 .. hi of the stream of a flow, where none    *)
(* stands for TcpClose.                                                                   *)
Message(f, lo, hi) == [id |-> f, lo |-> lo, hi |-> hi]
TcpClose(f) == Message(f, 0, 0)
Stretch(lo, hi) == [i \in 1 .. hi - lo |-> lo + i]

\* Drop of TcpConn and TcpSender: TcpClose by try_send, lost when the channel is full.
dropConn(queue, f) == IF Len(queue) < CHANNEL THEN Append(queue, TcpClose(f)) ELSE queue

room(c) == max_tcp_pending - Len(c.pending)

try_handle_data_Whole(c, d) ==   \* mutant: the whole message is deferred, not its rest
    LET n == Smaller(d.hi - d.lo, room(c)) IN
    IF ~c.live THEN [conn |-> c, lo |-> d.hi]
    ELSE IF d.lo = d.hi THEN [conn |-> [c EXCEPT !.half_closed = TRUE], lo |-> d.hi]
    ELSE [conn |-> [c EXCEPT !.pending = @ \o Stretch(d.lo, d.lo + n)],
          lo |-> IF d.lo + n = d.hi THEN d.hi ELSE d.lo]

\* The flow after the message, and where the rest it could not take begins.
try_handle_data(c, d) ==
    LET n == Smaller(d.hi - d.lo, room(c)) IN
    IF ~c.live THEN [conn |-> c, lo |-> d.hi]
    ELSE IF d.lo = d.hi THEN [conn |-> [c EXCEPT !.half_closed = TRUE], lo |-> d.hi]
    ELSE [conn |-> [c EXCEPT !.pending = @ \o Stretch(d.lo, d.lo + n)], lo |-> d.lo + n]

\* The queue is ordered per flow: what waits of each stream, and the flows whose TcpClose
\* waits behind it (nothing follows a TcpClose).
push(b, d) ==
    [data |-> [b.data EXCEPT ![d.id] = @ \o Stretch(d.lo, d.hi)],
     close |-> IF d.lo = d.hi THEN b.close \cup {d.id} ELSE b.close,
     blocked |-> b.blocked \cup {d.id}, bytes |-> b.bytes + (d.hi - d.lo)]

Bytes(data) == Cardinality(UNION {{f} \X DOMAIN data[f] : f \in Flows})

ingest(s, d) ==
    LET h == try_handle_data(s.conns[d.id], d) IN
    IF d.id \in s.backlog.blocked
    THEN [s EXCEPT !.backlog = push(@, d)]
    ELSE [conns |-> [s.conns EXCEPT ![d.id] = h.conn],
          backlog |-> IF h.lo = d.hi THEN s.backlog
                      ELSE push(s.backlog, Message(d.id, h.lo, d.hi))]

\* Every flow takes what it has room for, and its TcpClose when it has taken everything;
\* a flow that refuses its first entry keeps the rest.
drain_backlog(s) ==
    LET b == s.backlog
        taken == [f \in Flows |-> IF s.conns[f].live
                                  THEN Smaller(Len(b.data[f]), room(s.conns[f]))
                                  ELSE Len(b.data[f])]
        data == [f \in Flows |-> SubSeq(b.data[f], taken[f] + 1, Len(b.data[f]))]
        blocked == {f \in Flows : data[f] # <<>>}
    IN [conns |-> [f \in Flows |->
                    IF s.conns[f].live
                    THEN [s.conns[f] EXCEPT !.pending = @ \o SubSeq(b.data[f], 1, taken[f]),
                                            !.half_closed = @ \/ f \in b.close \ blocked]
                    ELSE s.conns[f]],
        backlog |-> [data |-> data, close |-> b.close \cap blocked, blocked |-> blocked,
                     bytes |-> Bytes(data)]]

NotDraining(c) ==
    c.live /\ c.send_queue_high > 0 /\ c.drainAge >= TCP_DRAIN_STALL_TIMEOUT
Wedged(s, f) ==
    f \in s.backlog.blocked
        /\ (s.conns[f].live => s.conns[f].progressAge >= TCP_WEDGE_TIMEOUT)
purge(b, fs) ==
    LET data == [f \in Flows |-> IF f \in fs THEN <<>> ELSE b.data[f]] IN
    [data |-> data, close |-> b.close \ fs, blocked |-> b.blocked \ fs, bytes |-> Bytes(data)]

ResetFlows(s, fs) ==
    [conns |-> [f \in Flows |-> IF f \in fs /\ s.conns[f].live THEN reset(s.conns[f])
                                                                ELSE s.conns[f]],
     backlog |-> purge(s.backlog, fs)]
reap_wedged(s) ==
    LET drained == ResetFlows(s, {f \in Flows : NotDraining(s.conns[f])}) IN
    ResetFlows(drained, {f \in Flows : Wedged(drained, f)})

-----------------------------------------------------------------------------
(* The stack task.                                                            *)

\* Did the stack reset the flow, rather than see it close?
ResetBy(before, after) ==
    before.live /\ before.state \notin {"Closed", "TimeWait"} /\ after.state = "Closed"

\* Connects answered to a caller that has gone: the TcpConn is dropped at once.
Unclaimed ==
    {f \in Flows : /\ conn[f].live /\ ~conn[f].established /\ conn[f].resp = "given up"
                   /\ conn[f].state \in {"Established", "CloseWait"}}

\* A pass of run up to the queues: service_tcp, drain_backlog, reap_wedged.
Pass ==
    /\ phase = "poll"
    /\ \E budget \in [Flows -> MIN_FLOW_QUEUE_BYTES .. Ceiling] :
        LET served == [f \in Flows |-> service_tcp(conn[f], budget[f])]
            s == reap_wedged(drain_backlog([conns |-> served, backlog |-> backlog]))
        IN conn' = s.conns /\ backlog' = s.backlog
    /\ aux' = [f \in Flows |->
                [aux[f] EXCEPT !.reset = @ \/ ResetBy(conn[f], conn'[f])]]
    /\ \E order \in [1 .. Cardinality(Unclaimed) -> Unclaimed] :
        /\ \A i, j \in DOMAIN order : order[i] = order[j] => i = j
        /\ data_in' = data_in \o [i \in 1 .. Smaller(Len(order), CHANNEL - Len(data_in))
                                     |-> TcpClose(order[i])]
    /\ phase' = "queues" /\ moved' = FALSE /\ ticked' = FALSE
    /\ UNCHANGED relay

\* drain_app_data and the data_in arm of the select: one message.
Ingest ==
    /\ phase = "queues" /\ data_in # <<>> /\ backlog.bytes < MAX_BACKLOG_BYTES
    /\ LET s == ingest([conns |-> conn, backlog |-> backlog], Head(data_in))
       IN conn' = s.conns /\ backlog' = s.backlog
    /\ data_in' = Tail(data_in) /\ moved' = TRUE
    /\ UNCHANGED <<relay, phase, ticked, aux>>

\* The queues are empty, full or have had their share.
EndOfPass ==
    /\ phase = "queues"
    /\ moved \/ data_in = <<>> \/ backlog.bytes >= MAX_BACKLOG_BYTES
    /\ phase' = "poll"
    /\ UNCHANGED <<conn, relay, data_in, backlog, moved, ticked, aux>>

\* handle_cmd, OpenTcp: connect may fail at once.
OpenTcp(f) ==
    /\ phase = "queues" /\ relay[f].up = "idle"
    /\ \/ /\ conn' = [conn EXCEPT ![f] = [Blank EXCEPT !.live = TRUE, !.state = "SynSent",
                                                       !.resp = "waiting"]]
          /\ relay' = [relay EXCEPT ![f].up = "connecting"]
       \/ relay' = [relay EXCEPT ![f].up = "off"] /\ UNCHANGED conn
    /\ UNCHANGED <<data_in, backlog, phase, moved, ticked, aux>>

-----------------------------------------------------------------------------
(* The peer, as iface.poll finds it.                                          *)
Socket(f, c) ==
    /\ phase = "poll" /\ conn[f].live
    /\ conn' = [conn EXCEPT ![f] = c]
    /\ UNCHANGED <<relay, data_in, backlog, phase, moved, ticked>>

PeerAccepts(f) ==
    /\ conn[f].state = "SynSent"
    /\ Socket(f, [conn[f] EXCEPT !.state = "Established"]) /\ UNCHANGED aux

PeerAcks(f) ==
    /\ \E n \in 1 .. conn[f].queue : Socket(f, [conn[f] EXCEPT !.queue = @ - n])
    /\ conn[f].state \notin {"SynSent", "Closed"}
    /\ aux' = [aux EXCEPT ![f].silent = 0]

\* The FIN is acknowledged, after everything before it.
PeerAcksFin(f) ==
    /\ conn[f].queue = 0 /\ conn[f].state \in {"FinWait1", "Closing", "LastAck"}
    /\ Socket(f, [conn[f] EXCEPT !.state = CASE @ = "FinWait1" -> "FinWait2"
                                             [] @ = "Closing" -> "TimeWait"
                                             [] @ = "LastAck" -> "Closed"])
    /\ UNCHANGED aux

PeerSends(f) ==
    /\ conn[f].state \in {"Established", "FinWait1", "FinWait2"}
    /\ conn[f].rx < RX_BUF /\ aux[f].down < MaxDown[f]
    /\ Socket(f, [conn[f] EXCEPT !.rx = @ + 1])
    /\ aux' = [aux EXCEPT ![f].down = @ + 1]

PeerCloses(f) ==
    /\ conn[f].state \in {"Established", "FinWait1", "FinWait2"}
    /\ Socket(f, [conn[f] EXCEPT !.state = CASE @ = "Established" -> "CloseWait"
                                             [] @ = "FinWait1" -> "Closing"
                                             [] @ = "FinWait2" -> "TimeWait"])
    /\ UNCHANGED aux

\* A reset from the peer, or smoltcp's own timeout.
PeerResets(f) ==
    /\ conn[f].state \notin {"Closed", "TimeWait"}
    /\ Socket(f, Abort(conn[f]))
    /\ aux' = [aux EXCEPT ![f].reset = TRUE]

Peer(f) ==
    \/ PeerAccepts(f) \/ PeerAcks(f) \/ PeerAcksFin(f)
    \/ PeerSends(f) \/ PeerCloses(f) \/ PeerResets(f)

-----------------------------------------------------------------------------
(* The relay: relay_tunneled under relay_halves.                              *)
Outstanding(c) == c.sent - c.acked
Step(f, r) == relay' = [relay EXCEPT ![f] = r] /\ UNCHANGED <<backlog, phase, moved, ticked>>

Connects(f) ==
    /\ relay[f].up = "connecting" /\ conn[f].resp \in {"ok", "err"}
    /\ Step(f, [relay[f] EXCEPT !.up = IF conn[f].resp = "ok" THEN "reading" ELSE "off"])
    /\ UNCHANGED <<conn, data_in, aux>>

\* The caller's own timeout or end drops the answer's receiver, and the TcpConn in it.
GivesUp(f) ==
    /\ relay[f].up = "connecting" /\ conn[f].resp \in {"waiting", "ok"}
    /\ conn' = [conn EXCEPT ![f].resp = "given up", ![f].listening = FALSE, ![f].toApp = <<>>]
    /\ data_in' = IF conn[f].resp = "ok" THEN dropConn(data_in, f) ELSE data_in
    /\ Step(f, [relay[f] EXCEPT !.up = "off"])
    /\ UNCHANGED aux

Reads(f) ==
    /\ relay[f].up = "reading" /\ conn[f].sent + Chunk <= MaxSent[f]
    /\ Step(f, [relay[f] EXCEPT !.up = "reserving", !.len = Chunk, !.waited = 0])
    /\ UNCHANGED <<conn, data_in, aux>>

ReadsEnd(f) ==
    /\ relay[f].up = "reading"
    /\ Step(f, [relay[f] EXCEPT !.up = "closing"])
    /\ UNCHANGED <<conn, data_in, aux>>

\* FlowCredit::reserve; an empty pipe always takes one write.
Admits(c, len) == Outstanding(c) = 0 \/ Outstanding(c) + len <= c.cap

reserve_NoDeadline(f) ==   \* mutant: waits for the budget, however long
    LET c == conn[f]
        r == relay[f]
        free == c.closed \/ Admits(c, r.len)
    IN /\ r.up = "reserving" /\ free
       /\ conn' = [conn EXCEPT ![f].sent = @ + r.len]
       /\ Step(f, [r EXCEPT !.up = "sending"])
       /\ UNCHANGED <<data_in, aux>>

reserve(f) ==
    LET c == conn[f]
        r == relay[f]
        free == c.closed \/ Admits(c, r.len)
    IN /\ r.up = "reserving" /\ (free \/ r.waited >= CREDIT_WAIT_MAX)
       /\ conn' = [conn EXCEPT ![f].sent = @ + r.len]
       /\ aux' = [aux EXCEPT ![f].forced = @ \/ ~free]
       /\ Step(f, [r EXCEPT !.up = "sending"])
       /\ UNCHANGED data_in

send(f) ==
    /\ relay[f].up = "sending" /\ Len(data_in) < CHANNEL
    /\ data_in' = Append(data_in, Message(f, conn[f].sent - relay[f].len, conn[f].sent))
    /\ Step(f, [relay[f] EXCEPT !.up = "reading", !.quiet = 0])
    /\ UNCHANGED <<conn, aux>>

close(f) ==
    /\ relay[f].up = "closing" /\ Len(data_in) < CHANNEL
    /\ data_in' = Append(data_in, TcpClose(f))
    /\ Step(f, [relay[f] EXCEPT !.up = "ended", !.quiet = 0])
    /\ UNCHANGED <<conn, aux>>

Running == {"reading", "reserving", "sending", "closing", "ended"}

\* One chunk from the stack to the client.
Writes(f) ==
    /\ relay[f].up \in Running /\ conn[f].toApp # <<>>
    /\ conn' = [conn EXCEPT ![f].toApp = Tail(@)]
    /\ aux' = [aux EXCEPT ![f].got = @ + Head(conn[f].toApp)]
    /\ Step(f, [relay[f] EXCEPT !.quiet = 0])
    /\ UNCHANGED data_in

\* The relay returns: the receiver and the sender are dropped.
Returns(f) ==
    /\ relay[f].up \in Running
    /\ conn' = [conn EXCEPT ![f].listening = FALSE, ![f].toApp = <<>>]
    /\ data_in' = dropConn(data_in, f)
    /\ Step(f, [Idle EXCEPT !.up = "off"])

DownloadEnds(f) ==
    /\ ~conn[f].live /\ conn[f].toApp = <<>>
    /\ Returns(f)
    /\ aux' = [aux EXCEPT ![f].ended = TRUE]

ClientGone(f) == conn[f].toApp # <<>> /\ Returns(f) /\ UNCHANGED aux

LingerEnds(f) ==
    /\ relay[f].up = "ended" /\ relay[f].quiet >= HALF_CLOSE_LINGER
    /\ Returns(f) /\ UNCHANGED aux

RelaySteps(f) ==
    \/ Connects(f) \/ reserve(f) \/ send(f) \/ close(f) \/ DownloadEnds(f) \/ LingerEnds(f)
Relay(f) ==
    \/ RelaySteps(f) \/ GivesUp(f) \/ Reads(f) \/ ReadsEnd(f) \/ Writes(f) \/ ClientGone(f)

-----------------------------------------------------------------------------
(* Time.  A pass comes at least every MAX_IDLE_TICK, far below an instant.     *)
Aged(age, limit) == IF age = Never THEN Never ELSE Smaller(age + 1, limit)
Older(c) ==
    IF ~c.live THEN c
    ELSE [c EXCEPT !.connectAge = IF c.established THEN @ ELSE Aged(@, CONNECT),
                   !.orphanAge = Aged(@, ORPHAN_LINGER),
                   !.progressAge = Aged(@, TCP_WEDGE_TIMEOUT),
                   !.drainAge = Aged(@, TCP_DRAIN_STALL_TIMEOUT),
                   !.stallAge = Aged(@, STALL_FLAP_WINDOW)]
Tick ==
    /\ ~ticked /\ ticked' = TRUE
    /\ conn' = [f \in Flows |-> Older(conn[f])]
    /\ relay' = [f \in Flows |->
                  LET r == relay[f] IN
                  [r EXCEPT !.waited = IF r.up = "reserving" THEN Aged(@, CREDIT_WAIT_MAX) ELSE 0,
                            !.quiet = IF r.up = "ended" THEN Aged(@, HALF_CLOSE_LINGER) ELSE 0]]
    /\ aux' = [f \in Flows |->
                [aux[f] EXCEPT !.silent = IF conn[f].live /\ conn[f].queue > 0
                                          THEN Aged(@, TCP_DRAIN_STALL_TIMEOUT) ELSE 0]]
    /\ UNCHANGED <<data_in, backlog, phase, moved>>

StackNext ==
    \/ Pass \/ Ingest \/ EndOfPass \/ Tick
    \/ \E f \in Flows : OpenTcp(f) \/ Peer(f) \/ Relay(f)

StackSpec == StackInit /\ [][StackNext]_stackVars

\* The stack makes one pass after the other, each of bounded length: Pass is enabled
\* whenever phase is "poll" and changes it, so the first conjunct is WF_stackVars(Pass).  Relay
\* tasks run, time passes, senders that wait for the channel are served in turn.
StackFairSpec ==
    /\ StackSpec /\ []<>(phase = "queues") /\ []<>(phase = "poll") /\ WF_stackVars(Tick)
    /\ \A f \in Flows : WF_stackVars(RelaySteps(f)) /\ SF_stackVars(send(f) \/ close(f))

-----------------------------------------------------------------------------
(* Properties.                                                                *)

Upto(S, n) == {s \in Seq(S) : Len(s) <= n}
ConnType ==
    [live : BOOLEAN, established : BOOLEAN, half_closed : BOOLEAN, aborted : BOOLEAN,
     connectAge : 0 .. CONNECT, orphanAge : Never .. ORPHAN_LINGER,
     pending : Upto(Nat, max_tcp_pending),
     progressAge : 0 .. TCP_WEDGE_TIMEOUT, send_queue_high : 0 .. TX_BUF,
     accepted_total : Nat, acked_high : Nat,
     drainAge : 0 .. TCP_DRAIN_STALL_TIMEOUT, drain_warned : BOOLEAN,
     stall_count : Nat, stallAge : 0 .. STALL_FLAP_WINDOW,
     state : States, queue : 0 .. TX_BUF, rx : 0 .. RX_BUF,
     sent : Nat, acked : Nat, cap : MIN_FLOW_QUEUE_BYTES .. Ceiling, closed : BOOLEAN,
     toApp : Upto(1 .. RX_BUF, APP_QUEUE), listening : BOOLEAN,
     resp : {"none", "waiting", "given up", "ok", "err"}]
RelayType ==
    [up : {"idle", "connecting", "off"} \cup Running, len : 0 .. Chunk,
     waited : 0 .. CREDIT_WAIT_MAX, quiet : 0 .. HALF_CLOSE_LINGER]
BacklogType ==
    [data : [Flows -> Seq(Nat)], close : SUBSET Flows, blocked : SUBSET Flows, bytes : Nat]
AuxType ==
    [forced : BOOLEAN, reset : BOOLEAN, silent : 0 .. TCP_DRAIN_STALL_TIMEOUT, down : Nat,
     got : Nat, ended : BOOLEAN]

\* Every field has its type; in particular pending, the send queue, the chunks and the
\* channels keep within their capacities and the credit within its clamp (TcpState,
\* FlowCredit, DataIn).
StackTypeOK ==
    /\ conn \in [Flows -> ConnType] /\ relay \in [Flows -> RelayType]
    /\ data_in \in Seq([id : Flows, lo : Nat, hi : Nat]) /\ Len(data_in) <= CHANNEL
    /\ \A i \in DOMAIN data_in : data_in[i].hi - data_in[i].lo \in 0 .. Chunk
    /\ backlog \in BacklogType /\ aux \in [Flows -> AuxType]
    /\ phase \in {"poll", "queues"} /\ moved \in BOOLEAN /\ ticked \in BOOLEAN

\* An upload on its way: the chunk in the relay's hand, the chunks in the channel, the
\* bytes in the backlog and in pending.
InRelay(f) == IF relay[f].up = "sending" THEN relay[f].len ELSE 0
Given(f) == conn[f].sent - InRelay(f)
Chunks(f) == {i \in DOMAIN data_in : data_in[i].id = f /\ data_in[i].lo < data_in[i].hi}
Reached(f) == conn[f].accepted_total + Len(conn[f].pending) + Len(backlog.data[f])
Held(f) ==
    Range(conn[f].pending) \cup Range(backlog.data[f])
        \cup (UNION {data_in[i].lo + 1 .. data_in[i].hi : i \in Chunks(f)})
        \cup (Given(f) + 1 .. conn[f].sent)

\* While a flow and its relay live, what it has not yet accepted is exactly the rest of the
\* stream, in order: pending and the backlog go on where the socket is, each chunk in the
\* channel begins where the one before it ends, the last one ends where the relay is; no
\* byte is lost, doubled or overtaken (ingest, drain_backlog, purge).
Intact(f) ==
    /\ conn[f].pending \o backlog.data[f] = Stretch(conn[f].accepted_total, Reached(f))
    /\ \A i \in Chunks(f) :
        /\ data_in[i].lo = Reached(f) \/ \E j \in Chunks(f) : j < i /\ data_in[j].hi = data_in[i].lo
        /\ \A j \in Chunks(f) : i < j => data_in[i].hi <= data_in[j].lo
        /\ data_in[i].hi <= Given(f)
    /\ Given(f) = Reached(f) \/ \E i \in Chunks(f) : data_in[i].hi = Given(f)
StreamIntact ==
    \A f \in Flows : conn[f].live /\ conn[f].listening /\ ~conn[f].closed => Intact(f)

\* The credit never counts a byte as acknowledged that is still held here: the writer's
\* view of what is outstanding covers the send buffer and every queue (publish).
CreditIsHonest ==
    \A f \in Flows : conn[f].live /\ ~conn[f].closed =>
        Outstanding(conn[f]) >= conn[f].queue + Cardinality(Held(f))

\* The backlog's accounts are those of its queue, and it exceeds its bound by less than
\* a chunk (push, purge, drain_backlog, drain_app_data).
BacklogAccounts ==
    /\ backlog.bytes = Bytes(backlog.data)
    /\ backlog.blocked = {f \in Flows : backlog.data[f] # <<>> \/ f \in backlog.close}
    /\ backlog.bytes < MAX_BACKLOG_BYTES + Chunk

\* Admission alone keeps a working flow out of the backlog: only a writer that has waited
\* out CREDIT_WAIT_MAX can put it there (reserve, try_handle_data).
AdmissionSparesBacklog ==
    \A f \in backlog.blocked : aux[f].forced \/ conn[f].closed

\* A flow whose relay still listens sends its FIN after the whole upload: TcpClose waits
\* behind the backlog and behind pending (ingest, halfClose).
FinAfterData ==
    \A f \in Flows :
        conn[f].live /\ conn[f].listening /\ ~conn[f].closed
        /\ conn[f].state \in {"FinWait1", "FinWait2", "Closing"} => Held(f) = {}

\* An upload reaches the peer whole and ends after its last byte.
UploadInOrder == StreamIntact /\ FinAfterData

\* The two accounts that admit data are true: the credit a writer waits for and the bytes
\* that stop the stack from reading the shared channel.
AccountsAreTrue == CreditIsHonest /\ BacklogAccounts /\ AdmissionSparesBacklog

\* A flow in use is reset by the reaper only when its peer has acknowledged nothing for
\* the whole timeout, up to the instant between two passes (liveness, reap_wedged).
OnlySilentPeersAreReaped ==
    [][\A f \in Flows :
        conn[f].state = "Established" /\ conn[f].listening /\ ~conn[f].closed
        /\ conn'[f].live /\ conn'[f].closed
            => aux[f].silent >= TCP_DRAIN_STALL_TIMEOUT - 1]_stackVars

\* A connect is answered (refused, the deadline of service_tcp).
ConnectAnswered == \A f \in Flows : relay[f].up = "connecting" ~> relay[f].up # "connecting"

\* A flow whose relay has gone leaves the table, lost TcpClose and silent peer or not
\* (orphan).
OrphansReaped ==
    \A f \in Flows : conn[f].live /\ relay[f].up = "off" ~> ~conn[f].live

\* A write returns, however silent the peer and however full the backlog (reserve,
\* drain_app_data, reap_wedged).
WritesReturn ==
    \A f \in Flows : relay[f].up \in {"reserving", "sending", "closing"}
                        ~> relay[f].up \notin {"reserving", "sending", "closing"}

\* Nobody waits for ever: connects are answered, writes return, abandoned flows go.
NobodyWaitsForEver == ConnectAnswered /\ OrphansReaped /\ WritesReturn

\* An answer arrives whole: when the relay has seen the end of a download that nobody
\* reset, the client has every byte the stack acknowledged (finish).
AnswerArrivesWhole ==
    \A f \in Flows : aux[f].ended /\ ~aux[f].reset => aux[f].got = aux[f].down
=============================================================================
