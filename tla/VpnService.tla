----------------------------- MODULE VpnService -----------------------------
(* The session life cycle of AetherVpnService: the main-thread callbacks     *)
(* (onStartCommand, onRevoke, onDestroy), the coroutines they launch (one    *)
(* per connect, one per teardown) and the native resources both of them      *)
(* create and destroy.                                                       *)
(*                                                                           *)
(* Coroutines run on the IO pool and interleave freely.  Cancellation is     *)
(* cooperative: cancel() only marks a job, and the mark is noticed at the    *)
(* suspension points of the code, nowhere else.  A step of the model is the  *)
(* code between two suspension points, cut further where another thread can  *)
(* come between two accesses to a shared field: cleanupNativeOnly blocks for *)
(* up to GRACEFUL_EXIT_MS inside engine.stop() and only then clears the      *)
(* fields (Kill, Drop), and AetherProcess.start() returns long before the    *)
(* caller assigns `engine` (StartEngine, AssignEngine).                      *)
EXTENDS Naturals, FiniteSets

CONSTANTS
    MaxJobs,        \* coroutines launched in the life of one service instance
    MaxRuns,        \* connect requests among them
    MaxStops,       \* disconnects and revokes among them
    Procs,          \* identities of engine processes, positive numbers
    Profiles,       \* the connection profiles connects are made with
    Rungs,          \* length of the ladder of strategies
    MaxRetries,     \* maxRetries(profile)
    WATCHDOG_FAIL_CYCLES,
    Hurried,        \* do commands come before the previous one has settled?
    Revokes,        \* does Android revoke the VPN permission in this instance?
    TunFails        \* may Builder.establish() yield nothing?

ASSUME VpnAssumption ==
    /\ MaxJobs \in Nat /\ MaxRuns \in Nat /\ MaxStops \in Nat
    /\ Procs \subseteq Nat \ {0} /\ IsFiniteSet(Procs)
    /\ Rungs \in Nat \ {0} /\ MaxRetries \in Nat \ {0}
    /\ WATCHDOG_FAIL_CYCLES \in Nat \ {0}
    /\ Hurried \in BOOLEAN /\ Revokes \in BOOLEAN /\ TunFails \in BOOLEAN
    /\ Profiles \subseteq [mode : {"plain", "tor", "external"},
                           proxy : BOOLEAN, kill : BOOLEAN, strict : BOOLEAN]

NoJob == 0
NoProc == 0
MainThread == 0            \* onDestroy tears down on the main thread itself
Jobs == 1 .. MaxJobs
Threads == 0 .. MaxJobs
NoProfile == [mode |-> "none", proxy |-> FALSE, kill |-> FALSE, strict |-> FALSE]

VARIABLES
    \* what a job was launched with: its kind, profile and the jobs it joins
    job, launched,
    \* where each job is, where a cleanup returns to, is it cancelled
    pc, resume, cancelled,
    \* locals of a session: rung of runLadder, `attempt` of superviseEngine,
    \* the process it started last
    rung, attempt, proc,
    \* fields of the service and AetherController's state
    runJob, stopJob, lastProfile, lockdownTunActive, probeFailures, ui, destroy,
    \* native resources behind the fields, and the processes of the device
    engine, tun, forwarding, stage2, alive, listening,
    \* auxiliary: engines started after the cancel, has `proc` passed the
    \* self-test, restarts since it last did, was the session ever Connected,
    \* did every command so far find the previous one settled
    late, proven, restarts, wasUp, calm

launchVars == <<job, launched, runJob, stopJob, lastProfile, calm>>
localVars  == <<rung, attempt, proc, late, proven, restarts, wasUp>>
nativeVars == <<engine, tun, forwarding, stage2>>
procVars   == <<alive, listening>>
fieldVars  == <<lockdownTunActive, probeFailures, destroy>>
vars == <<launchVars, pc, resume, cancelled, localVars, fieldVars, ui,
          nativeVars, procVars>>

-----------------------------------------------------------------------------
(* Jobs                                                                      *)

Done(j) == j = NoJob \/ pc[j] = "done"
IsRun(j) == job[j].kind = "run"
ModeOf(j) == job[j].prof.mode

Goto(j, label) == pc' = [pc EXCEPT ![j] = label]
Cleanup(j, label) == /\ pc' = [pc EXCEPT ![j] = "kill"]
                     /\ resume' = [resume EXCEPT ![j] = label]

\* The session is past the joins of startTunnel and past the first setState of
\* connectFlow.
InFlow(j) == /\ IsRun(j)
             /\ pc[j] \notin {"none", "new", "joinRun", "joinStop", "flow", "done"}
             /\ ~(pc[j] \in {"kill", "drop"} /\ resume[j] = "joinRun")

\* currentScopeActive() asks about the service's runJob, whoever that is.
currentScopeActive == runJob # NoJob /\ ~cancelled[runJob] /\ ~Done(runJob)
EngineAlive == engine \in alive

\* What the self-tests (Diagnostics.run, runProxyStage) cannot pass without:
\* somebody answers on the SOCKS5 port, whichever process it is.
CarriesTraffic == listening # NoProc

\* The current session has got past its joins, and the last teardown is over.
Settled == runJob # NoJob => InFlow(runJob) \/ Done(runJob)
TornDown == Done(stopJob)

\* scope.launch: a new job, dispatched later.
Launch(kind, prof, run, stop) ==
    /\ launched < MaxJobs
    /\ launched' = launched + 1
    /\ job' = [job EXCEPT ![launched + 1] =
                 [kind |-> kind, prof |-> prof, run |-> run, stop |-> stop]]

-----------------------------------------------------------------------------
(* Main thread                                                               *)

Listening == destroy = "no"       \* later intents go to a new instance
Count(kinds) == Cardinality({j \in Jobs : job[j].kind \in kinds})

\* Mutant: previousStop is not captured.
startTunnel_ForgetsStop(p) ==
    /\ Listening /\ Count({"run"}) < MaxRuns
    /\ Hurried \/ Settled
    /\ Launch("run", p, runJob, NoJob)
    /\ Goto(launched + 1, "new")
    /\ runJob' = launched + 1
    /\ lastProfile' = p
    /\ calm' = (calm /\ Settled)
    /\ UNCHANGED <<stopJob, resume, cancelled, localVars, fieldVars, ui,
                   nativeVars, procVars>>

\* onStartCommand with a profile: startTunnel.
startTunnel(p) ==
    /\ Listening /\ Count({"run"}) < MaxRuns
    /\ Hurried \/ Settled
    /\ Launch("run", p, runJob, stopJob)
    /\ Goto(launched + 1, "new")
    /\ runJob' = launched + 1
    /\ lastProfile' = p
    /\ calm' = (calm /\ Settled)
    /\ UNCHANGED <<stopJob, resume, cancelled, localVars, fieldVars, ui,
                   nativeVars, procVars>>

\* Both teardowns take the session out of runJob, cancel it and hand the rest
\* to a job of their own, which joins it last.
LaunchTeardown(kind, p) ==
    /\ Launch(kind, p, runJob, NoJob)
    /\ stopJob' = launched + 1
    /\ runJob' = NoJob
    /\ cancelled' = [j \in Threads |-> cancelled[j] \/ (j # NoJob /\ j = runJob)]
    /\ calm' = (calm /\ Settled /\ TornDown)
    /\ UNCHANGED lastProfile

stopEverything ==
    /\ LaunchTeardown("stop", lastProfile)
    /\ Goto(launched + 1, "new")
    /\ ui' = "Disconnecting"

\* onStartCommand, ACTION_DISCONNECT.
Disconnect ==
    /\ Listening /\ Count({"stop", "lockdown"}) < MaxStops
    /\ Hurried \/ (Settled /\ TornDown)
    /\ IF ~lockdownTunActive /\ lastProfile.strict
         THEN /\ LaunchTeardown("lockdown", lastProfile)
              /\ Goto(launched + 1, "new")
              /\ UNCHANGED ui
         ELSE stopEverything
    /\ UNCHANGED <<resume, localVars, fieldVars, nativeVars, procVars>>

\* stopEverything, and then VpnService.onRevoke, which calls stopSelf.
onRevoke ==
    /\ Revokes /\ Listening /\ Count({"stop", "lockdown"}) < MaxStops
    /\ Hurried \/ (Settled /\ TornDown)
    /\ stopEverything
    /\ destroy' = "asked"
    /\ UNCHANGED <<resume, localVars, lockdownTunActive, probeFailures,
                   nativeVars, procVars>>

\* The framework answers stopSelf.  cleanupNativeOnly runs on the main thread.
onDestroy ==
    /\ destroy = "asked"
    /\ destroy' = "running"
    /\ cancelled' = [j \in Threads |-> cancelled[j] \/ (j # NoJob /\ j = runJob)]
    /\ Cleanup(MainThread, "scope")
    /\ UNCHANGED <<launchVars, localVars, lockdownTunActive, probeFailures, ui,
                   nativeVars, procVars>>

\* The last statement of onDestroy cancels the scope and with it every job,
\* those launched later included.
CancelScope ==
    /\ pc[MainThread] = "scope"
    /\ Goto(MainThread, "done")
    /\ cancelled' = [j \in Threads |-> TRUE]
    /\ destroy' = "done"
    /\ UNCHANGED <<launchVars, resume, localVars, lockdownTunActive,
                   probeFailures, ui, nativeVars, procVars>>

-----------------------------------------------------------------------------
(* Native resources                                                          *)

\* AetherProcess.stop on the process held by the field.
StopEngine == /\ alive' = alive \ {engine}
              /\ listening' = IF listening = engine THEN NoProc ELSE listening

\* cleanupNativeOnly and cleanupForwardingOnly: sharing, forwarder and second
\* stage first, then engine.stop(), which blocks while the engine exits.
Kill(j) ==
    /\ pc[j] = "kill"
    /\ forwarding' = FALSE
    /\ stage2' = FALSE
    /\ StopEngine
    /\ Goto(j, "drop")
    /\ UNCHANGED <<launchVars, resume, cancelled, localVars, fieldVars, ui,
                   engine, tun>>

\* The rest of cleanupNativeOnly: engine = null, tun closed and null.  For a
\* lockdown it is the end of cleanupForwardingOnly together with the first two
\* statements of ensureLockdownTun, which close the TUN as well.
Drop(j) ==
    /\ pc[j] = "drop"
    /\ engine' = NoProc
    /\ tun' = "none"
    /\ Goto(j, resume[j])
    /\ UNCHANGED <<launchVars, resume, cancelled, localVars, fieldVars, ui,
                   forwarding, stage2, procVars>>

Free == Procs \ (alive \cup {engine} \cup {proc[j] : j \in {k \in Jobs : ~Done(k)}})

\* AetherProcess.start spawns the process; the field is not assigned yet.
StartEngine(j) ==
    /\ pc[j] \in {"spawn", "respawn"}
    /\ Free # {}
    /\ LET p == CHOOSE p \in Free : \A q \in Free : p <= q
       IN /\ proc' = [proc EXCEPT ![j] = p]
          /\ alive' = alive \cup {p}
    /\ Goto(j, IF pc[j] = "spawn" THEN "assign" ELSE "reassign")
    /\ proven' = [proven EXCEPT ![j] = FALSE]
    /\ late' = [late EXCEPT ![j] = IF cancelled[j] THEN @ + 1 ELSE @]
    /\ restarts' = [restarts EXCEPT ![j] =
                      IF pc[j] = "respawn" /\ @ <= MaxRetries THEN @ + 1 ELSE @]
    /\ UNCHANGED <<launchVars, resume, cancelled, rung, attempt, wasUp,
                   fieldVars, ui, nativeVars, listening>>

AssignEngine(j) ==
    /\ pc[j] \in {"assign", "reassign"}
    /\ engine' = proc[j]
    /\ IF pc[j] = "assign"
         THEN Goto(j, "awaitOpen") /\ ui' = "Connecting"
         ELSE Goto(j, "reopen") /\ UNCHANGED ui
    /\ UNCHANGED <<launchVars, resume, cancelled, localVars, fieldVars,
                   tun, forwarding, stage2, procVars>>

\* The engine process itself: it opens the SOCKS5 port if nobody holds it, and
\* it may exit at any time.
EngineListens(p) ==
    /\ p \in alive /\ listening = NoProc
    /\ listening' = p
    /\ UNCHANGED <<launchVars, pc, resume, cancelled, localVars, fieldVars, ui,
                   nativeVars, alive>>

EngineExits(p) ==
    /\ p \in alive
    /\ alive' = alive \ {p}
    /\ listening' = IF listening = p THEN NoProc ELSE listening
    /\ UNCHANGED <<launchVars, pc, resume, cancelled, localVars, fieldVars, ui,
                   nativeVars>>

-----------------------------------------------------------------------------
(* A connect: startTunnel's coroutine                                        *)

\* The suspension points at which a cancelled job ends.  "new" is a coroutine
\* cancelled before it was dispatched; awaitClosed suspends only while the port
\* is taken, join() only when there is a job; the self-test of a plain session
\* goes through probeOrFalse.  The waits that swallow a cancellation (awaitExit,
\* and runCatching around Diagnostics.run) are not here.
EndsWhenCancelled(j) ==
    \/ pc[j] \in {"new", "joinRun", "rung", "awaitOpen", "stage", "transport",
                  "torFront", "backoff", "reopen", "watchExternal", "join"}
    \/ pc[j] = "joinStop" /\ job[j].stop # NoJob
    \/ pc[j] = "awaitClosed" /\ listening # NoProc
    \/ pc[j] = "verify" /\ ModeOf(j) = "plain"
    \/ pc[j] = "awaitExit" /\ EngineAlive    \* the delay between two probes

CancelledEnds(j) ==
    /\ cancelled[j] /\ EndsWhenCancelled(j)
    /\ Goto(j, "done")
    /\ UNCHANGED <<launchVars, resume, cancelled, localVars, fieldVars, ui,
                   nativeVars, procVars>>

\* Mutant: the old session is joined without being cancelled.
TakeOver_NoCancel(j) ==
    /\ IsRun(j) /\ pc[j] = "new" /\ ~cancelled[j]
    /\ LET old == job[j].run
       IN /\ UNCHANGED cancelled
          /\ IF old = NoJob
               THEN Goto(j, "joinStop") /\ UNCHANGED resume
               ELSE Cleanup(j, "joinRun")
    /\ UNCHANGED <<launchVars, localVars, fieldVars, ui, nativeVars, procVars>>

\* The new session takes over: cancel the old one, kill its natives, join it.
TakeOver(j) ==
    /\ IsRun(j) /\ pc[j] = "new" /\ ~cancelled[j]
    /\ LET old == job[j].run
       IN /\ cancelled' = [cancelled EXCEPT ![old] = (old # NoJob) \/ @]
          /\ IF old = NoJob
               THEN Goto(j, "joinStop") /\ UNCHANGED resume
               ELSE Cleanup(j, "joinRun")
    /\ UNCHANGED <<launchVars, localVars, fieldVars, ui, nativeVars, procVars>>

JoinRun(j) ==
    /\ pc[j] = "joinRun" /\ ~cancelled[j] /\ Done(job[j].run)
    /\ Goto(j, "joinStop")
    /\ UNCHANGED <<launchVars, resume, cancelled, localVars, fieldVars, ui,
                   nativeVars, procVars>>

\* Mutant: the new session does not wait for the teardown job.
JoinStop_Skips(j) ==
    /\ pc[j] = "joinStop"
    /\ cancelled[j] => job[j].stop = NoJob
    /\ Goto(j, "flow")
    /\ UNCHANGED <<launchVars, resume, cancelled, localVars, fieldVars, ui,
                   nativeVars, procVars>>

JoinStop(j) ==
    /\ pc[j] = "joinStop" /\ Done(job[j].stop)
    /\ cancelled[j] => job[j].stop = NoJob
    /\ Goto(j, "flow")
    /\ UNCHANGED <<launchVars, resume, cancelled, localVars, fieldVars, ui,
                   nativeVars, procVars>>

\* connectFlow up to the ladder: connectExternal and connectTor clean up first.
connectFlow(j) ==
    /\ pc[j] = "flow"
    /\ IF ModeOf(j) = "plain"
         THEN /\ ui' = "Launching" /\ Goto(j, "rung") /\ UNCHANGED resume
         ELSE /\ ui' = "Connecting" /\ Cleanup(j, "rung")
    /\ UNCHANGED <<launchVars, cancelled, localVars, fieldVars, nativeVars,
                   procVars>>

\* Mutant: the ladder climbs without ensureActive.
BeginRung_NoEnsureActive(j) ==
    /\ pc[j] = "rung"
    /\ ui' = "Launching"
    /\ lockdownTunActive' = FALSE
    /\ Cleanup(j, "awaitClosed")
    /\ UNCHANGED <<launchVars, cancelled, localVars, probeFailures, destroy,
                   nativeVars, procVars>>

\* runLadder's ensureActive and the first half of connectAttempt.
BeginRung(j) ==
    /\ pc[j] = "rung" /\ ~cancelled[j]
    /\ ui' = "Launching"
    /\ lockdownTunActive' = FALSE
    /\ Cleanup(j, "awaitClosed")
    /\ UNCHANGED <<launchVars, cancelled, localVars, probeFailures, destroy,
                   nativeVars, procVars>>

\* Returns when the port is free or PORT_RELEASE_WAIT_MS is over; only a wait
\* notices a cancellation.
AwaitClosed(j) ==
    /\ pc[j] = "awaitClosed"
    /\ cancelled[j] => listening = NoProc
    /\ Goto(j, "spawn")
    /\ UNCHANGED <<launchVars, resume, cancelled, localVars, fieldVars, ui,
                   nativeVars, procVars>>

\* The poll sees whoever listens on the port.
AwaitOpen(j) ==
    /\ pc[j] = "awaitOpen" /\ listening # NoProc
    /\ IF ModeOf(j) = "plain"
         THEN Goto(j, "expose") /\ UNCHANGED ui
         ELSE Goto(j, "stage") /\ ui' = "Verifying"
    /\ UNCHANGED <<launchVars, resume, cancelled, localVars, fieldVars,
                   nativeVars, procVars>>

\* Chained stage 1 carries TCP: probeOrFalse { runProxyStage }.
StageProven(j) ==
    /\ pc[j] = "stage" /\ ~cancelled[j] /\ CarriesTraffic
    /\ Goto(j, IF ModeOf(j) = "external" THEN "create" ELSE "torFront")
    /\ UNCHANGED <<launchVars, resume, cancelled, localVars, fieldVars, ui,
                   nativeVars, procVars>>

\* The field holds the transport before transport.start().
CreateTransport(j) ==
    /\ pc[j] = "create"
    /\ stage2' = TRUE
    /\ ui' = "Connecting"
    /\ Goto(j, "transport")
    /\ UNCHANGED <<launchVars, resume, cancelled, localVars, fieldVars,
                   engine, tun, forwarding, procVars>>

TransportStarts(j) ==
    /\ pc[j] = "transport" /\ ~cancelled[j] /\ stage2
    /\ Goto(j, "expose")
    /\ UNCHANGED <<launchVars, resume, cancelled, localVars, fieldVars, ui,
                   nativeVars, procVars>>

\* connectTor: wait for Tor, then TorSocksFront.start.
TorFrontStarts(j) ==
    /\ pc[j] = "torFront" /\ EngineAlive
    /\ stage2' = TRUE
    /\ ui' = "Verifying"
    /\ Goto(j, "expose")
    /\ UNCHANGED <<launchVars, resume, cancelled, localVars, fieldVars,
                   engine, tun, forwarding, procVars>>

\* establishTun, or ShareBridge.startSync in proxy mode.
Expose(j) ==
    /\ pc[j] = "expose"
    /\ IF job[j].prof.proxy
         THEN /\ forwarding' = TRUE /\ ui' = "Verifying" /\ Goto(j, "verify")
              /\ UNCHANGED tun
         ELSE /\ tun' = "tunnel" /\ Goto(j, "forward")
              /\ UNCHANGED <<ui, forwarding>>
    /\ UNCHANGED <<launchVars, resume, cancelled, localVars, fieldVars,
                   engine, stage2, procVars>>

startTun2Socks(j) ==
    /\ pc[j] = "forward" /\ tun # "none"
    /\ forwarding' = TRUE
    /\ ui' = "Verifying"
    /\ Goto(j, "verify")
    /\ UNCHANGED <<launchVars, resume, cancelled, localVars, fieldVars,
                   engine, tun, stage2, procVars>>

\* Diagnostics.run passes: something answers on the port.
SelfTestPasses(j) ==
    /\ pc[j] = "verify" /\ ~cancelled[j] /\ CarriesTraffic
    /\ proven' = [proven EXCEPT ![j] = TRUE]
    /\ Goto(j, "connected")
    /\ UNCHANGED <<launchVars, resume, cancelled, rung, attempt, proc, late,
                   restarts, wasUp, fieldVars, ui, nativeVars, procVars>>

Connected(j) ==
    /\ pc[j] = "connected"
    /\ ui' = "Connected"
    /\ wasUp' = [wasUp EXCEPT ![j] = TRUE]
    /\ Goto(j, IF ModeOf(j) = "external" THEN "watchExternal" ELSE "watch")
    /\ UNCHANGED <<launchVars, resume, cancelled, rung, attempt, proc, late,
                   proven, restarts, fieldVars, nativeVars, procVars>>

-----------------------------------------------------------------------------
(* Failures of an attempt                                                    *)

\* The steps that may throw an exception other than a cancellation: start(),
\* awaitOpen on a dead engine or at its timeout, establish() and a null TUN,
\* the listeners of proxy mode, the second stage, and a failed self-test.  In a
\* chained session runCatching turns a cancellation during the self-test into a
\* failed one.
MayThrow(j) ==
    \/ pc[j] \in {"spawn", "respawn", "torFront"}
    \/ pc[j] = "awaitOpen" /\ (cancelled[j] => ~EngineAlive)
    \/ pc[j] \in {"stage", "transport"} /\ ~cancelled[j]
    \/ pc[j] = "expose" /\ (TunFails \/ job[j].prof.proxy)
    \/ pc[j] = "forward" /\ tun = "none"
    \/ pc[j] = "verify" /\ (cancelled[j] => ModeOf(j) # "plain")

\* Everything a plain session does, and stage 1 of a chained one, is a rung.
InLadder(j) == ModeOf(j) = "plain" \/ pc[j] \in {"spawn", "awaitOpen", "stage"}

\* runLadder catches the exception and tears the rung down; anywhere else it
\* reaches startTunnel.
Throws(j) ==
    /\ MayThrow(j)
    /\ IF pc[j] # "respawn" /\ InLadder(j)
         THEN Cleanup(j, "nextRung")
         ELSE Goto(j, "error") /\ UNCHANGED resume
    /\ UNCHANGED <<launchVars, cancelled, localVars, fieldVars, ui, nativeVars,
                   procVars>>

NextRung(j) ==
    /\ pc[j] = "nextRung"
    /\ IF rung[j] < Rungs
         THEN Goto(j, "rung") /\ rung' = [rung EXCEPT ![j] = @ + 1]
         ELSE Goto(j, "error") /\ UNCHANGED rung
    /\ UNCHANGED <<launchVars, resume, cancelled, attempt, proc, late, proven,
                   restarts, wasUp, fieldVars, ui, nativeVars, procVars>>

\* startTunnel's catch (e: Exception).
ReportError(j) ==
    /\ pc[j] = "error"
    /\ ui' = "Error"
    /\ Cleanup(j, "done")
    /\ UNCHANGED <<launchVars, cancelled, localVars, fieldVars, nativeVars,
                   procVars>>

-----------------------------------------------------------------------------
(* Supervision                                                               *)

\* connectExternal's watch loop ended: a stage was confirmed dead, or the
\* session is over.
ExternalEnds(j) ==
    /\ pc[j] = "watchExternal"
    /\ Goto(j, IF currentScopeActive THEN "error" ELSE "done")
    /\ UNCHANGED <<launchVars, resume, cancelled, localVars, fieldVars, ui,
                   nativeVars, procVars>>

\* The head of superviseEngine's loop.
Watch(j) ==
    /\ pc[j] = "watch"
    /\ ~currentScopeActive \/ EngineAlive \/ attempt[j] < MaxRetries
       \/ ~(job[j].prof.kill \/ job[j].prof.strict)
    /\ CASE ~currentScopeActive -> /\ Goto(j, "done")
                                   /\ UNCHANGED <<attempt, ui>>
         [] currentScopeActive /\ EngineAlive ->
              /\ Goto(j, "awaitExit")
              /\ attempt' = [attempt EXCEPT ![j] = 0]
              /\ UNCHANGED ui
         [] currentScopeActive /\ ~EngineAlive /\ attempt[j] < MaxRetries ->
              /\ Goto(j, "backoff")
              /\ attempt' = [attempt EXCEPT ![j] = @ + 1]
              /\ ui' = "Reconnecting"
         [] OTHER -> Goto(j, "error") /\ UNCHANGED <<attempt, ui>>
    /\ UNCHANGED <<launchVars, resume, cancelled, rung, proc, late, proven,
                   restarts, wasUp, fieldVars, nativeVars, procVars>>

\* The same head with the retries used up and a kill switch: enterLockdown.
GiveUp(j) ==
    /\ pc[j] = "watch"
    /\ currentScopeActive /\ ~EngineAlive /\ attempt[j] >= MaxRetries
    /\ job[j].prof.kill \/ job[j].prof.strict
    /\ LaunchTeardown("lockdown", job[j].prof)
    /\ pc' = [pc EXCEPT ![j] = "done", ![launched + 1] = "new"]
    /\ UNCHANGED <<resume, localVars, fieldVars, ui, nativeVars, procVars>>

\* awaitExit returned (it swallows a cancellation) and, if the engine is still
\* there, probeTunnelCycle answered or the byte counters moved, or neither.
Probe(j) ==
    /\ pc[j] = "awaitExit"
    /\ Goto(j, "watch")
    /\ \/ /\ probeFailures' = IF EngineAlive THEN 0 ELSE probeFailures
          /\ UNCHANGED procVars
       \/ /\ EngineAlive /\ ~cancelled[j]
          /\ IF probeFailures + 1 >= WATCHDOG_FAIL_CYCLES
               THEN probeFailures' = 0 /\ StopEngine
               ELSE probeFailures' = probeFailures + 1 /\ UNCHANGED procVars
    /\ UNCHANGED <<launchVars, resume, cancelled, localVars, lockdownTunActive,
                   destroy, ui, nativeVars>>

Backoff(j) ==
    /\ pc[j] = "backoff" /\ ~cancelled[j]
    /\ Goto(j, "respawn")
    /\ UNCHANGED <<launchVars, resume, cancelled, localVars, fieldVars, ui,
                   nativeVars, procVars>>

\* Mutant: an open port counts as connected after a restart.
Reopen_NoGate(j) ==
    /\ pc[j] = "reopen"
    /\ \/ listening # NoProc /\ Goto(j, "watch") /\ ui' = "Connected"
       \/ (cancelled[j] => ~EngineAlive) /\ Goto(j, "watch") /\ UNCHANGED ui
    /\ UNCHANGED <<launchVars, resume, cancelled, localVars, fieldVars,
                   nativeVars, procVars>>

\* awaitOpen after a restart.
Reopen(j) ==
    /\ pc[j] = "reopen"
    /\ \/ listening # NoProc /\ Goto(j, "reverify") /\ ui' = "Verifying"
       \/ (cancelled[j] => ~EngineAlive) /\ Goto(j, "watch") /\ UNCHANGED ui
    /\ UNCHANGED <<launchVars, resume, cancelled, localVars, fieldVars,
                   nativeVars, procVars>>

\* runCatching { Diagnostics.run() }.
Reverify(j) ==
    /\ pc[j] = "reverify"
    /\ Goto(j, "watch")
    /\ \/ /\ ~cancelled[j] /\ CarriesTraffic
          /\ attempt' = [attempt EXCEPT ![j] = 0]
          /\ proven' = [proven EXCEPT ![j] = TRUE]
          /\ restarts' = [restarts EXCEPT ![j] = 0]
          /\ ui' = "Connected"
          /\ UNCHANGED procVars
       \/ StopEngine /\ UNCHANGED <<attempt, proven, restarts, ui>>
    /\ UNCHANGED <<launchVars, resume, cancelled, rung, proc, late, wasUp,
                   fieldVars, nativeVars>>

-----------------------------------------------------------------------------
(* The teardown jobs of stopEverything and enterLockdown                     *)

StartTeardown(j) ==
    /\ job[j].kind \in {"stop", "lockdown"} /\ pc[j] = "new" /\ ~cancelled[j]
    /\ Cleanup(j, IF job[j].kind = "stop" THEN "idle" ELSE "arm")
    /\ UNCHANGED <<launchVars, cancelled, localVars, fieldVars, ui, nativeVars,
                   procVars>>

\* The end of stopEverything's job: Idle, stopForeground, stopSelf.
GoIdle(j) ==
    /\ pc[j] = "idle"
    /\ ui' = "Idle"
    /\ destroy' = IF destroy = "no" THEN "asked" ELSE destroy
    /\ Goto(j, "join")
    /\ UNCHANGED <<launchVars, resume, cancelled, localVars, lockdownTunActive,
                   probeFailures, nativeVars, procVars>>

\* ensureLockdownTun's establish() and the end of enterLockdown's job.
Arm(j) ==
    /\ pc[j] = "arm"
    /\ tun' \in {"lockdown"} \cup (IF TunFails THEN {"none"} ELSE {})
    /\ lockdownTunActive' = TRUE
    /\ ui' = "KillSwitch"
    /\ Goto(j, "join")
    /\ UNCHANGED <<launchVars, resume, cancelled, localVars, probeFailures,
                   destroy, engine, forwarding, stage2, procVars>>

JoinSession(j) ==
    /\ pc[j] = "join" /\ Done(job[j].run)
    /\ Goto(j, "done")
    /\ UNCHANGED <<launchVars, resume, cancelled, localVars, fieldVars, ui,
                   nativeVars, procVars>>

-----------------------------------------------------------------------------
(* Specification                                                             *)

Init ==
    /\ job = [j \in Threads |-> [kind |-> IF j = MainThread THEN "main" ELSE "none",
                                 prof |-> NoProfile, run |-> NoJob, stop |-> NoJob]]
    /\ launched = 0
    /\ pc = [j \in Threads |-> "none"]
    /\ resume = [j \in Threads |-> "done"]
    /\ cancelled = [j \in Threads |-> FALSE]
    /\ rung = [j \in Jobs |-> 1]
    /\ attempt = [j \in Jobs |-> 0]
    /\ proc = [j \in Jobs |-> NoProc]
    /\ runJob = NoJob /\ stopJob = NoJob /\ lastProfile = NoProfile
    /\ lockdownTunActive = FALSE /\ probeFailures = 0
    /\ ui = "Idle" /\ destroy = "no"
    /\ engine = NoProc /\ tun = "none" /\ forwarding = FALSE /\ stage2 = FALSE
    /\ alive = {} /\ listening = NoProc
    /\ late = [j \in Jobs |-> 0]
    /\ proven = [j \in Jobs |-> FALSE]
    /\ restarts = [j \in Jobs |-> 0]
    /\ wasUp = [j \in Jobs |-> FALSE]
    /\ calm = TRUE

SessionStep(j) ==
    \/ TakeOver(j) \/ JoinRun(j) \/ JoinStop(j) \/ connectFlow(j)
    \/ BeginRung(j) \/ AwaitClosed(j) \/ StartEngine(j) \/ AssignEngine(j)
    \/ AwaitOpen(j) \/ StageProven(j) \/ CreateTransport(j) \/ TransportStarts(j)
    \/ TorFrontStarts(j) \/ Expose(j) \/ startTun2Socks(j) \/ SelfTestPasses(j)
    \/ Connected(j) \/ Throws(j) \/ NextRung(j) \/ ReportError(j)
    \/ ExternalEnds(j) \/ Watch(j) \/ GiveUp(j) \/ Probe(j) \/ Backoff(j)
    \/ Reopen(j) \/ Reverify(j)

TeardownStep(j) ==
    StartTeardown(j) \/ GoIdle(j) \/ Arm(j) \/ JoinSession(j)

JobStep(j) == Kill(j) \/ Drop(j) \/ CancelledEnds(j) \/ SessionStep(j) \/ TeardownStep(j)

MainStep == Kill(MainThread) \/ Drop(MainThread) \/ CancelScope

Next ==
    \/ \E p \in Profiles : startTunnel(p)
    \/ Disconnect \/ onRevoke \/ onDestroy \/ MainStep
    \/ \E j \in Jobs : JobStep(j)
    \/ \E p \in Procs : EngineListens(p) \/ EngineExits(p)

Spec == Init /\ [][Next]_vars

\* Coroutines are dispatched, every wait in them has a timeout, and the
\* framework answers stopSelf.  Nothing is assumed of users or engines.
Fairness == /\ \A j \in Jobs : WF_vars(JobStep(j))
            /\ WF_vars(onDestroy) /\ WF_vars(MainStep)

FairSpec == Spec /\ Fairness

-----------------------------------------------------------------------------
(* Properties                                                                *)

Labels == {"none", "new", "kill", "drop", "joinRun", "joinStop", "flow", "rung",
           "awaitClosed", "spawn", "assign", "awaitOpen", "stage", "create",
           "transport", "torFront", "expose", "forward", "verify", "connected",
           "nextRung", "error", "watchExternal", "watch", "awaitExit", "backoff",
           "respawn", "reassign", "reopen", "reverify", "idle", "arm", "join",
           "scope", "done"}

States == {"Idle", "Launching", "Connecting", "Verifying", "Connected",
           "Reconnecting", "Disconnecting", "Error", "KillSwitch"}

\* Types; in particular the watchdog's counter stays below its limit and the
\* port is held by a live process.
TypeOK ==
    /\ job \in [Threads -> [kind : {"none", "main", "run", "stop", "lockdown"},
                           prof : Profiles \cup {NoProfile},
                           run : Threads, stop : Threads]]
    /\ launched \in 0 .. MaxJobs
    /\ pc \in [Threads -> Labels] /\ resume \in [Threads -> Labels]
    /\ cancelled \in [Threads -> BOOLEAN]
    /\ rung \in [Jobs -> 1 .. Rungs] /\ attempt \in [Jobs -> 0 .. MaxRetries]
    /\ proc \in [Jobs -> Procs \cup {NoProc}]
    /\ runJob \in 0 .. launched /\ stopJob \in 0 .. launched
    /\ lastProfile \in Profiles \cup {NoProfile}
    /\ lockdownTunActive \in BOOLEAN
    /\ probeFailures \in 0 .. WATCHDOG_FAIL_CYCLES - 1
    /\ ui \in States /\ destroy \in {"no", "asked", "running", "done"}
    /\ engine \in Procs \cup {NoProc}
    /\ tun \in {"none", "tunnel", "lockdown"}
    /\ forwarding \in BOOLEAN /\ stage2 \in BOOLEAN
    /\ alive \subseteq Procs /\ listening \in alive \cup {NoProc}
    /\ late \in [Jobs -> Nat] /\ restarts \in [Jobs -> 0 .. MaxRetries + 1]
    /\ proven \in [Jobs -> BOOLEAN] /\ wasUp \in [Jobs -> BOOLEAN]
    /\ calm \in BOOLEAN

\* A cancelled session starts at most the one engine whose launch was already
\* under way: no ladder rung and no restart begins after the cancel
\* (runLadder's ensureActive, probeOrFalse, the backoff delay).
LateLaunches == \A j \in Jobs : late[j] <= 1

\* As long as every command found the previous one settled, a session runs
\* its connect flow only after every older session has ended: startTunnel's
\* joins, and the join at the end of each teardown job.
SessionsDoNotOverlap ==
    calm => \A j, k \in Jobs : InFlow(j) /\ InFlow(k) => j = k

\* The labels at which a session has assigned its engine.
HasEngine == {"awaitOpen", "stage", "create", "transport", "torFront", "expose",
              "forward", "verify", "connected", "watchExternal", "watch",
              "awaitExit", "backoff", "respawn", "reopen", "reverify"}
HasTun == HasEngine \ {"awaitOpen", "stage", "create", "transport", "torFront",
                       "expose"}

\* Under the same condition nobody takes the natives of a session that has not
\* been cancelled: its `engine` is the process it launched (respawn: the one it
\* is replacing), and its TUN and second stage stay up until it gives them up
\* itself.  cleanupNativeOnly is shared by sessions, teardowns and onDestroy.
LiveSessionOwnsNatives ==
    calm => \A j \in Jobs :
        /\ IsRun(j) /\ ~cancelled[j]
        => /\ pc[j] \in HasEngine => engine = proc[j]
           /\ pc[j] \in HasTun => (tun = "tunnel") = ~job[j].prof.proxy
           /\ pc[j] \in HasTun \ {"forward"} => forwarding
           /\ pc[j] \in HasTun /\ ModeOf(j) # "plain" => stage2

\* One session at a time, and the natives are its own.
OneSessionOwns == SessionsDoNotOverlap /\ LiveSessionOwnsNatives

\* Under the same condition "Connected" is about the current session: once its
\* connect flow runs, the state shown is Connected only if the engine held by
\* the service passed the self-test after its last (re)start.
ConnectedIsProven ==
    /\ calm /\ ui = "Connected" /\ runJob # NoJob
    /\ InFlow(runJob) /\ ~cancelled[runJob]
    => proven[runJob] /\ engine = proc[runJob]

\* Under the same condition every join returns: a new session is not kept
\* waiting by the one it replaces, nor a teardown by the session it cancelled.
\* The supervisor swallows a cancellation in awaitExit and in its self-test, so
\* this rests on the cancel, on the natives being killed and on the next
\* suspension point together.
JoinsReturn ==
    \A j \in Jobs : (pc[j] \in {"joinRun", "joinStop", "join"})
                    ~> (pc[j] \notin {"joinRun", "joinStop", "join"} \/ ~calm)

-----------------------------------------------------------------------------
(* What the comments of the source say, and the code does not do             *)

\* startTunnel: a connect tapped right after a disconnect is not dropped, "the
\* new session takes ownership".  The old session's stopSelf() must not destroy
\* the service under a newer session.
ConnectSurvivesStop == destroy = "done" => runJob = NoJob

\* probeOrFalse: a cancellation is not a verdict about the tunnel, its one
\* correct answer is to stop.  A session cancelled during the self-test ends.
CancellationIsNoVerdict ==
    [][\A j \in Jobs : pc[j] = "verify" /\ cancelled[j]
                         => pc'[j] \in {"verify", "done"}]_vars

\* lockdownTunActive is "true while the kill-switch blackhole TUN is up".
LockdownFlagMeansTun == lockdownTunActive => tun = "lockdown"

\* maxRetries is the number of automatic engine restarts: without a passed
\* self-test in between there are no more than that.
RestartsBounded == \A j \in Jobs : restarts[j] <= MaxRetries

\* onStartCommand: with the strict kill switch a manual disconnect opens no
\* leak window, so entering lockdown replaces one TUN by another.
LockdownNeverOpens ==
    [][\A j \in Jobs : job[j].kind = "lockdown" /\ pc[j] = "drop"
                         /\ pc'[j] # "drop" /\ tun # "none" => tun' # "none"]_vars

\* runLadder: no engine is left running unsupervised after a disconnect.  Once
\* every job is over and no session is current, no process is left.
NoOrphanEngine ==
    /\ \A j \in 1 .. launched : Done(j)
    /\ runJob = NoJob /\ destroy \in {"no", "done"}
    => alive = {}

\* startTunnel: the new session waits for the old one to finish, however fast
\* the commands come.
NewSessionWaits == \A j, k \in Jobs : InFlow(j) /\ InFlow(k) => j = k

\* superviseEngine gives up on the session it supervises: enterLockdown never
\* cancels another one.
LocksDownOnlyItself ==
    [][\A j \in Jobs : pc[j] = "watch" /\ pc'[j] = "done" /\ stopJob' # stopJob
                         => runJob = j]_vars

\* README, Kill Switch: on an unexpected drop a blocking TUN stays up.  A
\* session with the kill switch that was connected does not end in Error with
\* no TUN at all.
DropKeepsBlocking ==
    \A j \in Jobs : /\ IsRun(j) /\ Done(j) /\ ~cancelled[j]
                     /\ wasUp[j] /\ job[j].prof.kill
                     /\ ui = "Error" /\ runJob = j
                     => tun # "none"
=============================================================================
