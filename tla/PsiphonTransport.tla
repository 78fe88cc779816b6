-------------------------- MODULE PsiphonTransport --------------------------
(* One PsiphonTransport: start() with its two establish attempts, in-place     *)
(* rotations, stop(), the callbacks of the Psiphon library, the listener of    *)
(* PsiphonSocksFront and the loop of AetherVpnService that asks isAlive().     *)
(*                                                                             *)
(* The library is external: a controller that is started with the              *)
(* configuration of the moment, binds a local port, finds a server in a region *)
(* its filter allows, loses it, exits; it delivers its callbacks one by one,   *)
(* in order, some time after the event.  start(), stop(), the rotation thread, *)
(* the callbacks and the loop run on threads of their own.                     *)
EXTENDS Integers, Sequences, FiniteSets

CONSTANTS
    Regions,          \* exit regions, numbers: the list is kept sorted
    Wishes,           \* what the user may have chosen, NoRegion for Automatic
    Reaches,          \* the sets of regions that may have a reachable server
    Ports,            \* local ports the library may bind
    localSocksPort,   \* the one it is asked for
    ROTATION_GRACE,   \* ROTATION_GRACE_MS in instants of the model
    TRANSPORT_DEAD_CONFIRMATIONS,
    MaxRotations,     \* what PsiphonHealth issues in a session
    MaxLosses,        \* tunnels the library loses by itself
    MaxEvents         \* callbacks waiting

NoRegion == 0

ASSUME TransportAssumption ==
    /\ Regions \subseteq Nat \ {NoRegion} /\ IsFiniteSet(Regions)
    /\ Wishes \subseteq Regions \cup {NoRegion} /\ Reaches \subseteq SUBSET Regions
    /\ Ports \subseteq Nat \ {0} /\ localSocksPort \in Ports
    /\ ROTATION_GRACE \in Nat \ {0} /\ TRANSPORT_DEAD_CONFIRMATIONS \in Nat \ {0}
    /\ MaxRotations \in Nat /\ MaxLosses \in Nat /\ MaxEvents \in Nat

NoTunnel == 0
Pending == 0               \* the deferred `ready`: else a port or a failure
Failed == -1
Stopped == -2
NoDeadline == -1
NoRotation == [stage |-> "none"]
Tunnels == 1 .. 2          \* one per establish attempt

VARIABLES
    wanted, reach,          \* the user's region; the regions with a reachable server
    pc, attempt, cancelled, \* the session coroutine: inside start(), then its loop
    stopped,                \* has the service called stop()?
    \* fields of the transport; ready is a port once completed
    connected, ready, socksPort, tunnel, config, rotationDeadline, avoidReplay,
    availableRegions, steerCursor,
    front,                  \* PsiphonSocksFront: running, upstream port
    rotation,               \* a rotateServer call under way
    action, filtering, rotations,   \* PsiphonHealth: bound?, convicted regions, count
    transportDead, poll,    \* the loop: readings in a row, has rotating() said no?
    lib, events, losses,    \* the library
    \* auxiliary: dead readings of the streak taken within the latest rotation's grace,
    \* was the transport at rest when stop() came,
    graceDeaths, calmStop,
    \* has a callback of the first attempt's controller come after the second began
    strayed

session == <<pc, attempt, cancelled, stopped>>
steering == <<config, avoidReplay, availableRegions, steerCursor>>
fields == <<connected, ready, socksPort, tunnel, rotationDeadline>>
health == <<action, filtering, rotations>>
loop == <<transportDead, poll, graceDeaths>>
vars == <<wanted, reach, session, fields, steering, front, rotation, health, loop,
          lib, events, losses, calmStop, strayed>>

-----------------------------------------------------------------------------
(* The library's side *)

Off == [owner |-> NoTunnel, on |-> FALSE, port |-> 0, region |-> NoRegion,
        egress |-> NoRegion, steered |-> FALSE, avoid |-> {}]

\* A controller starts and reads getPsiphonConfig().
Started(c, conf) == [owner |-> c, on |-> TRUE, port |-> 0, region |-> NoRegion,
                     egress |-> conf.egress, steered |-> conf.noReplay, avoid |-> conf.avoid]

Notify(kind, port) == Append(events, [kind |-> kind, port |-> port, from |-> lib.owner])

Exiting == IF lib.on THEN Notify("exiting", 0) ELSE events

Listen == /\ lib.on /\ lib.port = 0 /\ Len(events) < MaxEvents
          /\ \E p \in Ports :
                 /\ lib' = [lib EXCEPT !.port = p]
                 /\ events' = Notify("port", p)
          /\ UNCHANGED <<wanted, reach, session, fields, steering, front, rotation,
                         health, loop, losses, calmStop, strayed>>

ReportRegions == /\ lib.on /\ availableRegions # reach /\ Len(events) < MaxEvents
                 /\ ~\E i \in DOMAIN events : events[i].kind = "regions"
                 /\ events' = Notify("regions", 0)
                 /\ UNCHANGED <<wanted, reach, session, fields, steering, front, rotation,
                                health, loop, lib, losses, calmStop, strayed>>

\* EgressRegion is a hard filter: without a reachable server in it nothing is found.
Connect == /\ lib.on /\ lib.port # 0 /\ lib.region = NoRegion /\ Len(events) < MaxEvents
           /\ \E r \in reach :
                  /\ lib.egress \in {NoRegion, r}
                  /\ lib' = [lib EXCEPT !.region = r]
           /\ events' = Notify("connected", 0)
           /\ UNCHANGED <<wanted, reach, session, fields, steering, front, rotation,
                          health, loop, losses, calmStop, strayed>>

\* The tunnel fails and the controller looks for another one by itself.
Lose == /\ lib.region # NoRegion /\ losses < MaxLosses
        /\ lib' = [lib EXCEPT !.region = NoRegion]
        /\ losses' = losses + 1
        /\ UNCHANGED <<wanted, reach, session, fields, steering, front, rotation,
                       health, loop, events, calmStop, strayed>>

\* EstablishTunnelTimeoutSeconds have passed, or the controller has failed.
GiveUp == /\ lib.on /\ lib.region = NoRegion /\ Len(events) < MaxEvents
          /\ lib' = Off /\ events' = Exiting
          /\ UNCHANGED <<wanted, reach, session, fields, steering, front, rotation,
                         health, loop, losses, calmStop, strayed>>

-----------------------------------------------------------------------------
(* The front *)

NoFront == [running |-> FALSE, port |-> 0]

\* retarget(): only the upstream moves, and only under a running front.
retarget(p) == IF front.running THEN [front EXCEPT !.port = p] ELSE front

-----------------------------------------------------------------------------
(* Callbacks *)

onListeningSocksProxyPort_NoRetarget(p) ==
    /\ socksPort' = p
    /\ UNCHANGED <<connected, ready, tunnel, rotationDeadline, availableRegions, front>>

onListeningSocksProxyPort(p) ==
    /\ socksPort' = p
    /\ front' = retarget(p)
    /\ UNCHANGED <<connected, ready, tunnel, rotationDeadline, availableRegions>>

onConnected ==
    /\ connected' = TRUE
    /\ rotationDeadline' = NoDeadline
    /\ ready' = IF ready = Pending THEN socksPort ELSE ready
    /\ UNCHANGED <<socksPort, tunnel, availableRegions, front>>

onExiting ==
    /\ connected' = FALSE
    /\ ready' = IF ready = Pending THEN Failed ELSE ready
    /\ UNCHANGED <<socksPort, tunnel, rotationDeadline, availableRegions, front>>

onAvailableEgressRegions ==
    /\ availableRegions' = IF reach = {} THEN availableRegions ELSE reach
    /\ UNCHANGED <<fields, front>>

Callback(e) == CASE e.kind = "port"      -> onListeningSocksProxyPort(e.port)
                 [] e.kind = "connected" -> onConnected
                 [] e.kind = "exiting"   -> onExiting
                 [] e.kind = "regions"   -> onAvailableEgressRegions

Deliver == /\ events # <<>>
           /\ Callback(Head(events))
           /\ events' = Tail(events)
           /\ strayed' = (strayed \/ Head(events).from < attempt)
           /\ UNCHANGED <<wanted, reach, session, config, avoidReplay, steerCursor,
                          rotation, health, loop, lib, losses, calmStop>>

-----------------------------------------------------------------------------
(* start() *)

\* The passes of start(): the user's country, then no filter.
attempts == IF wanted = NoRegion THEN <<NoRegion>> ELSE <<wanted, NoRegion>>

buildConfig(egress, noReplay, avoid) == [egress |-> egress, noReplay |-> noReplay, avoid |-> avoid]

Init == /\ wanted \in Wishes /\ reach \in Reaches
        /\ pc = "idle" /\ attempt = 0 /\ cancelled = FALSE /\ stopped = FALSE
        /\ connected = FALSE /\ ready = Pending /\ socksPort = localSocksPort
        /\ tunnel = NoTunnel /\ rotationDeadline = NoDeadline
        /\ config = buildConfig(NoRegion, FALSE, {}) /\ avoidReplay = FALSE
        /\ availableRegions = {} /\ steerCursor = 0
        /\ front = NoFront /\ rotation = NoRotation
        /\ action = FALSE /\ filtering = {} /\ rotations = 0
        /\ transportDead = 0 /\ poll = "idle" /\ graceDeaths = 0
        /\ lib = Off /\ events = <<>> /\ losses = 0 /\ calmStop = FALSE
        /\ strayed = FALSE

\* Fails at once when the server list is missing from the assets.
start == /\ pc = "idle" /\ ~cancelled
         /\ rotationDeadline' = NoDeadline /\ avoidReplay' = FALSE
         /\ availableRegions' = {} /\ steerCursor' = 0
         /\ \/ pc' = "establish" /\ attempt' = 1
            \/ pc' = "failed" /\ UNCHANGED attempt
         /\ UNCHANGED <<wanted, reach, cancelled, stopped, connected, ready, socksPort, tunnel,
                        config, front, rotation, health, loop, lib, events, losses, calmStop, strayed>>

\* The front and the controller behind it.
stopTunnelQuietly ==
    /\ front' = NoFront /\ connected' = FALSE /\ tunnel' = NoTunnel
    /\ IF tunnel # NoTunnel /\ lib.owner = tunnel
       THEN lib' = Off /\ events' = Exiting
       ELSE UNCHANGED <<lib, events>>

\* The catch of start(): any failure but a cancellation ends the attempt.
AttemptFails == /\ stopTunnelQuietly
                /\ pc' = IF attempt < Len(attempts) THEN "between" ELSE "failed"
                /\ UNCHANGED <<wanted, reach, attempt, cancelled, stopped, ready, socksPort,
                               rotationDeadline, steering, rotation, health, loop, losses, calmStop,
                               strayed>>

\* The retry: a fresh datastore, and a wait for the port that suspends only if it is
\* still taken; a cancellation is noticed there or not at all.
between == /\ pc = "between"
           /\ stopTunnelQuietly
           /\ \/ pc' = "establish" /\ attempt' = attempt + 1
              \/ cancelled /\ pc' = "gone" /\ UNCHANGED attempt
           /\ UNCHANGED <<wanted, reach, cancelled, stopped, ready, socksPort,
                          rotationDeadline, steering, rotation, health, loop, losses, calmStop, strayed>>

\* establish() up to the library call; bind() resets PsiphonHealth.
establish == /\ pc = "establish"
             /\ ready' = Pending /\ socksPort' = localSocksPort
             /\ config' = buildConfig(attempts[attempt], avoidReplay, {})
             /\ tunnel' = attempt
             /\ action' = TRUE /\ filtering' = {} /\ rotations' = 0
             /\ pc' = "starting"
             /\ UNCHANGED <<wanted, reach, attempt, cancelled, stopped, connected,
                            rotationDeadline, avoidReplay, availableRegions, steerCursor,
                            front, rotation, loop, lib, events, losses, calmStop, strayed>>

startTunneling == /\ pc = "starting"
                  /\ \/ AttemptFails
                     \/ /\ lib' = Started(attempt, config)
                        /\ events' = Exiting
                        /\ pc' = "await"
                        /\ UNCHANGED <<wanted, reach, attempt, cancelled, stopped, fields, steering,
                                       front, rotation, health, loop, losses, calmStop, strayed>>

awaitTimeout_Escapes == /\ pc = "await" /\ ready = Pending
                        /\ pc' = "gone"
                        /\ UNCHANGED <<wanted, reach, attempt, cancelled, stopped, fields, steering,
                                       front, rotation, health, loop, lib, events, losses, calmStop, strayed>>

\* withTimeout(ESTABLISH_TIMEOUT_MS), its exception turned into a plain failure.
awaitTimeout == pc = "await" /\ ready = Pending /\ AttemptFails

awaitReady == /\ pc = "await"
              /\ \/ ready = Failed /\ AttemptFails
                 \/ /\ \/ ready = Stopped /\ pc' = "gone"
                       \/ cancelled /\ pc' = "gone"
                       \/ ready \in Ports /\ pc' = "front"
                    /\ UNCHANGED <<wanted, reach, attempt, cancelled, stopped, fields, steering,
                                   front, rotation, health, loop, lib, events, losses, calmStop, strayed>>

\* A front that runs is kept as it is; a port that is taken fails the attempt.
startFront == /\ pc = "front"
              /\ \/ ~front.running /\ AttemptFails
                 \/ /\ front' = IF front.running THEN front
                                ELSE [running |-> TRUE, port |-> ready]
                    /\ pc' = "up"
                    /\ UNCHANGED <<wanted, reach, attempt, cancelled, stopped, fields, steering,
                                   rotation, health, loop, lib, events, losses, calmStop, strayed>>

-----------------------------------------------------------------------------
(* Rotation *)

\* PsiphonHealth convicts the region of the active server, if it knows it, and calls
\* rotateServer; its evidence comes through the front.
maybeRotate == /\ action /\ front.running /\ rotations < MaxRotations
               /\ rotation = NoRotation
               /\ \E strategy \in {"RECONNECT", "RESTART"}, r \in {lib.region, NoRegion} :
                      /\ rotation' = [stage |-> "claim", strategy |-> strategy, target |-> r]
                      /\ filtering' = filtering \cup ({r} \ {NoRegion})
               /\ rotations' = rotations + 1
               /\ UNCHANGED <<wanted, reach, session, fields, steering, front, action, loop,
                              lib, events, losses, calmStop, strayed>>

Bad(target) == filtering \cup ({target} \ {NoRegion})

Pool(target) == availableRegions \ Bad(target)

\* pool[i] of the sorted list, counted from 0.
At(pool, i) == CHOOSE r \in pool : Cardinality({x \in pool : x < r}) = i

nextEgressAway_AnyRegion(target) ==
    IF availableRegions = {} THEN NoRegion
    ELSE At(availableRegions, steerCursor % Cardinality(availableRegions))

\* Round robin over the reachable regions that have no convicted server.
nextEgressAway(target) ==
    IF Pool(target) = {} THEN NoRegion
    ELSE At(Pool(target), steerCursor % Cardinality(Pool(target)))

prepareSteeredConfig(target) ==
    /\ avoidReplay' = TRUE
    /\ config' = buildConfig(IF wanted # NoRegion THEN wanted ELSE nextEgressAway(target),
                             TRUE, Bad(target))
    /\ steerCursor' = IF wanted = NoRegion /\ Pool(target) # {} THEN steerCursor + 1
                      ELSE steerCursor

\* rotateServer: the grace is claimed before anything is torn down.
rotateServer == /\ rotation.stage = "claim"
                /\ IF tunnel = NoTunnel
                   THEN /\ rotation' = NoRotation
                        /\ UNCHANGED <<rotationDeadline, graceDeaths, config, avoidReplay, steerCursor>>
                   ELSE /\ rotationDeadline' = ROTATION_GRACE /\ graceDeaths' = 0
                        /\ IF rotation.strategy = "RESTART"
                           THEN prepareSteeredConfig(rotation.target)
                           ELSE UNCHANGED <<config, avoidReplay, steerCursor>>
                        /\ rotation' = [stage |-> "call", strategy |-> rotation.strategy,
                                        active |-> tunnel]
                /\ UNCHANGED <<wanted, reach, session, connected, ready, socksPort, tunnel,
                               availableRegions, front, health, transportDead, poll, lib,
                               events, losses, calmStop, strayed>>

\* The thread psiphon-rotate.  A call that throws gives the grace back.
psiphonRotate ==
    /\ rotation.stage = "call"
    /\ rotation' = NoRotation
    /\ \/ /\ rotation.strategy = "RECONNECT"
          /\ lib' = IF lib.owner = rotation.active THEN [lib EXCEPT !.region = NoRegion] ELSE lib
          /\ UNCHANGED <<events, rotationDeadline>>
       \/ /\ rotation.strategy = "RESTART"
          /\ lib' = Started(rotation.active, config) /\ events' = Exiting
          /\ UNCHANGED rotationDeadline
       \/ /\ lib' = IF rotation.strategy = "RESTART" THEN Off ELSE lib
          /\ events' = IF rotation.strategy = "RESTART" THEN Exiting ELSE events
          /\ rotationDeadline' = NoDeadline
    /\ UNCHANGED <<wanted, reach, session, connected, ready, socksPort, tunnel, steering,
                   front, health, loop, losses, calmStop, strayed>>

-----------------------------------------------------------------------------
(* The supervisor's loop *)

Tick == /\ rotationDeadline > 0
        /\ rotationDeadline' = rotationDeadline - 1
        /\ UNCHANGED <<wanted, reach, session, connected, ready, socksPort, tunnel, steering,
                       front, rotation, health, loop, lib, events, losses, calmStop, strayed>>

rotating_Always == /\ pc = "up" /\ poll = "idle"
                   /\ IF rotationDeadline >= 0
                      THEN transportDead' = 0 /\ graceDeaths' = 0 /\ UNCHANGED poll
                      ELSE poll' = "check" /\ UNCHANGED <<transportDead, graceDeaths>>
                   /\ UNCHANGED <<wanted, reach, session, fields, steering, front, rotation,
                                  health, lib, events, losses, calmStop, strayed>>

rotating_Ignored == /\ pc = "up" /\ poll = "idle"
                    /\ poll' = "check"
                    /\ UNCHANGED <<wanted, reach, session, fields, steering, front, rotation,
                                   health, transportDead, graceDeaths, lib, events, losses,
                                   calmStop, strayed>>

\* First half of isAlive(): a rotation within its grace is alive; a grace that has run
\* out is cleared.
rotating == /\ pc = "up" /\ poll = "idle"
            /\ IF rotationDeadline > 0
               THEN /\ transportDead' = 0 /\ graceDeaths' = 0
                    /\ UNCHANGED <<poll, rotationDeadline>>
               ELSE /\ rotationDeadline' = NoDeadline /\ poll' = "check"
                    /\ UNCHANGED <<transportDead, graceDeaths>>
            /\ UNCHANGED <<wanted, reach, session, connected, ready, socksPort, tunnel, steering,
                           front, rotation, health, lib, events, losses, calmStop, strayed>>

\* The loop counts dead readings in a row and breaks when they are enough.
countReading(alive) ==
    IF alive
    THEN transportDead' = 0 /\ graceDeaths' = 0 /\ UNCHANGED pc
    ELSE /\ transportDead' = transportDead + 1
         /\ graceDeaths' = graceDeaths + (IF rotationDeadline > 0 THEN 1 ELSE 0)
         /\ pc' = IF transportDead' >= TRANSPORT_DEAD_CONFIRMATIONS THEN "torn" ELSE pc

\* Second half of isAlive().
isAlive == /\ pc = "up" /\ poll = "check"
           /\ poll' = "idle"
           /\ countReading(connected /\ tunnel # NoTunnel /\ front.running)
           /\ UNCHANGED <<wanted, reach, attempt, cancelled, stopped, fields, steering, front,
                          rotation, health, lib, events, losses, calmStop, strayed>>

\* A disconnect or a takeover cancels the session; the loop sees it at its delay.
cancel == /\ ~cancelled /\ pc \notin {"failed", "gone", "torn"}
          /\ cancelled' = TRUE
          /\ UNCHANGED <<wanted, reach, pc, attempt, stopped, fields, steering, front, rotation,
                         health, loop, lib, events, losses, calmStop, strayed>>

leaveLoop == /\ cancelled /\ pc \in {"idle", "up"} /\ poll = "idle"
             /\ pc' = "gone"
             /\ UNCHANGED <<wanted, reach, attempt, cancelled, stopped, fields, steering, front,
                            rotation, health, loop, lib, events, losses, calmStop, strayed>>

\* stop(), called by the service's cleanup on any thread: PsiphonHealth is reset, and a
\* start() that still waits is told.
stop == /\ ~stopped /\ (cancelled \/ pc \in {"failed", "gone", "torn"})
        /\ stopped' = TRUE
        /\ rotationDeadline' = NoDeadline
        /\ action' = FALSE /\ filtering' = {} /\ rotations' = 0
        /\ stopTunnelQuietly
        /\ ready' = IF ready = Pending THEN Stopped ELSE ready
        /\ calmStop' = (pc \in {"idle", "up", "failed", "gone", "torn"} /\ rotation = NoRotation)
        /\ UNCHANGED <<wanted, reach, pc, attempt, cancelled, socksPort, steering, rotation, loop,
                       losses, strayed>>

Next == \/ start \/ establish \/ startTunneling \/ awaitTimeout \/ awaitReady
        \/ startFront \/ between
        \/ maybeRotate \/ rotateServer \/ psiphonRotate
        \/ Tick \/ rotating \/ isAlive \/ cancel \/ leaveLoop \/ stop
        \/ Listen \/ ReportRegions \/ Connect \/ Lose \/ GiveUp \/ Deliver

Spec == Init /\ [][Next]_vars

\* The loop polls, time passes, the rotation thread and the callbacks run; nothing is
\* assumed of the library, the network or the user.
FairSpec == /\ Spec
            /\ WF_vars(rotating \/ isAlive) /\ WF_vars(Tick)
            /\ WF_vars(rotateServer \/ psiphonRotate) /\ WF_vars(Deliver)

-----------------------------------------------------------------------------
(* Properties *)

\* Type invariant of the transport, the front, the loop and the library.
TypeOK ==
    /\ wanted \in Wishes /\ reach \subseteq Regions
    /\ pc \in {"idle", "establish", "starting", "await", "front", "between", "up",
               "failed", "gone", "torn"}
    /\ attempt \in 0 .. Len(attempts)
    /\ ready \in Ports \cup {Pending, Failed, Stopped} /\ socksPort \in Ports
    /\ tunnel \in Tunnels \cup {NoTunnel}
    /\ rotationDeadline \in NoDeadline .. ROTATION_GRACE
    /\ availableRegions \subseteq reach /\ steerCursor \in 0 .. MaxRotations
    /\ config.egress \in Regions \cup {NoRegion} /\ lib.egress \in Regions \cup {NoRegion}
    /\ front.running => front.port \in Ports
    /\ filtering \subseteq Regions /\ rotations \in 0 .. MaxRotations
    /\ transportDead \in 0 .. TRANSPORT_DEAD_CONFIRMATIONS

\* A rotation is not read as death: it adds at most one to the dead readings that count
\* towards a teardown, the reading that had looked at the deadline just before the claim.
RotationIsNotDeath == graceDeaths <= 1

\* Whatever port a restarted library binds, the front's new connections go to it as soon
\* as the callback is delivered, unless a callback of an abandoned attempt came late.
FrontFollowsLibrary ==
    front.running /\ tunnel # NoTunnel /\ lib.owner = tunnel /\ lib.port # 0
        /\ ~strayed /\ (~\E i \in DOMAIN events : events[i].kind = "port")
        => front.port = lib.port

\* start() gives up, if nobody cancelled it, only after an attempt without a region filter.
FailsOnlyUnfiltered ==
    pc \in {"failed", "gone"} /\ ~cancelled /\ attempt > 0 => attempts[attempt] = NoRegion

\* Under Automatic a steered controller runs in a region that was reported reachable and
\* had no convicted server when it was chosen, or without a filter.
AutomaticSteersClean ==
    lib.on /\ lib.steered /\ wanted = NoRegion /\ lib.egress # NoRegion
        => lib.egress \in reach \ lib.avoid

\* A stop() that finds the transport at rest leaves neither a library nor a front.
CalmStopIsComplete == stopped /\ calmStop => ~lib.on /\ ~front.running

\* The two ways out leave nothing behind and nothing untried: a failure comes after the
\* unfiltered attempt, a stop at rest ends library and front.
EndsAreComplete == FailsOnlyUnfiltered /\ CalmStopIsComplete

\* A session whose library is gone is connected again or handed to the supervisor: a
\* rotation that never comes back holds the Connected badge for a bounded time only.
HandedBack == (pc = "up" /\ ~connected) ~> (connected \/ pc # "up")

\* onAvailableEgressRegions' comment: steering "may only ever pick a region the library
\* has just told us it can actually reach".
SteersToReachable ==
    lib.on /\ lib.steered /\ lib.egress # NoRegion /\ availableRegions # {}
        => lib.egress \in availableRegions
=============================================================================
