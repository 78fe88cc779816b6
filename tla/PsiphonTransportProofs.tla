----------------------- MODULE PsiphonTransportProofs -----------------------
(***************************************************************************)
(* Machine-checked proofs about PsiphonTransport, for any regions, ports,  *)
(* grace, confirmations and numbers of rotations, losses and callbacks.    *)
(***************************************************************************)
EXTENDS PsiphonTransport, FiniteSetTheorems, WellFoundedInduction, TLAPS

-----------------------------------------------------------------------------
(* The inductive invariant, part by part.                                  *)

Phases == {"idle", "establish", "starting", "await", "front", "between", "up",
           "failed", "gone", "torn"}
Rest   == {"idle", "up", "failed", "gone", "torn"}   \* where a stop() is calm
Later  == {"up", "torn", "gone"}                     \* where a front may run
Ended  == {"failed", "gone", "torn"}

Confs  == [egress : Regions \cup {NoRegion}, noReplay : BOOLEAN, avoid : SUBSET Regions]
Libs   == [owner : Tunnels \cup {NoTunnel}, on : BOOLEAN, port : Ports \cup {0},
           region : Regions \cup {NoRegion}, egress : Regions \cup {NoRegion},
           steered : BOOLEAN, avoid : SUBSET Regions]
Events == [kind : {"port", "regions", "connected", "exiting"}, port : Ports \cup {0},
           from : Tunnels]
Claims == [stage : {"claim"}, strategy : {"RECONNECT", "RESTART"},
           target : Regions \cup {NoRegion}]
Calls  == [stage : {"call"}, strategy : {"RECONNECT", "RESTART"}, active : Tunnels]

\* Types that TypeOK leaves to the other parts.
Flags == /\ cancelled \in BOOLEAN /\ stopped \in BOOLEAN /\ connected \in BOOLEAN
         /\ avoidReplay \in BOOLEAN /\ action \in BOOLEAN /\ calmStop \in BOOLEAN /\ strayed \in BOOLEAN
         /\ poll \in {"idle", "check"} /\ graceDeaths \in Nat
Shapes == /\ config \in Confs /\ lib \in Libs /\ events \in Seq(Events)
          /\ rotation \in {NoRotation} \cup Claims \cup Calls
          /\ front \in [running : BOOLEAN, port : Ports \cup {0}]

\* Which attempt the parts belong to, phase by phase.
PhaseInv ==
    /\ pc = "idle" => attempt = 0
    /\ pc \notin {"idle", "failed", "gone"} => attempt > 0
    /\ pc = "between" => attempt < Len(attempts)
    /\ tunnel \in {NoTunnel, attempt}
    /\ pc \in {"idle", "establish", "between"} => tunnel = NoTunnel
    /\ front.running => pc \in Later
    /\ rotation # NoRotation => pc \in Later
    /\ rotation \in Calls => rotation.active = attempt
    /\ pc = "front" => ready \in Ports
    /\ ready = Stopped => cancelled \/ pc \in Ended

\* The library, and who started it.
LibInv ==
    /\ ~lib.on => lib = Off
    /\ lib.on => lib.owner # NoTunnel /\ lib.owner <= attempt
    /\ pc \in {"establish", "starting"} => lib.owner # attempt
    /\ ~stopped /\ lib.on => lib.owner = tunnel
    /\ ~stopped /\ (rotation \in Calls \/ pc \in {"starting", "await", "front", "up", "torn"})
         => tunnel = attempt

CalmInv ==
    stopped /\ calmStop => /\ ~lib.on /\ ~front.running /\ rotation = NoRotation
                           /\ ~action /\ pc \in Rest /\ (pc = "idle" => cancelled)

\* What waits to be delivered.
Waiting == DOMAIN events
Own(i, kinds) == events[i].kind \in kinds /\ events[i].from = attempt

QueueInv ==
    /\ \A i \in Waiting : events[i].from <= attempt /\ (events[i].kind = "port" => events[i].port \in Ports)
    /\ pc \in {"establish", "starting"} => \A i \in Waiting : events[i].from # attempt

\* The last port announced is the library's, delivered or not.
Announced ==
    \/ \E i \in Waiting : /\ events[i].kind = "port" /\ events[i].port = lib.port
                          /\ \A k \in Waiting : k > i => events[k].kind # "port"
    \/ /\ \A i \in Waiting : events[i].kind # "port"
       /\ socksPort = lib.port

TrackInv == ~strayed /\ lib.port # 0 /\ lib.owner = attempt => Announced

\* Before the front is up each attempt has one controller, which announces its
\* port once and before it connects.
Order ==
    /\ lib.on /\ lib.owner = attempt /\ lib.port = 0
         => ready \notin Ports /\ \A i \in Waiting : ~Own(i, {"port", "connected"})
    /\ ready \in Ports
         => ready = socksPort /\ \A i \in Waiting : ~Own(i, {"port"})
    /\ \A i, k \in Waiting : i < k /\ Own(i, {"connected"}) => ~Own(k, {"port"})

FirstInv ==
    /\ ~strayed /\ front.running => front.port = socksPort
    /\ ~strayed /\ pc = "starting" => ready \notin Ports
    /\ ~strayed /\ pc \in {"await", "front"} => Order

\* A steered configuration under Automatic is clean, and so is what runs with it.
SteerInv ==
    /\ config.noReplay /\ wanted = NoRegion /\ config.egress # NoRegion
         => config.egress \in reach \ config.avoid
    /\ AutomaticSteersClean

\* The reading that looked at the deadline before the claim is the only one.
GraceInv == /\ graceDeaths <= 1
            /\ poll = "check" /\ rotationDeadline > 0 => graceDeaths = 0

\* Steering moves the cursor once for each rotation that was counted.
CountInv == /\ pc \in {"idle", "establish", "starting", "await", "front", "between"} => transportDead = 0
            /\ pc = "up" => transportDead < TRANSPORT_DEAD_CONFIRMATIONS
            /\ rotation \in Claims => steerCursor < MaxRotations
            /\ action => /\ steerCursor <= rotations
                         /\ rotation \in Claims => steerCursor < rotations
            /\ pc \notin Later => steerCursor = 0

IInv == /\ TypeOK /\ Flags /\ Shapes /\ PhaseInv /\ LibInv /\ CalmInv /\ FailsOnlyUnfiltered
        /\ QueueInv /\ TrackInv /\ FirstInv /\ SteerInv /\ GraceInv /\ CountInv

-----------------------------------------------------------------------------
(* Operators of the model.                                                 *)

\* A set of numbers has a least element.
LEMMA LeastElement ==
    ASSUME NEW S \in SUBSET Nat, S # {}
    PROVE  \E x \in S : \A y \in S : x <= y
<1>1. \A x, y \in Nat : y < x => <<y, x>> \in OpToRel(<, Nat)
  BY DEF OpToRel
<1>2. \E x \in S : \A y \in S : ~(<<y, x>> \in OpToRel(<, Nat))
  BY NatLessThanWellFounded, WFMin, Zenon
<1>3. PICK x \in S : \A y \in S : ~(y < x)
  BY <1>1, <1>2, Zenon
<1> QED BY <1>3

\* The sorted list of a pool has the pool's members at its positions: by the
\* least position that would have none.
LEMMA AtIsMember ==
    ASSUME NEW S \in SUBSET Nat, IsFiniteSet(S), NEW n \in 0 .. Cardinality(S) - 1
    PROVE  At(S, n) \in S
<1> DEFINE Below(r) == {x \in S : x < r}
           Holes == {i \in 0 .. Cardinality(S) - 1 : ~\E r \in S : Cardinality(Below(r)) = i}
<1>0. Cardinality(S) \in Nat
  BY FS_CardinalityType
<1>s. \A x \in S : x \in Nat
  OBVIOUS
<1>1. \A r \in S : IsFiniteSet(Below(r)) /\ Cardinality(Below(r)) \in Nat
  BY FS_Subset, FS_CardinalityType
<1>2. Holes = {}
  <2> SUFFICES ASSUME Holes # {} PROVE FALSE
    OBVIOUS
  <2>0. Holes \in SUBSET Nat
    BY <1>0
  <2>1. PICK m \in Holes : \A i \in Holes : m <= i
    <3> HIDE DEF Holes
    <3> QED BY <2>0, LeastElement
  <2>2. m \in 0 .. Cardinality(S) - 1 /\ ~\E r \in S : Cardinality(Below(r)) = m
    BY <2>1
  <2>3. CASE m = 0
    <3>1. S # {}
      BY <1>0, <2>2, FS_EmptySet
    <3>2. PICK r \in S : \A y \in S : r <= y
      BY <3>1, LeastElement
    <3>3. Below(r) = {}
      <4>1. \A y \in S : ~(y < r)
        BY <1>s, <3>2
      <4> QED BY <4>1
    <3>4. Cardinality(Below(r)) = 0
      BY <3>3, FS_EmptySet
    <3> QED BY <2>2, <2>3, <3>4
  <2>4. CASE m # 0
    <3>1. m - 1 \in 0 .. Cardinality(S) - 1 /\ ~(m <= m - 1)
      BY <1>0, <2>2, <2>4
    <3>2. PICK r \in S : Cardinality(Below(r)) = m - 1
      BY <2>1, <3>1
    <3>3. Cardinality(Below(r) \cup {r}) = m
      <4>1. r \notin Below(r)
        OBVIOUS
      <4>2. Cardinality(Below(r) \cup {r}) = Cardinality(Below(r)) + 1
        <5> HIDE DEF Below
        <5> QED BY <1>1, <4>1, FS_AddElement
      <4> QED BY <1>0, <2>2, <3>2, <4>2
    <3>4. CASE \A x \in S : x <= r
      <4>1. \A x \in S : x < r \/ x = r
        BY <1>s, <3>4
      <4>2. S = Below(r) \cup {r}
        BY <4>1
      <4>3. Cardinality(S) = m
        BY <3>3, <4>2
      <4> QED BY <1>0, <2>2, <4>3
    <3>5. CASE ~\A x \in S : x <= r
      <4> DEFINE Above == {x \in S : ~(x <= r)}
      <4>1. PICK u \in Above : \A y \in Above : u <= y
        BY <3>5, LeastElement
      <4>2. \A x \in S : x < u <=> (x < r \/ x = r)
        BY <1>s, <4>1
      <4>3. Below(u) = Below(r) \cup {r}
        BY <4>2
      <4> QED BY <2>2, <3>3, <4>1, <4>3
    <3> QED BY <3>4, <3>5
  <2> QED BY <2>3, <2>4
<1>3. \E r \in S : Cardinality(Below(r)) = n
  BY <1>2
<1> QED BY <1>3 DEF At

\* One attempt under Automatic, two for a chosen region; the last has no filter.
LEMMA AttemptsFacts ==
    ASSUME wanted \in Wishes
    PROVE  /\ Len(attempts) \in {1, 2} /\ attempts[Len(attempts)] = NoRegion
           /\ \A i \in 1 .. Len(attempts) : attempts[i] \in Regions \cup {NoRegion}
           /\ wanted = NoRegion => \A i \in 1 .. Len(attempts) : attempts[i] = NoRegion
BY TransportAssumption DEF attempts

\* What the tail of the queue is, and what an event appended to it is.
LEMMA TailFacts ==
    ASSUME events \in Seq(Events), events # <<>>, events' = Tail(events)
    PROVE  /\ events' \in Seq(Events) /\ 1 \in Waiting /\ Head(events) = events[1]
           /\ \A i \in Waiting' : i \in Nat /\ i + 1 \in Waiting /\ events'[i] = events[i + 1]
           /\ \A i \in Waiting : i \in Nat /\ i >= 1
           /\ \A i \in Waiting : i # 1 => i - 1 \in Waiting' /\ events'[i - 1] = events[i]
<1>1. /\ events' \in Seq(Events) /\ Head(events) = events[1] /\ Len(events) \in Nat \ {0}
      /\ Len(events') = Len(events) - 1
      /\ \A i \in 1 .. Len(events') : events'[i] = events[i + 1]
  OBVIOUS
<1>2. Waiting = 1 .. Len(events) /\ Waiting' = 1 .. Len(events')
  BY <1>1 DEF Waiting
<1>3. 1 \in Waiting /\ \A i \in Waiting : i \in Nat /\ i >= 1
  BY <1>1, <1>2
<1>4. \A i \in Waiting' : i \in Nat /\ i + 1 \in Waiting /\ events'[i] = events[i + 1]
  BY <1>1, <1>2
<1>5. \A i \in Waiting : i # 1 => i - 1 \in Waiting' /\ events'[i - 1] = events[i]
  <2> SUFFICES ASSUME NEW i \in Waiting, i # 1
               PROVE  i - 1 \in Waiting' /\ events'[i - 1] = events[i]
    OBVIOUS
  <2>1. i - 1 \in 1 .. Len(events') /\ (i - 1) + 1 = i
    BY <1>1, <1>2
  <2> QED BY <1>1, <1>2, <2>1
<1> QED BY <1>1, <1>3, <1>4, <1>5

LEMMA AppendFacts ==
    ASSUME events \in Seq(Events), NEW e \in Events, events' = Append(events, e)
    PROVE  /\ events' \in Seq(Events)
           /\ Waiting' = Waiting \cup {Len(events) + 1} /\ events'[Len(events) + 1] = e
           /\ \A i \in Waiting : i \in Nat /\ i < Len(events) + 1 /\ events'[i] = events[i]
           /\ Len(events) + 1 \in Nat
<1>1. /\ events' \in Seq(Events) /\ Len(events) \in Nat /\ Len(events') = Len(events) + 1
      /\ events'[Len(events) + 1] = e
      /\ \A i \in 1 .. Len(events) : events'[i] = events[i]
  OBVIOUS
<1>2. Waiting = 1 .. Len(events) /\ Waiting' = 1 .. Len(events')
  BY <1>1 DEF Waiting
<1> QED BY <1>1, <1>2

\* A delivery is one of the four callbacks.
LEMMA DeliverCases ==
    ASSUME Shapes, Deliver
    PROVE  /\ events # <<>> /\ events' = Tail(events) /\ Head(events) = events[1] /\ events[1] \in Events
           /\ \/ events[1].kind = "port" /\ onListeningSocksProxyPort(events[1].port)
              \/ events[1].kind = "connected" /\ onConnected
              \/ events[1].kind = "exiting" /\ onExiting
              \/ events[1].kind = "regions" /\ onAvailableEgressRegions
<1>1. events # <<>> /\ events' = Tail(events) /\ events \in Seq(Events)
  BY DEF Deliver, Shapes
<1>2. Head(events) = events[1] /\ events[1] \in Events
  BY <1>1
<1>3. events[1].kind \in {"port", "regions", "connected", "exiting"}
  BY <1>2 DEF Events
<1>4. Callback(events[1])
  BY <1>2 DEF Deliver
<1> QED BY <1>1, <1>2, <1>3, <1>4 DEF Callback

-----------------------------------------------------------------------------
(* Types.                                                                  *)

LEMMA FlagsStep ==
    ASSUME TypeOK, Flags, Shapes, [Next]_vars
    PROVE  Flags' /\ wanted' = wanted /\ reach' = reach
<1> USE DEF Flags, session, steering, fields, health, loop
<1>1. CASE start
  BY <1>1 DEF start
<1>2. CASE establish
  BY <1>2 DEF establish
<1>3. CASE startTunneling
  BY <1>3 DEF startTunneling, AttemptFails, stopTunnelQuietly
<1>4. CASE awaitTimeout
  BY <1>4 DEF awaitTimeout, AttemptFails, stopTunnelQuietly
<1>5. CASE awaitReady
  BY <1>5 DEF awaitReady, AttemptFails, stopTunnelQuietly
<1>6. CASE startFront
  BY <1>6 DEF startFront, AttemptFails, stopTunnelQuietly
<1>7. CASE between
  BY <1>7 DEF between, stopTunnelQuietly
<1>8. CASE maybeRotate
  BY <1>8 DEF maybeRotate
<1>9. CASE rotateServer
  <2>1. graceDeaths' \in Nat
    BY <1>9 DEF rotateServer
  <2>2. avoidReplay' \in BOOLEAN
    BY <1>9 DEF rotateServer, prepareSteeredConfig
  <2> QED BY <1>9, <2>1, <2>2 DEF rotateServer
<1>10. CASE psiphonRotate
  BY <1>10 DEF psiphonRotate
<1>11. CASE Tick
  BY <1>11 DEF Tick
<1>12. CASE rotating
  BY <1>12 DEF rotating
<1>13. CASE isAlive
  BY <1>13 DEF isAlive, countReading
<1>14. CASE cancel
  BY <1>14 DEF cancel
<1>15. CASE leaveLoop
  BY <1>15 DEF leaveLoop
<1>16. CASE stop
  <2>1. calmStop' \in BOOLEAN
    BY <1>16, Zenon DEF stop
  <2> QED BY <1>16, <2>1 DEF stop, stopTunnelQuietly
<1>17. CASE Listen
  BY <1>17 DEF Listen
<1>18. CASE ReportRegions
  BY <1>18 DEF ReportRegions
<1>19. CASE Connect
  BY <1>19 DEF Connect
<1>20. CASE Lose
  BY <1>20 DEF Lose
<1>21. CASE GiveUp
  BY <1>21 DEF GiveUp
<1>22. CASE Deliver
  <2>1. strayed' \in BOOLEAN
    BY <1>22, Zenon DEF Deliver
  <2>2. connected' \in BOOLEAN
    BY <1>22, DeliverCases DEF onListeningSocksProxyPort, onConnected, onExiting, onAvailableEgressRegions
  <2> QED BY <1>22, <2>1, <2>2 DEF Deliver
<1>23. CASE UNCHANGED vars
  BY <1>23 DEF vars
<1> QED BY <1>1, <1>2, <1>3, <1>4, <1>5, <1>6, <1>7, <1>8, <1>9, <1>10, <1>11, <1>12, <1>13, <1>14, <1>15, <1>16, <1>17, <1>18, <1>19, <1>20, <1>21, <1>22, <1>23 DEF Next

\* The events of the library.
LEMMA NotifyType ==
    ASSUME Shapes, LibInv, lib.on, NEW kind \in {"port", "regions", "connected", "exiting"},
           NEW p \in Ports \cup {0}
    PROVE  [kind |-> kind, port |-> p, from |-> lib.owner] \in Events
BY DEF Shapes, LibInv, Libs, Events

LEMMA ExitingType ==
    ASSUME Shapes, LibInv
    PROVE  Exiting \in Seq(Events)
<1>1. CASE lib.on
  BY <1>1, NotifyType DEF Exiting, Notify, Shapes
<1>2. CASE ~lib.on
  BY <1>2 DEF Exiting, Shapes
<1> QED BY <1>1, <1>2

LEMMA OffType == Off \in Libs /\ NoFront \in [running : BOOLEAN, port : Ports \cup {0}]
BY DEF Off, Libs, NoTunnel, NoRegion, NoFront

LEMMA StartedType ==
    ASSUME NEW c \in Tunnels, NEW conf \in Confs
    PROVE  Started(c, conf) \in Libs
BY DEF Started, Confs, Libs, NoRegion

\* The regions a steered configuration may name.
LEMMA PoolFacts ==
    ASSUME TypeOK, NEW target \in Regions \cup {NoRegion}
    PROVE  /\ Bad(target) \in SUBSET Regions
           /\ Pool(target) \in SUBSET Nat /\ IsFiniteSet(Pool(target))
           /\ Pool(target) \subseteq reach \ Bad(target)
<1>1. Pool(target) \subseteq Regions /\ Bad(target) \subseteq Regions
      /\ Pool(target) \subseteq reach \ Bad(target)
  BY DEF TypeOK, Pool, Bad
<1>2. IsFiniteSet(Pool(target))
  BY <1>1, FS_Subset, TransportAssumption
<1> QED BY <1>1, <1>2, TransportAssumption

LEMMA AwayIsClean ==
    ASSUME TypeOK, NEW target \in Regions \cup {NoRegion}, nextEgressAway(target) # NoRegion
    PROVE  nextEgressAway(target) \in reach \ Bad(target)
<1>1. Pool(target) # {}
  BY DEF nextEgressAway
<1>2. Cardinality(Pool(target)) \in Nat \ {0}
  BY <1>1, PoolFacts, FS_CardinalityType, FS_EmptySet
<1>3. steerCursor % Cardinality(Pool(target)) \in 0 .. Cardinality(Pool(target)) - 1
  BY <1>2, TransportAssumption DEF TypeOK
<1>4. At(Pool(target), steerCursor % Cardinality(Pool(target))) \in Pool(target)
  BY <1>3, PoolFacts, AtIsMember
<1> QED BY <1>1, <1>4, PoolFacts DEF nextEgressAway

LEMMA AwayType ==
    ASSUME TypeOK, NEW target \in Regions \cup {NoRegion}
    PROVE  nextEgressAway(target) \in Regions \cup {NoRegion}
BY AwayIsClean DEF TypeOK

LEMMA ShapesStep ==
    ASSUME TypeOK, Flags, Shapes, PhaseInv, LibInv, [Next]_vars
    PROVE  Shapes'
<1>0. /\ config \in Confs /\ lib \in Libs /\ events \in Seq(Events)
      /\ rotation \in {NoRotation} \cup Claims \cup Calls
      /\ front \in [running : BOOLEAN, port : Ports \cup {0}]
      /\ NoRotation.stage = "none" /\ Ports \subseteq Nat \ {0}
  BY TransportAssumption DEF Shapes, NoRotation
<1>q. /\ stopTunnelQuietly => /\ lib' \in Libs /\ events' \in Seq(Events)
                              /\ front' \in [running : BOOLEAN, port : Ports \cup {0}]
  BY <1>0, OffType, ExitingType DEF stopTunnelQuietly
<1>a. AttemptFails => Shapes'
  BY <1>0, <1>q DEF AttemptFails, steering, Shapes
<1>1. CASE start \/ Tick \/ rotating \/ isAlive \/ cancel \/ leaveLoop
  BY <1>0, <1>1 DEF start, Tick, rotating, isAlive, cancel, leaveLoop, steering, Shapes
<1>2. CASE establish
  <2>1. attempt \in 1 .. Len(attempts)
    BY <1>2, AttemptsFacts DEF TypeOK, PhaseInv, establish
  <2>2. attempts[attempt] \in Regions \cup {NoRegion}
    BY <2>1, AttemptsFacts DEF TypeOK
  <2>3. avoidReplay \in BOOLEAN
    BY DEF Flags
  <2>4. buildConfig(attempts[attempt], avoidReplay, {}) \in Confs
    BY <2>2, <2>3 DEF buildConfig, Confs
  <2> QED BY <1>0, <1>2, <2>4 DEF establish, Shapes
<1>3. CASE startTunneling
  <2>1. attempt \in Tunnels
    BY <1>3, AttemptsFacts DEF TypeOK, PhaseInv, startTunneling, Tunnels
  <2>2. CASE AttemptFails
    BY <1>a, <2>2
  <2>3. CASE ~AttemptFails
    BY <1>0, <1>3, <2>1, <2>3, StartedType, ExitingType DEF startTunneling, steering, Shapes
  <2> QED BY <2>2, <2>3
<1>4. CASE awaitTimeout \/ awaitReady
  BY <1>0, <1>4, <1>a DEF awaitTimeout, awaitReady, steering, Shapes
<1>5. CASE startFront
  <2>1. CASE AttemptFails
    BY <1>a, <2>1
  <2>2. CASE ~AttemptFails
    <3>1. ready \in Ports
      BY <1>5 DEF startFront, PhaseInv
    <3>2. front' = front \/ front' = [running |-> TRUE, port |-> ready]
      BY <1>5, <2>2 DEF startFront
    <3>3. [running |-> TRUE, port |-> ready] \in [running : BOOLEAN, port : Ports \cup {0}]
      BY <3>1
    <3> QED BY <1>0, <1>5, <2>2, <3>2, <3>3 DEF startFront, steering, Shapes
  <2> QED BY <2>1, <2>2
<1>6. CASE between \/ stop
  BY <1>0, <1>6, <1>q DEF between, stop, steering, Shapes
<1>7. CASE maybeRotate
  <2>1. rotation' \in Claims
    BY <1>0, <1>7 DEF maybeRotate, Claims, Libs
  <2> QED BY <1>0, <1>7, <2>1 DEF maybeRotate, steering, Shapes
<1>8. CASE rotateServer
  <2>1. rotation \in Claims
    BY <1>0, <1>8 DEF rotateServer, Calls
  <2>2. /\ rotation.target \in Regions \cup {NoRegion} /\ wanted \in Regions \cup {NoRegion}
        /\ rotation.strategy \in {"RECONNECT", "RESTART"} /\ tunnel \in Tunnels \cup {NoTunnel}
    BY <2>1, TransportAssumption DEF Claims, TypeOK
  <2>3. config' \in Confs
    <3>1. CASE config' = config
      BY <1>0, <3>1
    <3>2. CASE prepareSteeredConfig(rotation.target)
      <4>1. PICK e \in Regions \cup {NoRegion} : config' = buildConfig(e, TRUE, Bad(rotation.target))
        BY <2>2, <3>2, AwayType DEF prepareSteeredConfig
      <4>2. Bad(rotation.target) \in SUBSET Regions
        BY <2>2, PoolFacts
      <4> QED BY <4>1, <4>2 DEF buildConfig, Confs
    <3> QED BY <1>8, <3>1, <3>2 DEF rotateServer
  <2>4. rotation' \in {NoRotation} \cup Calls
    BY <1>8, <2>2 DEF rotateServer, Calls
  <2> QED BY <1>0, <1>8, <2>3, <2>4 DEF rotateServer, Shapes
<1>9. CASE psiphonRotate
  <2>1. rotation \in Calls
    BY <1>0, <1>9 DEF psiphonRotate, Claims
  <2>2. rotation.active \in Tunnels
    BY <2>1 DEF Calls
  <2>3. [lib EXCEPT !.region = NoRegion] \in Libs
    BY <1>0 DEF Libs
  <2>4. lib' \in Libs /\ events' \in Seq(Events) /\ rotation' = NoRotation
    BY <1>0, <1>9, <2>2, <2>3, StartedType, OffType, ExitingType DEF psiphonRotate
  <2> QED BY <1>0, <1>9, <2>4 DEF psiphonRotate, steering, Shapes
<1>10. CASE Listen
  <2>1. PICK p \in Ports : /\ lib' = [lib EXCEPT !.port = p]
                           /\ events' = Append(events, [kind |-> "port", port |-> p, from |-> lib.owner])
    BY <1>10 DEF Listen, Notify
  <2>2. lib' \in Libs
    BY <1>0, <2>1 DEF Libs
  <2>3. [kind |-> "port", port |-> p, from |-> lib.owner] \in Events
    BY <1>10, NotifyType DEF Listen
  <2>4. events' \in Seq(Events)
    BY <1>0, <2>1, <2>3
  <2>5. config' = config /\ rotation' = rotation /\ front' = front
    BY <1>10 DEF Listen, steering
  <2> QED BY <1>0, <2>2, <2>4, <2>5 DEF Shapes
<1>11. CASE ReportRegions
  BY <1>0, <1>11, NotifyType DEF ReportRegions, Notify, steering, Shapes
<1>12. CASE Connect
  <2>1. lib' \in Libs
    BY <1>0, <1>12 DEF Connect, Libs, TypeOK
  <2> QED BY <1>0, <1>12, <2>1, NotifyType DEF Connect, Notify, steering, Shapes
<1>13. CASE Lose
  <2>1. lib' \in Libs
    BY <1>0, <1>13 DEF Lose, Libs
  <2> QED BY <1>0, <1>13, <2>1 DEF Lose, steering, Shapes
<1>14. CASE GiveUp
  BY <1>0, <1>14, OffType, ExitingType DEF GiveUp, steering, Shapes
<1>15. CASE Deliver
  <2>1. events' \in Seq(Events) /\ config' = config /\ lib' = lib /\ rotation' = rotation
    BY <1>0, <1>15, TailFacts DEF Deliver
  <2>2. front' \in [running : BOOLEAN, port : Ports \cup {0}]
    <3>1. \A p \in Ports \cup {0} : retarget(p) \in [running : BOOLEAN, port : Ports \cup {0}]
      BY <1>0 DEF retarget
    <3>2. events[1].port \in Ports \cup {0}
      BY <1>15, DeliverCases DEF Events
    <3> QED BY <1>0, <1>15, <3>1, <3>2, DeliverCases
          DEF onListeningSocksProxyPort, onConnected, onExiting, onAvailableEgressRegions
  <2> QED BY <1>0, <2>1, <2>2 DEF Shapes
<1>16. CASE UNCHANGED vars
  BY <1>0, <1>16 DEF vars, steering, Shapes
<1> QED BY <1>1, <1>2, <1>3, <1>4, <1>5, <1>6, <1>7, <1>8, <1>9, <1>10, <1>11, <1>12, <1>13,
           <1>14, <1>15, <1>16 DEF Next

\* What a step may do to the numbers.
LEMMA TypeStep ==
    ASSUME TypeOK, Flags, Shapes, PhaseInv, CountInv, QueueInv, Shapes', wanted' = wanted, reach' = reach,
           [Next]_vars
    PROVE  TypeOK'
<1>0. /\ wanted \in Wishes /\ reach \subseteq Regions /\ attempt \in 0 .. Len(attempts)
      /\ pc \in Phases
      /\ ready \in Ports \cup {Pending, Failed, Stopped} /\ socksPort \in Ports
      /\ tunnel \in Tunnels \cup {NoTunnel}
      /\ rotationDeadline \in NoDeadline .. ROTATION_GRACE
      /\ availableRegions \subseteq reach /\ steerCursor \in 0 .. MaxRotations
      /\ (front.running => front.port \in Ports)
      /\ filtering \subseteq Regions /\ rotations \in 0 .. MaxRotations
      /\ transportDead \in 0 .. TRANSPORT_DEAD_CONFIRMATIONS
  BY DEF TypeOK, Phases
<1>b. /\ ROTATION_GRACE \in Nat \ {0} /\ TRANSPORT_DEAD_CONFIRMATIONS \in Nat \ {0}
      /\ MaxRotations \in Nat /\ localSocksPort \in Ports
      /\ Len(attempts) \in {1, 2} /\ attempts' = attempts /\ NoDeadline = -1
  BY <1>0, TransportAssumption, AttemptsFacts DEF attempts, NoDeadline
<1>c. config'.egress \in Regions \cup {NoRegion} /\ lib'.egress \in Regions \cup {NoRegion}
  BY DEF Shapes, Confs, Libs
<1>t. SUFFICES /\ attempt' \in 0 .. Len(attempts) /\ pc' \in Phases
               /\ ready' \in Ports \cup {Pending, Failed, Stopped} /\ socksPort' \in Ports
               /\ tunnel' \in Tunnels \cup {NoTunnel}
               /\ rotationDeadline' \in NoDeadline .. ROTATION_GRACE
               /\ availableRegions' \subseteq reach /\ steerCursor' \in 0 .. MaxRotations
               /\ (front'.running => front'.port \in Ports)
               /\ filtering' \subseteq Regions /\ rotations' \in 0 .. MaxRotations
               /\ transportDead' \in 0 .. TRANSPORT_DEAD_CONFIRMATIONS
  BY <1>0, <1>b, <1>c DEF TypeOK, Phases
<1>a. AttemptFails => /\ pc' \in {"between", "failed"} /\ front' = NoFront /\ tunnel' = NoTunnel
                      /\ UNCHANGED <<attempt, ready, socksPort, rotationDeadline, availableRegions,
                                     steerCursor, filtering, rotations, transportDead>>
  BY DEF AttemptFails, stopTunnelQuietly, steering, health, loop
<1> USE DEF session, steering, fields, health, loop, Phases, NoFront
<1>1. CASE start
  BY <1>0, <1>b, <1>1 DEF start
<1>2. CASE establish
  <2>1. attempt \in Tunnels
    BY <1>0, <1>b, <1>2 DEF establish, PhaseInv, Tunnels
  <2> QED BY <1>0, <1>b, <1>2, <2>1 DEF establish
<1>3. CASE startTunneling
  BY <1>0, <1>b, <1>a, <1>3 DEF startTunneling
<1>4. CASE awaitTimeout
  BY <1>0, <1>b, <1>a, <1>4 DEF awaitTimeout
<1>5. CASE awaitReady
  BY <1>0, <1>b, <1>a, <1>5 DEF awaitReady
<1>6. CASE startFront
  <2>1. ready \in Ports
    BY <1>6 DEF startFront, PhaseInv
  <2>2. CASE AttemptFails
    BY <1>0, <1>a, <2>2
  <2>3. CASE ~AttemptFails
    <3>1. /\ front' = front \/ front' = [running |-> TRUE, port |-> ready]
          /\ pc' = "up"
          /\ UNCHANGED <<attempt, ready, socksPort, tunnel, rotationDeadline, availableRegions,
                         steerCursor, filtering, rotations, transportDead>>
      BY <1>6, <2>3 DEF startFront
    <3> QED BY <1>0, <2>1, <3>1
  <2> QED BY <2>2, <2>3
<1>7. CASE between
  <2>1. attempt < Len(attempts)
    BY <1>7 DEF between, PhaseInv
  <2> QED BY <1>0, <1>b, <1>7, <2>1 DEF between, stopTunnelQuietly
<1>8. CASE maybeRotate
  <2>1. lib.region \in Regions \cup {NoRegion}
    BY DEF Shapes, Libs
  <2>2. filtering' \subseteq Regions
    BY <1>0, <1>8, <2>1 DEF maybeRotate
  <2>3. rotations' \in 0 .. MaxRotations
    BY <1>0, <1>b, <1>8 DEF maybeRotate
  <2> QED BY <1>0, <1>8, <2>2, <2>3 DEF maybeRotate
<1>9. CASE rotateServer
  <2>1. rotation \in Claims
    BY <1>9 DEF rotateServer, Shapes, Calls, NoRotation
  <2>2. steerCursor + 1 \in 0 .. MaxRotations
    BY <1>0, <1>b, <2>1 DEF CountInv
  <2>3. steerCursor' \in {steerCursor, steerCursor + 1}
    BY <1>9 DEF rotateServer, prepareSteeredConfig
  <2>4. /\ rotationDeadline' \in {rotationDeadline, ROTATION_GRACE}
        /\ UNCHANGED <<pc, attempt, ready, socksPort, tunnel, availableRegions, front, filtering,
                       rotations, transportDead>>
    BY <1>9 DEF rotateServer
  <2> QED BY <1>0, <1>b, <2>2, <2>3, <2>4
<1>10. CASE psiphonRotate
  BY <1>0, <1>b, <1>10 DEF psiphonRotate
<1>11. CASE Tick
  BY <1>0, <1>b, <1>11 DEF Tick
<1>12. CASE rotating
  BY <1>0, <1>b, <1>12 DEF rotating
<1>13. CASE isAlive
  <2>1. transportDead < TRANSPORT_DEAD_CONFIRMATIONS
    BY <1>13 DEF isAlive, CountInv
  <2>2. pc' \in {pc, "torn"} /\ transportDead' \in {0, transportDead + 1}
    BY <1>13 DEF isAlive, countReading
  <2> QED BY <1>0, <1>b, <1>13, <2>1, <2>2 DEF isAlive
<1>14. CASE cancel
  BY <1>0, <1>b, <1>14 DEF cancel
<1>15. CASE leaveLoop
  BY <1>0, <1>b, <1>15 DEF leaveLoop
<1>16. CASE stop
  BY <1>0, <1>b, <1>16 DEF stop, stopTunnelQuietly
<1>17. CASE Listen
  BY <1>0, <1>b, <1>17 DEF Listen
<1>18. CASE ReportRegions
  BY <1>0, <1>b, <1>18 DEF ReportRegions
<1>19. CASE Connect
  BY <1>0, <1>b, <1>19 DEF Connect
<1>20. CASE Lose
  BY <1>0, <1>b, <1>20 DEF Lose
<1>21. CASE GiveUp
  BY <1>0, <1>b, <1>21 DEF GiveUp
<1>22. CASE Deliver
  <2>1. events[1].kind = "port" => events[1].port \in Ports
    BY <1>22, DeliverCases, TailFacts DEF QueueInv, Shapes
  <2>2. \A p \in Ports : retarget(p).running => retarget(p).port \in Ports
    <3>1. front \in [running : BOOLEAN, port : Ports \cup {0}]
      BY DEF Shapes
    <3> QED BY <1>0, <3>1 DEF retarget
  <2>3. UNCHANGED <<pc, attempt, steerCursor, filtering, rotations, transportDead>>
    BY <1>22 DEF Deliver
  <2>4. /\ ready' \in Ports \cup {Pending, Failed, Stopped} /\ socksPort' \in Ports
        /\ tunnel' = tunnel /\ rotationDeadline' \in {rotationDeadline, NoDeadline}
        /\ availableRegions' \subseteq reach
        /\ (front'.running => front'.port \in Ports)
    BY <1>0, <1>22, <2>1, <2>2, DeliverCases
       DEF onListeningSocksProxyPort, onConnected, onExiting, onAvailableEgressRegions
  <2> QED BY <1>0, <1>b, <2>3, <2>4
<1>23. CASE UNCHANGED vars
  BY <1>0, <1>b, <1>23 DEF vars
<1> QED BY <1>1, <1>2, <1>3, <1>4, <1>5, <1>6, <1>7, <1>8, <1>9, <1>10, <1>11, <1>12, <1>13, <1>14, <1>15, <1>16, <1>17, <1>18, <1>19, <1>20, <1>21, <1>22, <1>23 DEF Next

-----------------------------------------------------------------------------
(* Phases, the library and the ends.                                       *)

LEMMA PhaseStep ==
    ASSUME TypeOK, Flags, Shapes, PhaseInv, wanted' = wanted, [Next]_vars
    PROVE  PhaseInv'
<1>0. /\ attempt \in 0 .. Len(attempts) /\ Len(attempts) \in {1, 2} /\ attempts' = attempts
      /\ pc \in Phases /\ ready \in Ports \cup {Pending, Failed, Stopped}
      /\ Pending \notin Ports /\ Failed \notin Ports /\ Stopped \notin Ports
      /\ Pending # Stopped /\ Failed # Stopped
      /\ rotation \in {NoRotation} \cup Claims \cup Calls
      /\ NoRotation \notin Claims \cup Calls /\ Claims \cap Calls = {}
  BY AttemptsFacts, TransportAssumption
     DEF TypeOK, Phases, Shapes, attempts, NoRotation, Claims, Calls, Pending, Failed, Stopped
<1>a. AttemptFails => /\ pc' = (IF attempt < Len(attempts) THEN "between" ELSE "failed")
                      /\ front' = NoFront /\ tunnel' = NoTunnel
                      /\ attempt' = attempt /\ ready' = ready /\ rotation' = rotation
                      /\ cancelled' = cancelled
  BY DEF AttemptFails, stopTunnelQuietly
<1> USE DEF PhaseInv, session, fields, health, Phases, Later, Ended, NoFront
<1>1. CASE start
  BY <1>0, <1>1 DEF start
<1>2. CASE establish
  BY <1>0, <1>2 DEF establish
<1>3. CASE startTunneling
  BY <1>0, <1>a, <1>3 DEF startTunneling
<1>4. CASE awaitTimeout
  BY <1>0, <1>a, <1>4 DEF awaitTimeout
<1>5. CASE awaitReady
  BY <1>0, <1>a, <1>5 DEF awaitReady
<1>6. CASE startFront
  BY <1>0, <1>a, <1>6 DEF startFront
<1>7. CASE between
  BY <1>0, <1>7 DEF between, stopTunnelQuietly
<1>8. CASE maybeRotate
  <2>1. rotation' \notin Calls
    BY <1>8 DEF maybeRotate, Calls
  <2> QED BY <1>0, <1>8, <2>1 DEF maybeRotate
<1>9. CASE rotateServer
  <2>1. rotation # NoRotation
    BY <1>9 DEF rotateServer, NoRotation
  <2>2. UNCHANGED <<pc, attempt, tunnel, front, ready, cancelled>>
    BY <1>9 DEF rotateServer
  <2>3. rotation' \in Calls => rotation'.active = attempt
    <3>1. rotation' = NoRotation \/ (tunnel # NoTunnel /\ rotation'.active = tunnel)
      BY <1>9 DEF rotateServer
    <3> QED BY <1>0, <3>1
  <2> QED BY <1>0, <2>1, <2>2, <2>3
<1>10. CASE psiphonRotate
  BY <1>0, <1>10 DEF psiphonRotate
<1>11. CASE isAlive
  BY <1>0, <1>11 DEF isAlive, countReading
<1>12. CASE cancel
  BY <1>0, <1>12 DEF cancel
<1>13. CASE leaveLoop
  BY <1>0, <1>13 DEF leaveLoop
<1>14. CASE stop
  BY <1>0, <1>14 DEF stop, stopTunnelQuietly
<1>15. CASE Deliver
  <2>1. UNCHANGED <<pc, attempt, tunnel, rotation, cancelled>> /\ front'.running = front.running
    <3>1. \A p : retarget(p).running = front.running
      BY DEF retarget, Shapes
    <3> QED BY <1>15, <3>1, DeliverCases
          DEF Deliver, onListeningSocksProxyPort, onConnected, onExiting, onAvailableEgressRegions
  <2>2. ready # Pending => ready' = ready
    BY <1>15, DeliverCases
       DEF onListeningSocksProxyPort, onConnected, onExiting, onAvailableEgressRegions
  <2>3. ready = Pending => ready' # Stopped
    BY <1>0, <1>15, DeliverCases, TransportAssumption
       DEF onListeningSocksProxyPort, onConnected, onExiting, onAvailableEgressRegions, TypeOK
  <2> QED BY <1>0, <2>1, <2>2, <2>3
<1>16. CASE Tick \/ Listen \/ ReportRegions \/ Connect \/ Lose \/ GiveUp \/ rotating
  BY <1>0, <1>16 DEF Tick, Listen, ReportRegions, Connect, Lose, GiveUp, rotating
<1>17. CASE UNCHANGED vars
  BY <1>0, <1>17 DEF vars
<1> QED BY <1>1, <1>2, <1>3, <1>4, <1>5, <1>6, <1>7, <1>8, <1>9, <1>10, <1>11, <1>12, <1>13, <1>14, <1>15, <1>16, <1>17 DEF Next

LEMMA FailsOnlyStep ==
    ASSUME TypeOK, PhaseInv, FailsOnlyUnfiltered, wanted' = wanted, [Next]_vars
    PROVE  FailsOnlyUnfiltered'
<1>0. /\ attempt \in 0 .. Len(attempts) /\ Len(attempts) \in {1, 2} /\ attempts' = attempts
      /\ attempts[Len(attempts)] = NoRegion /\ pc \in Phases
  BY AttemptsFacts DEF TypeOK, Phases, attempts
<1>a. AttemptFails => /\ pc' = (IF attempt < Len(attempts) THEN "between" ELSE "failed")
                      /\ attempt' = attempt /\ cancelled' = cancelled
  BY DEF AttemptFails
<1>z. pc = "await" /\ ready = Stopped => cancelled
  BY DEF PhaseInv, Ended
<1> USE DEF FailsOnlyUnfiltered, PhaseInv, session
<1>1. CASE start
  BY <1>0, <1>1 DEF start
<1>2. CASE establish
  BY <1>0, <1>2 DEF establish
<1>3. CASE startTunneling
  BY <1>0, <1>a, <1>3 DEF startTunneling
<1>4. CASE awaitTimeout
  BY <1>0, <1>a, <1>4 DEF awaitTimeout
<1>5. CASE awaitReady
  BY <1>0, <1>5, <1>a, <1>z DEF awaitReady
<1>6. CASE startFront
  BY <1>0, <1>a, <1>6 DEF startFront
<1>7. CASE between
  BY <1>0, <1>7 DEF between, stopTunnelQuietly
<1>8. CASE isAlive
  BY <1>0, <1>8 DEF isAlive, countReading
<1>9. CASE cancel
  BY <1>0, <1>9 DEF cancel
<1>10. CASE leaveLoop
  BY <1>0, <1>10 DEF leaveLoop
<1>11. CASE maybeRotate \/ rotateServer \/ psiphonRotate \/ Tick \/ rotating \/ Listen \/ ReportRegions \/ Connect \/ Lose \/ GiveUp \/ stop
  BY <1>0, <1>11 DEF maybeRotate, rotateServer, psiphonRotate, Tick, rotating, Listen, ReportRegions, Connect, Lose, GiveUp, stop, stopTunnelQuietly
<1>12. CASE Deliver
  BY <1>0, <1>12 DEF Deliver
<1>13. CASE UNCHANGED vars
  BY <1>0, <1>13 DEF vars
<1> QED BY <1>1, <1>2, <1>3, <1>4, <1>5, <1>6, <1>7, <1>8, <1>9, <1>10, <1>11, <1>12, <1>13 DEF Next

LEMMA LibStep ==
    ASSUME TypeOK, Flags, Shapes, PhaseInv, LibInv, wanted' = wanted, [Next]_vars
    PROVE  LibInv'
<1>0. /\ attempt \in 0 .. Len(attempts) /\ Len(attempts) \in {1, 2} /\ attempts' = attempts
      /\ attempts[Len(attempts)] = NoRegion /\ pc \in Phases
  BY AttemptsFacts DEF TypeOK, Phases, attempts
<1>l. /\ lib \in Libs /\ lib.owner \in 0 .. 2 /\ Off.owner = NoTunnel /\ ~Off.on /\ NoTunnel = 0
      /\ rotation \in {NoRotation} \cup Claims \cup Calls
      /\ NoRotation \notin Claims \cup Calls /\ Claims \cap Calls = {}
  BY DEF Shapes, Libs, Tunnels, NoTunnel, Off, NoRotation, Claims, Calls
<1>q. stopTunnelQuietly => /\ tunnel' = NoTunnel
                           /\ lib' = Off \/ (lib' = lib /\ (tunnel = NoTunnel \/ lib.owner # tunnel))
  BY DEF stopTunnelQuietly
<1>a. AttemptFails => /\ pc' \in {"between", "failed"} /\ stopTunnelQuietly
                      /\ attempt' = attempt /\ stopped' = stopped /\ rotation' = rotation
  BY DEF AttemptFails
<1>r. pc \notin Later => rotation = NoRotation
  BY DEF PhaseInv
<1> USE DEF LibInv, PhaseInv, session, fields, Phases, Later
<1>1. CASE start
  BY <1>0, <1>l, <1>r, <1>1 DEF start
<1>2. CASE establish
  BY <1>0, <1>l, <1>r, <1>2 DEF establish
<1>3. CASE startTunneling
  BY <1>0, <1>l, <1>a, <1>q, <1>r, <1>3 DEF startTunneling, Started
<1>4. CASE awaitTimeout
  BY <1>0, <1>l, <1>a, <1>q, <1>r, <1>4 DEF awaitTimeout
<1>5. CASE awaitReady
  BY <1>0, <1>l, <1>a, <1>q, <1>r, <1>5 DEF awaitReady
<1>6. CASE startFront
  BY <1>0, <1>l, <1>a, <1>q, <1>r, <1>6 DEF startFront
<1>7. CASE between
  BY <1>0, <1>l, <1>q, <1>r, <1>7 DEF between
<1>8. CASE maybeRotate
  <2>1. rotation' \notin Calls /\ UNCHANGED <<pc, attempt, stopped, tunnel, lib>>
    BY <1>8 DEF maybeRotate, Calls
  <2> QED BY <1>l, <2>1
<1>9. CASE rotateServer
  <2>1. UNCHANGED <<pc, attempt, stopped, tunnel, lib>>
    BY <1>9 DEF rotateServer
  <2>2. rotation' \in Calls => tunnel # NoTunnel
    BY <1>l, <1>9 DEF rotateServer
  <2> QED BY <1>l, <2>1, <2>2
<1>10. CASE psiphonRotate
  <2>1. rotation \in Calls
    BY <1>l, <1>10 DEF psiphonRotate, Claims, NoRotation
  <2>2. rotation.active = attempt /\ pc \in Later /\ rotation # NoRotation /\ attempt # 0
    <3>1. rotation.active \in Tunnels
      BY <2>1 DEF Calls
    <3> QED BY <1>l, <2>1, <3>1 DEF Tunnels
  <2>3. /\ lib' = lib \/ lib' = Off \/ lib' = Started(attempt, config)
           \/ (lib' = [lib EXCEPT !.region = NoRegion] /\ lib.owner = attempt)
        /\ rotation' = NoRotation /\ UNCHANGED <<pc, attempt, stopped, tunnel>>
    BY <1>10, <2>2 DEF psiphonRotate
  <2>4. lib' = [lib EXCEPT !.region = NoRegion] => lib'.on = lib.on /\ lib'.owner = lib.owner
    BY <1>l DEF Libs
  <2> QED BY <1>0, <1>l, <2>1, <2>2, <2>3, <2>4 DEF Started
<1>11. CASE isAlive
  BY <1>0, <1>l, <1>r, <1>11 DEF isAlive, countReading
<1>12. CASE cancel
  BY <1>0, <1>l, <1>r, <1>12 DEF cancel
<1>13. CASE leaveLoop
  BY <1>0, <1>l, <1>r, <1>13 DEF leaveLoop
<1>14. CASE stop
  BY <1>0, <1>l, <1>q, <1>r, <1>14 DEF stop
<1>15. CASE Lose
  <2>1. /\ UNCHANGED <<pc, attempt, stopped, tunnel, rotation>> /\ lib.on
        /\ lib'.on = lib.on /\ lib'.owner = lib.owner
    BY <1>l, <1>15 DEF Lose, Libs, Off
  <2> QED BY <1>l, <2>1
<1>16. CASE GiveUp
  BY <1>0, <1>l, <1>r, <1>16 DEF GiveUp
<1>17. CASE Deliver
  <2>1. UNCHANGED <<pc, attempt, stopped, tunnel, rotation, lib>>
    BY <1>17, DeliverCases
       DEF Deliver, onListeningSocksProxyPort, onConnected, onExiting, onAvailableEgressRegions
  <2> QED BY <1>l, <2>1
<1>18. CASE Listen \/ Connect
  <2>1. /\ UNCHANGED <<pc, attempt, stopped, tunnel, rotation>> /\ lib.on
        /\ lib'.on = lib.on /\ lib'.owner = lib.owner
    BY <1>l, <1>18 DEF Listen, Connect, Libs
  <2> QED BY <1>l, <2>1
<1>19. CASE Tick \/ rotating \/ ReportRegions
  BY <1>0, <1>l, <1>r, <1>19 DEF Tick, rotating, ReportRegions
<1>20. CASE UNCHANGED vars
  BY <1>0, <1>l, <1>r, <1>20 DEF vars
<1> QED BY <1>1, <1>2, <1>3, <1>4, <1>5, <1>6, <1>7, <1>8, <1>9, <1>10, <1>11, <1>12, <1>13, <1>14, <1>15, <1>16, <1>17, <1>18, <1>19, <1>20 DEF Next

LEMMA CalmStep ==
    ASSUME TypeOK, Flags, Shapes, PhaseInv, LibInv, CalmInv, [Next]_vars
    PROVE  CalmInv'
<1>0. /\ pc \in Phases /\ lib \in Libs /\ ~Off.on /\ ~NoFront.running
      /\ rotation \in {NoRotation} \cup Claims \cup Calls
  BY DEF TypeOK, Phases, Shapes, Off, NoFront
<1>c. CASE ~(stopped /\ calmStop) /\ ~stop
  <2>1. stopped' = stopped /\ calmStop' = calmStop
    BY <1>c DEF Next, vars, start, establish, startTunneling, AttemptFails, awaitTimeout, awaitReady,
       startFront, between, maybeRotate, rotateServer, psiphonRotate, Tick, rotating, isAlive, cancel,
       leaveLoop, Listen, ReportRegions, Connect, Lose, GiveUp, Deliver, session
  <2> QED BY <1>c, <2>1 DEF CalmInv
<1>d. CASE stop
  <2>1. /\ front' = NoFront /\ rotation' = rotation /\ action' = FALSE /\ pc' = pc
        /\ cancelled' = cancelled /\ (cancelled \/ pc \in Ended)
        /\ calmStop' = (pc \in {"idle", "up", "failed", "gone", "torn"} /\ rotation = NoRotation)
    BY <1>d DEF stop, stopTunnelQuietly, Ended
  <2>2. ~lib'.on
    <3>1. lib.on => lib.owner = tunnel /\ tunnel # NoTunnel
      BY <1>d DEF stop, LibInv
    <3> QED BY <1>0, <1>d, <3>1 DEF stop, stopTunnelQuietly
  <2> QED BY <1>0, <2>1, <2>2 DEF CalmInv, Rest, Ended
<1>e. CASE stopped /\ calmStop
  <2>0. /\ ~lib.on /\ ~front.running /\ rotation = NoRotation /\ rotation.stage = "none"
        /\ ~action /\ pc \in Rest /\ (pc = "idle" => cancelled) /\ lib = Off
    BY <1>e DEF CalmInv, LibInv, NoRotation
  <2>1. CASE Deliver
    <3>1. front'.running = front.running
      <4>1. \A p : retarget(p).running = front.running
        BY DEF retarget, Shapes
      <4> QED BY <2>1, <4>1, DeliverCases
            DEF onListeningSocksProxyPort, onConnected, onExiting, onAvailableEgressRegions
    <3> QED BY <2>0, <2>1, <3>1 DEF CalmInv, Deliver, session, health
  <2>2. CASE rotating \/ isAlive \/ cancel \/ leaveLoop \/ Tick \/ UNCHANGED vars
    BY <2>0, <2>2 DEF CalmInv, Rest, rotating, isAlive, countReading, cancel, leaveLoop, Tick, vars,
       session, health
  <2>3. ~(start \/ establish \/ startTunneling \/ awaitTimeout \/ awaitReady \/ startFront \/ between)
    BY <2>0 DEF start, establish, startTunneling, awaitTimeout, awaitReady, startFront, between, Rest
  <2>4. ~(maybeRotate \/ rotateServer \/ psiphonRotate \/ stop)
    BY <1>e, <2>0 DEF maybeRotate, rotateServer, psiphonRotate, stop
  <2>5. ~(Listen \/ ReportRegions \/ Connect \/ Lose \/ GiveUp)
    BY <2>0 DEF Listen, ReportRegions, Connect, Lose, GiveUp, Off
  <2> QED BY <2>1, <2>2, <2>3, <2>4, <2>5 DEF Next
<1> QED BY <1>c, <1>d, <1>e

-----------------------------------------------------------------------------
(* Readings, counters and steering.                                        *)

LEMMA GraceStep ==
    ASSUME TypeOK, Flags, Shapes, GraceInv, [Next]_vars
    PROVE  GraceInv'
<1>0. /\ graceDeaths \in Nat /\ rotationDeadline \in Int /\ poll \in {"idle", "check"}
      /\ ~(NoDeadline > 0)
  BY TransportAssumption DEF TypeOK, Flags, NoDeadline
<1>a. AttemptFails => UNCHANGED <<graceDeaths, poll, rotationDeadline>>
  BY DEF AttemptFails, loop
<1> USE DEF GraceInv, fields, loop
<1>1. CASE startTunneling \/ awaitTimeout \/ awaitReady \/ startFront
  BY <1>0, <1>a, <1>1 DEF startTunneling, awaitTimeout, awaitReady, startFront
<1>2. CASE rotateServer
  <2>1. /\ poll' = poll
        /\ graceDeaths' = 0 \/ UNCHANGED <<graceDeaths, rotationDeadline>>
    BY <1>2 DEF rotateServer
  <2> QED BY <1>0, <2>1
<1>3. CASE psiphonRotate
  BY <1>0, <1>3 DEF psiphonRotate
<1>4. CASE Tick
  BY <1>0, <1>4 DEF Tick
<1>5. CASE rotating
  BY <1>0, <1>5 DEF rotating
<1>6. CASE isAlive
  BY <1>0, <1>6 DEF isAlive, countReading
<1>7. CASE Deliver
  <2>1. UNCHANGED <<graceDeaths, poll>> /\ rotationDeadline' \in {rotationDeadline, NoDeadline}
    BY <1>7, DeliverCases
       DEF Deliver, onListeningSocksProxyPort, onConnected, onExiting, onAvailableEgressRegions
  <2> QED BY <1>0, <2>1
<1>8. CASE start \/ establish \/ between \/ stop \/ maybeRotate \/ cancel \/ leaveLoop \/ Listen \/ ReportRegions \/ Connect \/ Lose \/ GiveUp
  BY <1>0, <1>8 DEF start, establish, between, stop, maybeRotate, cancel, leaveLoop, Listen, ReportRegions,
     Connect, Lose, GiveUp
<1>9. CASE UNCHANGED vars
  BY <1>0, <1>9 DEF vars
<1> QED BY <1>1, <1>2, <1>3, <1>4, <1>5, <1>6, <1>7, <1>8, <1>9 DEF Next

LEMMA CountStep ==
    ASSUME TypeOK, Flags, Shapes, PhaseInv, CountInv, [Next]_vars
    PROVE  CountInv'
<1>0. /\ steerCursor \in 0 .. MaxRotations /\ rotations \in 0 .. MaxRotations /\ MaxRotations \in Nat
      /\ transportDead \in 0 .. TRANSPORT_DEAD_CONFIRMATIONS
      /\ TRANSPORT_DEAD_CONFIRMATIONS \in Nat \ {0} /\ pc \in Phases
  BY TransportAssumption DEF TypeOK, Phases
<1>r. /\ rotation \in {NoRotation} \cup Claims \cup Calls /\ NoRotation \notin Claims
      /\ Claims \cap Calls = {} /\ (rotation \in Claims => rotation # NoRotation)
      /\ pc \notin Later => rotation = NoRotation
  BY DEF Shapes, PhaseInv, NoRotation, Claims, Calls
<1>a. AttemptFails => /\ pc' \in {"between", "failed"}
                      /\ UNCHANGED <<transportDead, steerCursor, rotation, rotations, action>>
  BY DEF AttemptFails, steering, health, loop
<1> USE DEF CountInv, session, steering, health, loop, Later, Phases
<1>1. CASE start
  BY <1>0, <1>r, <1>1 DEF start
<1>2. CASE establish
  BY <1>0, <1>r, <1>2 DEF establish
<1>3. CASE startTunneling
  BY <1>0, <1>r, <1>a, <1>3 DEF startTunneling
<1>4. CASE awaitTimeout
  BY <1>0, <1>r, <1>a, <1>4 DEF awaitTimeout
<1>5. CASE awaitReady
  BY <1>0, <1>r, <1>a, <1>5 DEF awaitReady
<1>6. CASE startFront
  <2>1. transportDead < TRANSPORT_DEAD_CONFIRMATIONS
    BY <1>0, <1>6 DEF startFront
  <2> QED BY <1>0, <1>r, <1>a, <1>6, <2>1 DEF startFront
<1>7. CASE between
  BY <1>0, <1>r, <1>7 DEF between, stopTunnelQuietly
<1>8. CASE maybeRotate
  <2>1. /\ rotation = NoRotation /\ rotations < MaxRotations /\ action
        /\ rotations' = rotations + 1
        /\ UNCHANGED <<pc, transportDead, steerCursor, action>>
    BY <1>8 DEF maybeRotate
  <2>2. front.running => pc \in Later
    BY DEF PhaseInv
  <2> QED BY <1>0, <1>r, <1>8, <2>1, <2>2 DEF maybeRotate
<1>9. CASE rotateServer
  <2>1. rotation \in Claims
    BY <1>r, <1>9 DEF rotateServer, Calls, NoRotation
  <2>2. rotation' \notin Claims
    BY <1>9 DEF rotateServer, Claims, NoRotation
  <2>3. steerCursor' \in {steerCursor, steerCursor + 1}
    BY <1>9 DEF rotateServer, prepareSteeredConfig
  <2>4. UNCHANGED <<pc, transportDead, rotations, action>>
    BY <1>9 DEF rotateServer
  <2>5. pc \in Later
    BY <1>r, <2>1
  <2> QED BY <1>0, <2>1, <2>2, <2>3, <2>4, <2>5
<1>10. CASE psiphonRotate
  <2>1. rotation' = NoRotation /\ UNCHANGED <<pc, transportDead, steerCursor, rotations, action>>
    BY <1>10 DEF psiphonRotate
  <2> QED BY <1>0, <1>r, <2>1
<1>11. CASE rotating
  BY <1>0, <1>r, <1>11 DEF rotating
<1>12. CASE isAlive
  <2>1. /\ UNCHANGED <<steerCursor, rotation, rotations, action>>
        /\ pc = "up" /\ pc' \in {"up", "torn"}
        /\ pc' = "up" => transportDead' < TRANSPORT_DEAD_CONFIRMATIONS
    BY <1>0, <1>12 DEF isAlive, countReading
  <2> QED BY <1>0, <1>r, <2>1
<1>13. CASE leaveLoop
  BY <1>0, <1>r, <1>13 DEF leaveLoop
<1>14. CASE stop
  <2>1. UNCHANGED <<pc, transportDead, steerCursor, rotation>> /\ ~action'
    BY <1>14 DEF stop
  <2> QED BY <1>0, <2>1
<1>15. CASE Deliver
  <2>1. UNCHANGED <<pc, transportDead, steerCursor, rotation, rotations, action>>
    BY <1>15 DEF Deliver
  <2> QED BY <1>0, <2>1
<1>16. CASE Tick \/ Listen \/ ReportRegions \/ Connect \/ Lose \/ GiveUp \/ cancel
  BY <1>0, <1>r, <1>16 DEF Tick, Listen, ReportRegions, Connect, Lose, GiveUp, cancel
<1>17. CASE UNCHANGED vars
  BY <1>0, <1>r, <1>17 DEF vars
<1> QED BY <1>1, <1>2, <1>3, <1>4, <1>5, <1>6, <1>7, <1>8, <1>9, <1>10, <1>11, <1>12, <1>13, <1>14, <1>15, <1>16, <1>17 DEF Next

LEMMA SteerStep ==
    ASSUME TypeOK, Shapes, PhaseInv, LibInv, SteerInv, wanted' = wanted, reach' = reach, [Next]_vars
    PROVE  SteerInv'
<1>0. /\ config \in Confs /\ lib \in Libs /\ ~Off.on
      /\ rotation \in {NoRotation} \cup Claims \cup Calls
  BY DEF Shapes, Off
<1>q. stopTunnelQuietly => lib' = lib \/ lib' = Off
  BY DEF stopTunnelQuietly
<1>a. AttemptFails => config' = config /\ (lib' = lib \/ lib' = Off)
  BY <1>q DEF AttemptFails, steering
<1>s. /\ Started(attempt, config).egress = config.egress
      /\ Started(attempt, config).steered = config.noReplay
      /\ Started(attempt, config).avoid = config.avoid
  BY DEF Started
<1>f. CASE config' = config /\ (lib' = lib \/ ~lib'.on \/ lib' = Started(attempt, config))
  BY <1>0, <1>f, <1>s DEF SteerInv, AutomaticSteersClean
<1>1. CASE establish
  <2>1. attempt \in 1 .. Len(attempts)
    BY <1>1, AttemptsFacts DEF TypeOK, PhaseInv, establish
  <2>2. wanted = NoRegion => attempts[attempt] = NoRegion
    BY <2>1, AttemptsFacts DEF TypeOK
  <2>3. config'.egress = attempts[attempt] /\ lib' = lib
    BY <1>1 DEF establish, buildConfig
  <2> QED BY <2>2, <2>3 DEF SteerInv, AutomaticSteersClean
<1>2. CASE rotateServer
  <2>1. rotation \in Claims
    BY <1>0, <1>2 DEF rotateServer, Calls, NoRotation
  <2>2. rotation.target \in Regions \cup {NoRegion}
    BY <2>1 DEF Claims
  <2>3. lib' = lib
    BY <1>2 DEF rotateServer
  <2>4. CASE config' = config
    BY <1>f, <2>3, <2>4
  <2>5. CASE prepareSteeredConfig(rotation.target)
    <3>1. /\ wanted = NoRegion => config'.egress = nextEgressAway(rotation.target)
          /\ config'.avoid = Bad(rotation.target)
      BY <2>5 DEF prepareSteeredConfig, buildConfig
    <3>2. nextEgressAway(rotation.target) # NoRegion
            => nextEgressAway(rotation.target) \in reach \ Bad(rotation.target)
      BY <2>2, AwayIsClean
    <3> QED BY <2>3, <3>1, <3>2 DEF SteerInv, AutomaticSteersClean
  <2> QED BY <1>2, <2>4, <2>5 DEF rotateServer
<1>3. CASE psiphonRotate
  <2>1. rotation \in Calls
    BY <1>0, <1>3 DEF psiphonRotate, Claims, NoRotation
  <2>2. rotation.active = attempt /\ config' = config
    BY <1>3, <2>1 DEF PhaseInv, psiphonRotate, steering
  <2>3. CASE lib' = [lib EXCEPT !.region = NoRegion]
    <3>1. /\ lib'.on = lib.on /\ lib'.steered = lib.steered /\ lib'.egress = lib.egress
          /\ lib'.avoid = lib.avoid
      BY <1>0, <2>3 DEF Libs
    <3> QED BY <2>2, <3>1 DEF SteerInv, AutomaticSteersClean
  <2>4. CASE lib' = lib \/ lib' = Off \/ lib' = Started(attempt, config)
    BY <1>0, <1>f, <2>2, <2>4
  <2> QED BY <1>3, <2>2, <2>3, <2>4 DEF psiphonRotate
<1>4. CASE Listen \/ Connect \/ Lose
  <2>1. /\ lib'.on = lib.on /\ lib'.steered = lib.steered /\ lib'.egress = lib.egress
        /\ lib'.avoid = lib.avoid /\ config' = config
    BY <1>0, <1>4 DEF Listen, Connect, Lose, Libs, steering
  <2> QED BY <2>1 DEF SteerInv, AutomaticSteersClean
<1>5. CASE startTunneling \/ awaitTimeout \/ awaitReady \/ startFront
  BY <1>0, <1>5, <1>a, <1>f DEF startTunneling, awaitTimeout, awaitReady, startFront, steering
<1>6. CASE between \/ stop
  BY <1>0, <1>6, <1>q, <1>f DEF between, stop, steering
<1>7. CASE \/ start \/ maybeRotate \/ Tick \/ rotating \/ isAlive \/ cancel \/ leaveLoop
           \/ ReportRegions \/ GiveUp \/ Deliver
  BY <1>0, <1>7, <1>f DEF start, maybeRotate, Tick, rotating, isAlive, cancel, leaveLoop,
     ReportRegions, GiveUp, Deliver, steering
<1>8. CASE UNCHANGED vars
  BY <1>8, <1>f DEF vars, steering
<1> QED BY <1>1, <1>2, <1>3, <1>4, <1>5, <1>6, <1>7, <1>8 DEF Next

-----------------------------------------------------------------------------
(* The queue of callbacks.                                                 *)

\* What a step does to the queue: nothing, an event of the running controller
\* behind the others, or the delivery of the first.
Emits(kind, p) ==
    lib.on /\ events' = Append(events, [kind |-> kind, port |-> p, from |-> lib.owner])

LEMMA ExitingFacts ==
    ASSUME events' = Exiting
    PROVE  events' = events \/ Emits("exiting", 0)
BY DEF Exiting, Notify, Emits

LEMMA QuietFacts ==
    ASSUME stopTunnelQuietly
    PROVE  /\ \/ lib' = lib /\ events' = events
              \/ lib' = Off /\ (events' = events \/ Emits("exiting", 0))
           /\ front' = NoFront
BY ExitingFacts DEF stopTunnelQuietly

LEMMA EmitFacts ==
    ASSUME Shapes, LibInv, NEW kind \in {"port", "regions", "connected", "exiting"},
           NEW p \in Ports \cup {0}, Emits(kind, p)
    PROVE  /\ Waiting' = Waiting \cup {Len(events) + 1} /\ Len(events) + 1 \in Nat
           /\ events'[Len(events) + 1] = [kind |-> kind, port |-> p, from |-> lib.owner]
           /\ \A i \in Waiting : i \in Nat /\ i < Len(events) + 1 /\ events'[i] = events[i]
           /\ Len(events) + 1 \notin Waiting /\ lib.owner # NoTunnel /\ lib.owner <= attempt
<1>1. [kind |-> kind, port |-> p, from |-> lib.owner] \in Events
  BY NotifyType DEF Emits
<1>2. /\ Waiting' = Waiting \cup {Len(events) + 1} /\ Len(events) + 1 \in Nat
      /\ events'[Len(events) + 1] = [kind |-> kind, port |-> p, from |-> lib.owner]
      /\ \A i \in Waiting : i \in Nat /\ i < Len(events) + 1 /\ events'[i] = events[i]
  BY <1>1, AppendFacts DEF Emits, Shapes
<1>3. lib.owner # NoTunnel /\ lib.owner <= attempt
  BY DEF LibInv, Emits
<1>4. Len(events) + 1 \notin Waiting
  BY <1>2
<1> QED BY <1>2, <1>3, <1>4

\* The phases before an attempt calls the library.
Calling == pc \in {"establish", "starting"}

LEMMA QueueKept ==
    ASSUME TypeOK, Shapes, LibInv, QueueInv, attempt' \in Nat, attempt <= attempt',
           Calling' => (Calling /\ attempt' = attempt) \/ attempt < attempt',
           \/ events' = events
           \/ events # <<>> /\ events' = Tail(events)
           \/ \E kind \in {"regions", "connected", "exiting"} : Emits(kind, 0)
           \/ \E p \in Ports : Emits("port", p)
    PROVE  QueueInv'
<1>0. /\ attempt \in Nat /\ lib.owner \in Nat /\ (Calling => lib.owner # attempt)
      /\ \A i \in Waiting : events[i].from \in Nat
  <2>1. attempt \in Nat
    BY AttemptsFacts DEF TypeOK
  <2>2. lib.owner \in Nat
    BY DEF Shapes, Libs, Tunnels, NoTunnel
  <2>3. \A i \in Waiting : events[i].from \in Nat
    <3>1. \A i \in Waiting : events[i] \in Events
      BY DEF Shapes, Waiting
    <3> QED BY <3>1 DEF Events, Tunnels
  <2> QED BY <2>1, <2>2, <2>3 DEF LibInv, Calling
<1>1. \A i \in Waiting : events[i].from <= attempt' /\ (Calling' => events[i].from # attempt')
  BY <1>0 DEF QueueInv, Calling
<1>2. CASE events' = events
  BY <1>1, <1>2 DEF QueueInv, Calling, Waiting
<1>3. CASE events # <<>> /\ events' = Tail(events)
  <2>1. \A i \in Waiting' : i + 1 \in Waiting /\ events'[i] = events[i + 1]
    BY <1>3, TailFacts DEF Shapes
  <2> QED BY <1>1, <2>1 DEF QueueInv, Calling
<1>4. ASSUME NEW kind \in {"port", "regions", "connected", "exiting"}, NEW p \in Ports \cup {0},
             kind = "port" => p \in Ports, Emits(kind, p)
      PROVE  QueueInv'
  <2> DEFINE e == [kind |-> kind, port |-> p, from |-> lib.owner]
  <2>0. /\ Waiting' = Waiting \cup {Len(events) + 1}
        /\ events'[Len(events) + 1] = e
        /\ \A i \in Waiting : events'[i] = events[i]
        /\ lib.owner <= attempt
    BY <1>4, EmitFacts
  <2>1. e.kind = kind /\ e.port = p /\ e.from = lib.owner
    OBVIOUS
  <2>2. lib.owner <= attempt' /\ (Calling' => lib.owner # attempt')
    BY <1>0, <2>0 DEF Calling
  <2> HIDE DEF e
  <2>3. \A i \in Waiting' : i \in Waiting \/ events'[i] = e
    BY <2>0
  <2> QED BY <1>1, <1>4, <2>0, <2>1, <2>2, <2>3 DEF QueueInv, Calling
<1>5. ASSUME NEW p \in Ports, Emits("port", p) PROVE QueueInv'
  BY <1>4, <1>5
<1>6. ASSUME NEW kind \in {"regions", "connected", "exiting"}, Emits(kind, 0) PROVE QueueInv'
  BY <1>4, <1>6
<1> QED BY <1>2, <1>3, <1>5, <1>6

\* What each step does to the queue, and that the attempt only moves forward.
Moves == \/ events' = events
         \/ events # <<>> /\ events' = Tail(events)
         \/ \E kind \in {"regions", "connected", "exiting"} : Emits(kind, 0)
         \/ \E p \in Ports : Emits("port", p)

LEMMA QueueStep ==
    ASSUME TypeOK, Shapes, PhaseInv, LibInv, QueueInv, [Next]_vars
    PROVE  QueueInv'
<1>0. attempt \in Nat
  BY AttemptsFacts DEF TypeOK
<1>k. ASSUME attempt' = attempt, Calling' => Calling, Moves
      PROVE  QueueInv'
  BY <1>0, <1>k, QueueKept DEF Moves
<1>f. ASSUME attempt' = attempt + 1, Moves
      PROVE  QueueInv'
  BY <1>0, <1>f, QueueKept DEF Moves
<1>x. ASSUME events' = events \/ Emits("exiting", 0) PROVE Moves
  BY <1>x DEF Moves
<1>q. stopTunnelQuietly => Moves
  BY <1>x, QuietFacts
<1>e. events' = Exiting => Moves
  BY <1>x, ExitingFacts
<1>u. events' = events => Moves
  BY DEF Moves
<1>a. AttemptFails => QueueInv'
  <2> SUFFICES ASSUME AttemptFails PROVE QueueInv'
    OBVIOUS
  <2>1. attempt' = attempt /\ pc' \in {"between", "failed"} /\ stopTunnelQuietly
    BY DEF AttemptFails
  <2> QED BY <1>k, <1>q, <2>1 DEF Calling
<1>1. CASE start
  <2>1. events' = events /\ (attempt' = attempt + 1 \/ (attempt' = attempt /\ pc' = "failed"))
    BY <1>1 DEF start, PhaseInv
  <2> QED BY <1>k, <1>f, <1>u, <2>1 DEF Calling
<1>2. CASE between
  <2>1. stopTunnelQuietly /\ (attempt' = attempt + 1 \/ (attempt' = attempt /\ pc' = "gone"))
    BY <1>2 DEF between
  <2> QED BY <1>k, <1>f, <1>q, <2>1 DEF Calling
<1>3. CASE startTunneling
  <2>1. AttemptFails \/ (attempt' = attempt /\ pc' = "await" /\ events' = Exiting)
    BY <1>3 DEF startTunneling
  <2> QED BY <1>a, <1>e, <1>k, <2>1 DEF Calling
<1>4. CASE awaitTimeout \/ awaitReady \/ startFront
  <2>1. \/ AttemptFails
        \/ attempt' = attempt /\ pc' \in {"gone", "front", "up"} /\ events' = events
    BY <1>4 DEF awaitTimeout, awaitReady, startFront
  <2> QED BY <1>a, <1>u, <1>k, <2>1 DEF Calling
<1>5. CASE stop
  <2>1. attempt' = attempt /\ pc' = pc /\ stopTunnelQuietly
    BY <1>5 DEF stop
  <2> QED BY <1>k, <1>q, <2>1 DEF Calling
<1>6. CASE psiphonRotate \/ GiveUp
  <2>1. attempt' = attempt /\ pc' = pc /\ (events' = Exiting \/ events' = events)
    BY <1>6 DEF psiphonRotate, GiveUp, session
  <2> QED BY <1>k, <1>e, <1>u, <2>1 DEF Calling
<1>7. CASE Listen
  <2>1. attempt' = attempt /\ pc' = pc /\ \E p \in Ports : Emits("port", p)
    BY <1>7 DEF Listen, Notify, Emits, session
  <2> QED BY <1>k, <2>1 DEF Calling, Moves
<1>8. CASE ReportRegions \/ Connect
  <2>1. attempt' = attempt /\ pc' = pc /\ (Emits("regions", 0) \/ Emits("connected", 0))
    BY <1>8 DEF ReportRegions, Connect, Notify, Emits, session
  <2> QED BY <1>k, <2>1 DEF Calling, Moves
<1>9. CASE Deliver
  <2>1. attempt' = attempt /\ pc' = pc /\ events # <<>> /\ events' = Tail(events)
    BY <1>9 DEF Deliver, session
  <2> QED BY <1>k, <2>1 DEF Calling, Moves
<1>10. CASE \/ establish \/ maybeRotate \/ rotateServer \/ Tick \/ rotating \/ isAlive \/ cancel
            \/ leaveLoop \/ Lose \/ UNCHANGED vars
  <2>1. attempt' = attempt /\ (Calling' => Calling) /\ events' = events
    BY <1>10 DEF establish, maybeRotate, rotateServer, Tick, rotating, isAlive, countReading, cancel,
       leaveLoop, Lose, vars, session, Calling
  <2> QED BY <1>k, <1>u, <2>1
<1> QED BY <1>1, <1>2, <1>3, <1>4, <1>5, <1>6, <1>7, <1>8, <1>9, <1>10 DEF Next

-----------------------------------------------------------------------------
(* The port the library announced last.                                    *)

\* An event that is no port leaves the announcement as it was.
LEMMA AnnouncedKept ==
    ASSUME Shapes, LibInv, Announced, NEW kind \in {"regions", "connected", "exiting"},
           Emits(kind, 0), lib'.port = lib.port, socksPort' = socksPort
    PROVE  Announced'
<1> DEFINE n == Len(events) + 1
<1>1. /\ Waiting' = Waiting \cup {n} /\ n \in Nat
      /\ events'[n] = [kind |-> kind, port |-> 0, from |-> lib.owner]
      /\ \A i \in Waiting : i \in Nat /\ i < n /\ events'[i] = events[i]
  BY EmitFacts
<1>2. events'[n].kind # "port"
  BY <1>1
<1> HIDE DEF n
<1>3. CASE \E i \in Waiting : /\ events[i].kind = "port" /\ events[i].port = lib.port
                             /\ \A k \in Waiting : k > i => events[k].kind # "port"
  <2>1. PICK i \in Waiting : /\ events[i].kind = "port" /\ events[i].port = lib.port
                            /\ \A k \in Waiting : k > i => events[k].kind # "port"
    BY <1>3
  <2>2. \A k \in Waiting' : k > i => events'[k].kind # "port"
    BY <1>1, <1>2, <2>1
  <2>3. i \in Waiting' /\ events'[i].kind = "port" /\ events'[i].port = lib'.port
    BY <1>1, <2>1
  <2> QED BY <2>2, <2>3 DEF Announced
<1>4. CASE (\A i \in Waiting : events[i].kind # "port") /\ socksPort = lib.port
  <2>1. \A i \in Waiting' : events'[i].kind # "port"
    BY <1>1, <1>2, <1>4
  <2> QED BY <1>4, <2>1 DEF Announced
<1> QED BY <1>3, <1>4 DEF Announced

\* A delivery moves it from the queue to socksPort.
LEMMA AnnouncedDelivered ==
    ASSUME Shapes, Announced, events # <<>>, events' = Tail(events), lib' = lib,
           IF events[1].kind = "port" THEN socksPort' = events[1].port ELSE socksPort' = socksPort
    PROVE  Announced'
<1>1. /\ 1 \in Waiting
      /\ \A i \in Waiting' : i \in Nat /\ i + 1 \in Waiting /\ events'[i] = events[i + 1]
      /\ \A i \in Waiting : i \in Nat /\ i >= 1
      /\ \A i \in Waiting : i # 1 => i - 1 \in Waiting' /\ events'[i - 1] = events[i]
  BY TailFacts DEF Shapes
<1>p. \A k \in Waiting' : k >= 1
  <2>1. events' \in Seq(Events)
    BY TailFacts DEF Shapes
  <2> QED BY <2>1 DEF Waiting
<1>3. CASE \E i \in Waiting : /\ events[i].kind = "port" /\ events[i].port = lib.port
                             /\ \A k \in Waiting : k > i => events[k].kind # "port"
  <2>1. PICK i \in Waiting : /\ events[i].kind = "port" /\ events[i].port = lib.port
                            /\ \A k \in Waiting : k > i => events[k].kind # "port"
    BY <1>3
  <2>2. CASE i = 1
    <3>1. \A k \in Waiting' : events'[k].kind # "port"
      <4> SUFFICES ASSUME NEW k \in Waiting' PROVE events'[k].kind # "port"
        OBVIOUS
      <4>1. k + 1 \in Waiting /\ events'[k] = events[k + 1] /\ k + 1 > 1
        <5>1. k \in Nat /\ k >= 1 /\ k + 1 \in Waiting /\ events'[k] = events[k + 1]
          BY <1>1, <1>p
        <5>2. k \in Nat /\ k >= 1 => k + 1 > 1
          OBVIOUS
        <5> QED BY <5>1, <5>2, Zenon
      <4> QED BY <2>1, <2>2, <4>1
    <3> QED BY <2>1, <2>2, <3>1 DEF Announced
  <2>3. CASE i # 1
    <3>1. i - 1 \in Waiting' /\ events'[i - 1] = events[i]
      BY <1>1, <2>3
    <3>2. \A k \in Waiting' : k > i - 1 => events'[k].kind # "port"
      <4> SUFFICES ASSUME NEW k \in Waiting', k > i - 1 PROVE events'[k].kind # "port"
        OBVIOUS
      <4>1. k + 1 \in Waiting /\ events'[k] = events[k + 1] /\ k + 1 > i
        <5>1. k \in Nat /\ i \in Nat /\ k + 1 \in Waiting /\ events'[k] = events[k + 1]
          BY <1>1
        <5>2. k \in Nat /\ i \in Nat /\ k > i - 1 => k + 1 > i
          OBVIOUS
        <5> QED BY <5>1, <5>2, Zenon
      <4> QED BY <2>1, <4>1
    <3>3. events'[i - 1].kind = "port" /\ events'[i - 1].port = lib'.port
      BY <2>1, <3>1
    <3> QED BY <3>1, <3>2, <3>3 DEF Announced
  <2> QED BY <2>2, <2>3
<1>4. CASE (\A i \in Waiting : events[i].kind # "port") /\ socksPort = lib.port
  <2>1. \A i \in Waiting' : events'[i].kind # "port"
    <3> SUFFICES ASSUME NEW i \in Waiting' PROVE events'[i].kind # "port"
      OBVIOUS
    <3>1. i + 1 \in Waiting /\ events'[i] = events[i + 1]
      BY <1>1
    <3> QED BY <1>4, <3>1
  <2> QED BY <1>1, <1>4, <2>1 DEF Announced
<1> QED BY <1>3, <1>4 DEF Announced

LEMMA TrackStep ==
    ASSUME TypeOK, Flags, Shapes, PhaseInv, LibInv, TrackInv, wanted' = wanted, [Next]_vars
    PROVE  TrackInv'
<1>0. /\ attempt \in Nat /\ lib \in Libs /\ lib.owner \in Nat /\ (lib.port # 0 => lib.on)
      /\ Off.port = 0 /\ (lib.on => lib.owner <= attempt)
      /\ Started(attempt, config).port = 0
  <2>1. attempt \in Nat
    BY AttemptsFacts DEF TypeOK
  <2>2. lib \in Libs /\ lib.owner \in Nat
    BY DEF Shapes, Libs, Tunnels, NoTunnel
  <2> QED BY <2>1, <2>2 DEF LibInv, Off, Started
<1>u. ASSUME UNCHANGED <<events, socksPort, attempt, strayed>>, lib'.port = lib.port, lib'.owner = lib.owner
      PROVE  TrackInv'
  BY <1>u DEF TrackInv, Announced, Waiting
<1>v. ASSUME lib'.port = 0 \/ lib'.owner # attempt'
      PROVE  TrackInv'
  BY <1>v DEF TrackInv
<1>n. ASSUME NEW kind \in {"regions", "connected", "exiting"}, Emits(kind, 0),
             lib'.port = lib.port, lib'.owner = lib.owner, UNCHANGED <<socksPort, attempt, strayed>>
      PROVE  TrackInv'
  BY <1>n, AnnouncedKept DEF TrackInv
<1>q. ASSUME stopTunnelQuietly, UNCHANGED <<socksPort, attempt, strayed>>
      PROVE  TrackInv'
  <2>1. lib' = Off \/ (lib' = lib /\ events' = events)
    BY <1>q, QuietFacts
  <2> QED BY <1>0, <1>q, <1>u, <1>v, <2>1
<1>a. AttemptFails => TrackInv'
  <2>1. AttemptFails => stopTunnelQuietly /\ UNCHANGED <<socksPort, attempt, strayed>>
    BY DEF AttemptFails
  <2> QED BY <1>q, <2>1
<1>p. ASSUME attempt' = attempt + 1, lib' = lib PROVE TrackInv'
  <2>1. lib.port = 0 \/ lib.owner # attempt + 1
    BY <1>0
  <2> QED BY <1>p, <1>v, <2>1
<1>1. CASE start
  <2>1. /\ UNCHANGED <<events, lib, socksPort, strayed>>
        /\ attempt' = attempt + 1 \/ attempt' = attempt
    BY <1>1 DEF start, PhaseInv
  <2> QED BY <1>p, <1>u, <2>1
<1>2. CASE between
  <2>1. /\ UNCHANGED <<lib, events, socksPort, strayed>>
        /\ attempt' = attempt + 1 \/ attempt' = attempt
    BY <1>2 DEF between, stopTunnelQuietly, PhaseInv
  <2> QED BY <1>p, <1>u, <2>1
<1>3. CASE establish
  <2>1. lib' = lib /\ attempt' = attempt /\ lib.owner # attempt
    BY <1>3 DEF establish, LibInv
  <2> QED BY <1>v, <2>1
<1>4. CASE startTunneling
  <2>1. AttemptFails \/ lib'.port = 0
    BY <1>0, <1>4 DEF startTunneling
  <2> QED BY <1>a, <1>v, <2>1
<1>5. CASE awaitTimeout \/ awaitReady \/ startFront
  <2>1. AttemptFails \/ UNCHANGED <<events, lib, socksPort, attempt, strayed>>
    BY <1>5 DEF awaitTimeout, awaitReady, startFront, fields
  <2> QED BY <1>a, <1>u, <2>1
<1>6. CASE stop
  BY <1>6, <1>q DEF stop
<1>7. CASE psiphonRotate
  <2>0. UNCHANGED <<socksPort, attempt, strayed>>
    BY <1>7 DEF psiphonRotate, session
  <2>1. \/ lib' = [lib EXCEPT !.region = NoRegion] /\ events' = events
        \/ lib' = lib /\ events' = events
        \/ lib' = Off
        \/ lib' = Started(rotation.active, config)
    BY <1>7 DEF psiphonRotate
  <2>2. Started(rotation.active, config).port = 0
    BY DEF Started
  <2>3. lib' = [lib EXCEPT !.region = NoRegion] => lib'.port = lib.port /\ lib'.owner = lib.owner
    BY <1>0 DEF Libs
  <2> QED BY <1>0, <1>u, <1>v, <2>0, <2>1, <2>2, <2>3
<1>8. CASE GiveUp
  BY <1>0, <1>8, <1>v DEF GiveUp
<1>9. CASE Listen
  <2>1. PICK p \in Ports : lib' = [lib EXCEPT !.port = p] /\ Emits("port", p)
    BY <1>9 DEF Listen, Notify, Emits
  <2>2. lib'.port = p
    BY <1>0, <2>1 DEF Libs
  <2> DEFINE n == Len(events) + 1
  <2>3. /\ Waiting' = Waiting \cup {n} /\ n \in Nat
        /\ events'[n] = [kind |-> "port", port |-> p, from |-> lib.owner]
        /\ \A i \in Waiting : i \in Nat /\ i < n
    BY <2>1, EmitFacts
  <2>4. events'[n].kind = "port" /\ events'[n].port = p
    BY <2>3
  <2> HIDE DEF n
  <2>5. \A k \in Waiting' : ~(k > n)
    BY <2>3
  <2> QED BY <2>2, <2>3, <2>4, <2>5 DEF TrackInv, Announced
<1>10. CASE ReportRegions
  BY <1>10, <1>n DEF ReportRegions, Notify, Emits, session, fields
<1>11. CASE Connect
  <2>1. /\ Emits("connected", 0) /\ UNCHANGED <<socksPort, attempt, strayed>>
        /\ lib'.port = lib.port /\ lib'.owner = lib.owner
    BY <1>0, <1>11 DEF Connect, Notify, Emits, session, fields, Libs
  <2> QED BY <1>n, <2>1
<1>12. CASE Lose
  <2>1. /\ UNCHANGED <<events, socksPort, attempt, strayed>>
        /\ lib'.port = lib.port /\ lib'.owner = lib.owner
    BY <1>0, <1>12 DEF Lose, session, fields, Libs
  <2> QED BY <1>u, <2>1
<1>13. CASE Deliver
  <2>1. /\ events # <<>> /\ events' = Tail(events) /\ lib' = lib /\ attempt' = attempt
        /\ IF events[1].kind = "port" THEN socksPort' = events[1].port ELSE socksPort' = socksPort
    BY <1>13, DeliverCases
       DEF Deliver, session, fields, onListeningSocksProxyPort, onConnected, onExiting,
           onAvailableEgressRegions
  <2>2. Announced => Announced'
    BY <2>1, AnnouncedDelivered
  <2>3. ~strayed' => ~strayed
    BY <1>13, Zenon DEF Deliver
  <2> QED BY <2>1, <2>2, <2>3 DEF TrackInv
<1>14. CASE maybeRotate \/ rotateServer \/ Tick \/ rotating \/ isAlive \/ cancel \/ leaveLoop \/ UNCHANGED vars
  <2>1. UNCHANGED <<events, lib, socksPort, attempt, strayed>>
    BY <1>14 DEF maybeRotate, rotateServer, Tick, rotating, isAlive, cancel, leaveLoop, vars, session, fields
  <2> QED BY <1>u, <2>1
<1> QED BY <1>1, <1>2, <1>3, <1>4, <1>5, <1>6, <1>7, <1>8, <1>9, <1>10, <1>11, <1>12, <1>13, <1>14 DEF Next

-----------------------------------------------------------------------------
(* The front's port.                                                       *)

\* A step that only adds a callback which is neither a port nor a connection of
\* this attempt, and completes ready with no port, leaves the order alone.
LEMMA OrderKept ==
    ASSUME Shapes, LibInv, Order, attempt' = attempt, socksPort' = socksPort,
           ready' = ready \/ ready' \notin Ports,
           lib'.on /\ lib'.owner = attempt /\ lib'.port = 0
             => lib.on /\ lib.owner = attempt /\ lib.port = 0,
           events' = events \/ \E kind \in {"regions", "exiting"} : Emits(kind, 0)
    PROVE  Order'
<1>1. CASE events' = events
  BY <1>1 DEF Order, Own, Waiting
<1>2. ASSUME NEW kind \in {"regions", "exiting"}, Emits(kind, 0) PROVE Order'
  <2>n. PICK n : n = Len(events) + 1
    OBVIOUS
  <2>1. /\ Waiting' = Waiting \cup {n} /\ n \in Nat
        /\ events'[n] = [kind |-> kind, port |-> 0, from |-> lib.owner]
        /\ \A i \in Waiting : i \in Nat /\ i < n /\ events'[i] = events[i]
    BY <1>2, <2>n, EmitFacts
  <2>2. events'[n].kind = kind
    BY <2>1
  <2>3. /\ ~Own(n, {"port", "connected"})' /\ ~Own(n, {"port"})' /\ ~Own(n, {"connected"})'
        /\ \A i \in Waiting : /\ Own(i, {"port", "connected"})' = Own(i, {"port", "connected"})
                              /\ Own(i, {"port"})' = Own(i, {"port"})
                              /\ Own(i, {"connected"})' = Own(i, {"connected"})
    BY <1>2, <2>1, <2>2 DEF Own
  <2>4. lib'.on /\ lib'.owner = attempt' /\ lib'.port = 0
          => ready' \notin Ports /\ \A i \in Waiting' : ~Own(i, {"port", "connected"})'
    BY <2>1, <2>3 DEF Order
  <2>5. ready' \in Ports => ready' = socksPort' /\ \A i \in Waiting' : ~Own(i, {"port"})'
    BY <2>1, <2>3 DEF Order
  <2>6. \A i, k \in Waiting' : i < k /\ Own(i, {"connected"})' => ~Own(k, {"port"})'
    BY <2>1, <2>3 DEF Order
  <2> QED BY <2>4, <2>5, <2>6 DEF Order
<1> QED BY <1>1, <1>2

\* The controller announces its port: nothing of this attempt was waiting.
LEMMA OrderListen ==
    ASSUME Shapes, LibInv, Order, attempt' = attempt, socksPort' = socksPort, ready' = ready,
           NEW p \in Ports, p # 0, lib.port = 0, lib' = [lib EXCEPT !.port = p], Emits("port", p)
    PROVE  Order'
<1>n. PICK n : n = Len(events) + 1
  OBVIOUS
<1>1. /\ Waiting' = Waiting \cup {n} /\ n \in Nat
      /\ events'[n] = [kind |-> "port", port |-> p, from |-> lib.owner]
      /\ \A i \in Waiting : i \in Nat /\ i < n /\ events'[i] = events[i]
  BY <1>n, EmitFacts
<1>2. events'[n].kind = "port" /\ events'[n].from = lib.owner
  BY <1>1
<1>3. lib.on /\ lib'.port = p /\ lib'.owner = lib.owner
  BY DEF Emits, Shapes, Libs
<1>4. /\ ~Own(n, {"connected"})' /\ (Own(n, {"port"})' => lib.owner = attempt)
      /\ \A i \in Waiting : /\ Own(i, {"port"})' = Own(i, {"port"})
                            /\ Own(i, {"connected"})' = Own(i, {"connected"})
  BY <1>1, <1>2 DEF Own
<1>5. \A i \in Waiting : Own(i, {"connected"}) => Own(i, {"port", "connected"})
  BY DEF Own
<1>6. lib.owner = attempt
        => ready \notin Ports /\ \A i \in Waiting : ~Own(i, {"connected"})
  BY <1>3, <1>5 DEF Order
<1>7. ready' \in Ports => ready' = socksPort' /\ \A i \in Waiting' : ~Own(i, {"port"})'
  BY <1>1, <1>4, <1>6 DEF Order
<1>8. \A i, k \in Waiting' : i < k /\ Own(i, {"connected"})' => ~Own(k, {"port"})'
  BY <1>1, <1>4, <1>6 DEF Order
<1> QED BY <1>3, <1>7, <1>8 DEF Order

\* It connects: its port is out.
LEMMA OrderConnect ==
    ASSUME Shapes, LibInv, Order, attempt' = attempt, socksPort' = socksPort, ready' = ready,
           lib.port # 0, lib'.port = lib.port, Emits("connected", 0)
    PROVE  Order'
<1>n. PICK n : n = Len(events) + 1
  OBVIOUS
<1>1. /\ Waiting' = Waiting \cup {n} /\ n \in Nat
      /\ events'[n] = [kind |-> "connected", port |-> 0, from |-> lib.owner]
      /\ \A i \in Waiting : i \in Nat /\ i < n /\ events'[i] = events[i]
  BY <1>n, EmitFacts
<1>2. events'[n].kind = "connected"
  BY <1>1
<1>4. /\ ~Own(n, {"port"})'
      /\ \A i \in Waiting : /\ Own(i, {"port"})' = Own(i, {"port"})
                            /\ Own(i, {"connected"})' = Own(i, {"connected"})
  BY <1>1, <1>2 DEF Own
<1>7. ready' \in Ports => ready' = socksPort' /\ \A i \in Waiting' : ~Own(i, {"port"})'
  BY <1>1, <1>4 DEF Order
<1>8. \A i, k \in Waiting' : i < k /\ Own(i, {"connected"})' => ~Own(k, {"port"})'
  <2> SUFFICES ASSUME NEW i \in Waiting', NEW k \in Waiting', i < k, Own(i, {"connected"})', Own(k, {"port"})'
               PROVE  FALSE
    OBVIOUS
  <2>1. k \in Waiting /\ k < n /\ k \in Nat
    BY <1>1, <1>4
  <2>2. i \in Waiting
    BY <1>1, <2>1
  <2> QED BY <1>4, <2>1, <2>2 DEF Order
<1> QED BY <1>7, <1>8 DEF Order

\* A callback of this attempt is delivered.
LEMMA OrderDelivered ==
    ASSUME Shapes, Order, 0 \notin Ports, attempt' = attempt, lib' = lib, events # <<>>, events' = Tail(events),
           events[1].from = attempt,
           \/ events[1].kind = "port" /\ socksPort' = events[1].port /\ ready' = ready
           \/ /\ events[1].kind = "connected" /\ socksPort' = socksPort
              /\ ready' = IF ready = Pending THEN socksPort ELSE ready
           \/ socksPort' = socksPort /\ (ready' = ready \/ ready' \notin Ports)
    PROVE  Order'
<1>1. /\ 1 \in Waiting
      /\ \A i \in Waiting' : i \in Nat /\ i + 1 \in Waiting /\ events'[i] = events[i + 1]
  BY TailFacts DEF Shapes
<1>2. \A i \in Waiting' : i >= 1
  <2>1. events' \in Seq(Events)
    BY TailFacts DEF Shapes
  <2> QED BY <2>1 DEF Waiting
<1>3. \A i \in Waiting' : /\ Own(i, {"port", "connected"})' = Own(i + 1, {"port", "connected"})
                          /\ Own(i, {"port"})' = Own(i + 1, {"port"})
                          /\ Own(i, {"connected"})' = Own(i + 1, {"connected"})
  BY <1>1 DEF Own
<1>4. \A i, k \in Waiting' : i < k => i + 1 < k + 1
  BY <1>1
<1>5. \A i \in Waiting' : 1 < i + 1
  <2> SUFFICES ASSUME NEW i \in Waiting' PROVE 1 < i + 1
    OBVIOUS
  <2>1. i \in Nat /\ i >= 1
    BY <1>1, <1>2
  <2> QED BY <2>1
<1>c. \A i, k \in Waiting' : i < k /\ Own(i, {"connected"})' => ~Own(k, {"port"})'
  <2> SUFFICES ASSUME NEW i \in Waiting', NEW k \in Waiting', i < k, Own(i, {"connected"})'
               PROVE  ~Own(k, {"port"})'
    OBVIOUS
  <2>1. i + 1 \in Waiting /\ k + 1 \in Waiting /\ i + 1 < k + 1 /\ Own(i + 1, {"connected"})
    BY <1>1, <1>3, <1>4
  <2>2. ~Own(k + 1, {"port"})
    BY <2>1 DEF Order
  <2> QED BY <1>3, <2>2
<1>w. lib.on /\ lib.owner = attempt /\ lib.port = 0
        => ready \notin Ports /\ \A i \in Waiting' : ~Own(i, {"port", "connected"})'
  BY <1>1, <1>3 DEF Order
<1>b. ready \in Ports => ready = socksPort /\ \A i \in Waiting' : ~Own(i, {"port"})'
  BY <1>1, <1>3 DEF Order
<1>6. CASE events[1].kind = "port" /\ socksPort' = events[1].port /\ ready' = ready
  <2>1. Own(1, {"port"})
    BY <1>6 DEF Own
  <2>2. ready \notin Ports
    BY <1>1, <2>1 DEF Order
  <2> QED BY <1>6, <1>c, <1>w, <2>2 DEF Order
<1>7. CASE /\ events[1].kind = "connected" /\ socksPort' = socksPort
           /\ ready' = IF ready = Pending THEN socksPort ELSE ready
  <2>1. Own(1, {"connected"}) /\ Own(1, {"port", "connected"})
    BY <1>7 DEF Own
  <2>2. ~(lib.on /\ lib.owner = attempt /\ lib.port = 0)
    BY <1>1, <2>1 DEF Order
  <2>3. \A i \in Waiting' : ~Own(i, {"port"})'
    <3> SUFFICES ASSUME NEW i \in Waiting' PROVE ~Own(i, {"port"})'
      OBVIOUS
    <3>1. i + 1 \in Waiting /\ 1 < i + 1
      BY <1>1, <1>5
    <3>2. ~Own(i + 1, {"port"})
      BY <1>1, <2>1, <3>1 DEF Order
    <3> QED BY <1>3, <3>2
  <2>4. ready' \in Ports => ready' = socksPort'
    BY <1>7, <1>b
  <2> QED BY <1>c, <2>2, <2>3, <2>4 DEF Order
<1>8. CASE socksPort' = socksPort /\ (ready' = ready \/ ready' \notin Ports)
  BY <1>8, <1>b, <1>c, <1>w DEF Order
<1> QED BY <1>6, <1>7, <1>8

LEMMA FirstStep ==
    ASSUME TypeOK, Flags, Shapes, PhaseInv, LibInv, QueueInv, FirstInv, [Next]_vars
    PROVE  FirstInv'
<1>0. /\ 0 \notin Ports /\ Pending \notin Ports /\ Failed \notin Ports /\ Stopped \notin Ports
      /\ ~NoFront.running /\ ~Off.on /\ lib \in Libs /\ pc \in Phases
      /\ front \in [running : BOOLEAN, port : Ports \cup {0}]
  BY TransportAssumption DEF Pending, Failed, Stopped, NoFront, Off, Shapes, TypeOK, Phases
<1>w. pc \in Phases \ Later => ~front.running /\ rotation = NoRotation
  BY DEF PhaseInv
<1>h. ASSUME pc' \notin {"starting", "await", "front"},
             ~front'.running \/ UNCHANGED <<front, socksPort, strayed>>
      PROVE  FirstInv'
  BY <1>h DEF FirstInv
<1>k. ASSUME UNCHANGED <<pc, attempt, socksPort, strayed>>, front' = front \/ ~front'.running,
             ready' = ready \/ ready' \notin Ports,
             lib'.on /\ lib'.owner = attempt /\ lib'.port = 0
               => lib.on /\ lib.owner = attempt /\ lib.port = 0,
             events' = events \/ \E kind \in {"regions", "exiting"} : Emits(kind, 0)
      PROVE  FirstInv'
  <2>1. Order => Order'
    BY <1>k, OrderKept
  <2> QED BY <1>k, <2>1 DEF FirstInv
<1>a. AttemptFails => FirstInv'
  <2>1. AttemptFails => pc' \in {"between", "failed"} /\ front' = NoFront
    BY DEF AttemptFails, stopTunnelQuietly
  <2> QED BY <1>0, <1>h, <2>1
<1>x. events' = Exiting => events' = events \/ \E kind \in {"regions", "exiting"} : Emits(kind, 0)
  BY ExitingFacts
<1>1. CASE start
  BY <1>1, <1>h DEF start
<1>2. CASE between
  BY <1>0, <1>2, <1>h DEF between, stopTunnelQuietly
<1>3. CASE establish
  <2>1. pc' = "starting" /\ front' = front /\ ready' = Pending /\ pc = "establish"
    BY <1>3 DEF establish
  <2> QED BY <1>0, <1>w, <2>1 DEF FirstInv, Later
<1>4. CASE startTunneling
  <2>1. CASE AttemptFails
    BY <1>a, <2>1
  <2>2. CASE /\ lib' = Started(attempt, config) /\ events' = Exiting /\ pc' = "await" /\ pc = "starting"
             /\ UNCHANGED <<attempt, fields, front, strayed>>
    <3>1. UNCHANGED <<socksPort, ready>>
      BY <2>2 DEF fields
    <3>2. ~front.running
      BY <1>w, <2>2, <1>0 DEF Later
    <3>3. events' = events \/ Emits("exiting", 0)
      BY <2>2, ExitingFacts
    <3>4. \A i \in Waiting' : ~Own(i, {"port", "connected"})' /\ ~Own(i, {"connected"})'
      <4>0. \A i \in Waiting : events[i].from # attempt
        BY <2>2 DEF QueueInv
      <4>1. CASE events' = events
        BY <2>2, <4>0, <4>1 DEF Own, Waiting
      <4>2. CASE Emits("exiting", 0)
        <5>n. PICK n : n = Len(events) + 1
          OBVIOUS
        <5>1. /\ Waiting' = Waiting \cup {n}
              /\ events'[n] = [kind |-> "exiting", port |-> 0, from |-> lib.owner]
              /\ \A i \in Waiting : events'[i] = events[i]
          BY <4>2, <5>n, EmitFacts
        <5>2. events'[n].kind = "exiting"
          BY <5>1
        <5> QED BY <2>2, <4>0, <5>1, <5>2 DEF Own
      <4> QED BY <3>3, <4>1, <4>2
    <3>5. ~strayed' => ready' \notin Ports
      BY <2>2, <3>1 DEF FirstInv
    <3>6. ready' \notin Ports => Order'
      BY <3>4 DEF Order
    <3> QED BY <2>2, <3>2, <3>5, <3>6 DEF FirstInv
  <2> QED BY <1>4, <2>1, <2>2 DEF startTunneling
<1>5. CASE awaitTimeout
  BY <1>5, <1>a DEF awaitTimeout
<1>6. CASE awaitReady
  <2>1. CASE AttemptFails
    BY <1>a, <2>1
  <2>2. CASE /\ pc = "await" /\ pc' \in {"gone", "front"}
             /\ UNCHANGED <<attempt, socksPort, ready, front, strayed, lib, events>>
    <3>1. Order => Order'
      BY <2>2 DEF Order, Own, Waiting
    <3> QED BY <2>2, <3>1 DEF FirstInv
  <2> QED BY <1>6, <2>1, <2>2 DEF awaitReady, fields
<1>7. CASE startFront
  <2>1. CASE AttemptFails
    BY <1>a, <2>1
  <2>2. CASE /\ pc = "front" /\ pc' = "up" /\ UNCHANGED <<socksPort, ready, strayed>>
             /\ front' = IF front.running THEN front ELSE [running |-> TRUE, port |-> ready]
    <3>1. ~front.running /\ ready \in Ports
      BY <1>0, <1>w, <2>2 DEF Later, PhaseInv
    <3>2. front'.port = ready
      BY <2>2, <3>1
    <3>3. ~strayed => ready = socksPort
      BY <2>2, <3>1 DEF FirstInv, Order
    <3> QED BY <2>2, <3>2, <3>3 DEF FirstInv
  <2> QED BY <1>7, <2>1, <2>2 DEF startFront, fields
<1>8. CASE psiphonRotate
  <2>1. rotation # NoRotation /\ UNCHANGED <<pc, front, socksPort, strayed>>
    BY <1>8 DEF psiphonRotate, NoRotation, session
  <2> QED BY <1>0, <1>w, <1>h, <2>1 DEF Later
<1>9. CASE isAlive \/ leaveLoop
  <2>1. /\ pc' \in {"up", "torn", "gone"} /\ UNCHANGED <<front, socksPort, strayed>>
    BY <1>9 DEF isAlive, countReading, leaveLoop, fields
  <2> QED BY <1>h, <2>1
<1>10. CASE stop
  <2>1. /\ UNCHANGED <<pc, attempt, socksPort, strayed>> /\ front' = NoFront
        /\ ready' = ready \/ ready' = Stopped
        /\ stopTunnelQuietly
    BY <1>10 DEF stop, stopTunnelQuietly
  <2>2. /\ lib' = lib \/ lib' = Off
        /\ events' = events \/ \E kind \in {"regions", "exiting"} : Emits(kind, 0)
    BY <2>1, QuietFacts
  <2> QED BY <1>0, <1>k, <2>1, <2>2
<1>11. CASE Listen
  <2>1. PICK p \in Ports : lib' = [lib EXCEPT !.port = p] /\ Emits("port", p)
    BY <1>11 DEF Listen, Notify, Emits
  <2>2. lib.port = 0 /\ UNCHANGED <<pc, attempt, socksPort, ready, front, strayed>>
    BY <1>11 DEF Listen, session, fields
  <2>3. Order => Order'
    BY <1>0, <2>1, <2>2, OrderListen
  <2> QED BY <2>2, <2>3 DEF FirstInv
<1>12. CASE Connect
  <2>1. /\ lib.port # 0 /\ UNCHANGED <<pc, attempt, socksPort, ready, front, strayed>>
        /\ Emits("connected", 0) /\ lib'.port = lib.port
    BY <1>0, <1>12 DEF Connect, Notify, Emits, session, fields, Libs
  <2>2. Order => Order'
    BY <2>1, OrderConnect
  <2> QED BY <2>1, <2>2 DEF FirstInv
<1>13. CASE Lose
  <2>1. /\ UNCHANGED <<pc, attempt, socksPort, ready, front, strayed, events>>
        /\ lib'.on = lib.on /\ lib'.owner = lib.owner /\ lib'.port = lib.port
    BY <1>0, <1>13 DEF Lose, session, fields, Libs
  <2> QED BY <1>k, <2>1
<1>14. CASE GiveUp
  <2>1. UNCHANGED <<pc, attempt, socksPort, ready, front, strayed>> /\ lib' = Off /\ events' = Exiting
    BY <1>14 DEF GiveUp, session, fields
  <2> QED BY <1>0, <1>k, <1>x, <2>1
<1>15. CASE ReportRegions
  <2>1. UNCHANGED <<pc, attempt, socksPort, ready, front, strayed, lib>> /\ Emits("regions", 0)
    BY <1>15 DEF ReportRegions, Notify, Emits, session, fields
  <2> QED BY <1>k, <2>1
<1>16. CASE Deliver
  <2>0. /\ events # <<>> /\ events' = Tail(events) /\ Head(events) = events[1] /\ events[1] \in Events
        /\ \/ events[1].kind = "port" /\ onListeningSocksProxyPort(events[1].port)
           \/ events[1].kind = "connected" /\ onConnected
           \/ events[1].kind = "exiting" /\ onExiting
           \/ events[1].kind = "regions" /\ onAvailableEgressRegions
    BY <1>16, DeliverCases
  <2>1. UNCHANGED <<pc, attempt, lib>>
    BY <1>16 DEF Deliver, session
  <2>2. ~strayed' => ~strayed /\ ~(events[1].from < attempt)
    <3>1. strayed' = (strayed \/ Head(events).from < attempt)
      BY <1>16 DEF Deliver
    <3> QED BY <2>0, <3>1, Zenon
  <2>3. 1 \in Waiting
    BY <2>0, TailFacts DEF Shapes
  <2>4. ~strayed' => events[1].from = attempt /\ pc \notin {"establish", "starting"}
    <3>1. /\ events[1].from \in Nat /\ attempt \in Nat /\ events[1].from <= attempt
          /\ pc \in {"establish", "starting"} => events[1].from # attempt
      <4>1. attempt \in Nat
        BY AttemptsFacts DEF TypeOK
      <4> QED BY <2>0, <2>3, <4>1 DEF QueueInv, Events, Tunnels
    <3> DEFINE late == events[1].from < attempt
               same == events[1].from = attempt
    <3>2. late \/ same
      BY <3>1
    <3> QED BY <2>2, <3>1, <3>2, Zenon
  <2>5. \/ events[1].kind = "port" /\ socksPort' = events[1].port /\ ready' = ready
        \/ /\ events[1].kind = "connected" /\ socksPort' = socksPort
           /\ ready' = IF ready = Pending THEN socksPort ELSE ready
        \/ socksPort' = socksPort /\ (ready' = ready \/ ready' \notin Ports)
    BY <1>0, <2>0 DEF onListeningSocksProxyPort, onConnected, onExiting, onAvailableEgressRegions, fields
  <2>6. Order /\ ~strayed' => Order'
    BY <1>0, <2>0, <2>1, <2>4, <2>5, OrderDelivered
  <2>7. ~strayed' /\ front'.running => front'.port = socksPort'
    <3>1. CASE events[1].kind = "port" /\ onListeningSocksProxyPort(events[1].port)
      <4>1. front' = retarget(events[1].port) /\ socksPort' = events[1].port
        BY <3>1 DEF onListeningSocksProxyPort
      <4> QED BY <1>0, <4>1 DEF retarget
    <3>2. CASE onConnected \/ onExiting \/ onAvailableEgressRegions
      <4>1. UNCHANGED <<front, socksPort>>
        BY <3>2 DEF onConnected, onExiting, onAvailableEgressRegions, fields
      <4> QED BY <2>2, <4>1 DEF FirstInv
    <3> QED BY <2>0, <3>1, <3>2
  <2> QED BY <2>1, <2>2, <2>4, <2>6, <2>7 DEF FirstInv
<1>17. CASE maybeRotate \/ rotateServer \/ Tick \/ rotating \/ cancel \/ UNCHANGED vars
  <2>1. UNCHANGED <<pc, attempt, socksPort, ready, front, strayed, events, lib>>
    BY <1>17 DEF maybeRotate, rotateServer, Tick, rotating, cancel, vars, session, fields
  <2> QED BY <1>k, <2>1
<1> QED BY <1>1, <1>2, <1>3, <1>4, <1>5, <1>6, <1>7, <1>8, <1>9, <1>10, <1>11, <1>12, <1>13, <1>14, <1>15,
      <1>16, <1>17 DEF Next

-----------------------------------------------------------------------------
(* The theorems.                                                           *)

LEMMA InitInv ==
    ASSUME Init
    PROVE  IInv
<1>1. Flags /\ GraceInv
  <2>1. Flags
    BY DEF Init, Flags
  <2>2. GraceInv
    BY DEF Init, GraceInv
  <2> QED BY <2>1, <2>2
<1>2. Shapes
  BY DEF Init, Shapes, buildConfig, Confs, Off, Libs, NoRegion, NoTunnel, NoFront
<1>3. TypeOK
  <2>1. attempt \in 0 .. Len(attempts)
    BY AttemptsFacts DEF Init
  <2>2. NoDeadline \in NoDeadline .. ROTATION_GRACE
    BY TransportAssumption DEF NoDeadline
  <2>3. /\ steerCursor \in 0 .. MaxRotations /\ rotations \in 0 .. MaxRotations
        /\ transportDead \in 0 .. TRANSPORT_DEAD_CONFIRMATIONS
    BY TransportAssumption DEF Init
  <2>4. /\ reach \subseteq Regions /\ socksPort \in Ports /\ ready = Pending /\ tunnel = NoTunnel
        /\ wanted \in Wishes /\ pc = "idle" /\ rotationDeadline = NoDeadline
        /\ availableRegions = {} /\ filtering = {} /\ ~front.running
    BY TransportAssumption DEF Init, NoFront
  <2>5. config.egress \in Regions \cup {NoRegion} /\ lib.egress \in Regions \cup {NoRegion}
    BY DEF Init, buildConfig, Off
  <2> QED BY <2>1, <2>2, <2>3, <2>4, <2>5 DEF TypeOK
<1>4. PhaseInv
  <2>1. pc = "idle" /\ attempt = 0 /\ tunnel = NoTunnel /\ ~front.running /\ rotation = NoRotation
        /\ ready = Pending
    BY DEF Init, NoFront
  <2>2. NoRotation \notin Calls
    BY DEF NoRotation, Calls
  <2>3. Pending # Stopped
    BY DEF Pending, Stopped
  <2> QED BY <2>1, <2>2, <2>3 DEF PhaseInv
<1>5. LibInv
  <2>1. NoRotation \notin Calls
    BY DEF NoRotation, Calls
  <2> QED BY <2>1 DEF Init, LibInv, Off
<1>6. CalmInv /\ FailsOnlyUnfiltered
  BY DEF Init, CalmInv, FailsOnlyUnfiltered
<1>7. QueueInv /\ TrackInv /\ FirstInv
  <2>1. /\ events = <<>> /\ pc = "idle" /\ lib.port = 0 /\ ~front.running
    BY DEF Init, Off, NoFront
  <2>2. Waiting = {}
    BY <2>1 DEF Waiting
  <2> QED BY <2>1, <2>2 DEF QueueInv, TrackInv, FirstInv
<1>8. SteerInv
  BY DEF Init, SteerInv, AutomaticSteersClean, buildConfig, Off
<1>9. CountInv
  <2>1. NoRotation \notin Claims
    BY DEF NoRotation, Claims
  <2> QED BY <2>1, TransportAssumption DEF Init, CountInv, Later
<1> QED BY <1>1, <1>2, <1>3, <1>4, <1>5, <1>6, <1>7, <1>8, <1>9 DEF IInv

LEMMA Inductive ==
    ASSUME IInv, [Next]_vars
    PROVE  IInv'
<1>0. /\ TypeOK /\ Flags /\ Shapes /\ PhaseInv /\ LibInv /\ CalmInv /\ FailsOnlyUnfiltered
      /\ QueueInv /\ TrackInv /\ FirstInv /\ SteerInv /\ GraceInv /\ CountInv
  BY DEF IInv
<1>1. Flags' /\ wanted' = wanted /\ reach' = reach
  BY <1>0, FlagsStep
<1>2. Shapes'
  BY <1>0, ShapesStep
<1>3. TypeOK'
  BY <1>0, <1>1, <1>2, TypeStep
<1>4. PhaseInv' /\ FailsOnlyUnfiltered' /\ LibInv' /\ CalmInv'
  BY <1>0, <1>1, PhaseStep, FailsOnlyStep, LibStep, CalmStep
<1>5. GraceInv' /\ CountInv' /\ SteerInv'
  BY <1>0, <1>1, GraceStep, CountStep, SteerStep
<1>6. QueueInv' /\ TrackInv' /\ FirstInv'
  BY <1>0, <1>1, QueueStep, TrackStep, FirstStep
<1> QED BY <1>1, <1>2, <1>3, <1>4, <1>5, <1>6 DEF IInv

LEMMA InvariantHolds == Spec => []IInv
<1>1. Init => IInv
  BY InitInv
<1>2. IInv /\ [Next]_vars => IInv'
  BY Inductive
<1> QED BY <1>1, <1>2, PTL DEF Spec

\* The transport, its front, the loop and the library stay within their types: the
\* deadline within the grace, the cursor within the rotations, the dead readings within
\* TRANSPORT_DEAD_CONFIRMATIONS.
THEOREM TypeCorrect == Spec => []TypeOK
<1>1. IInv => TypeOK
  BY DEF IInv
<1> QED BY <1>1, InvariantHolds, PTL

\* However rotations, the deadline and the halves of isAlive() interleave, at most one
\* dead reading of a streak falls within the grace of the latest rotation.
THEOREM RotationIsNotDeathHolds == Spec => []RotationIsNotDeath
<1>1. IInv => RotationIsNotDeath
  BY DEF IInv, GraceInv, RotationIsNotDeath
<1> QED BY <1>1, InvariantHolds, PTL

\* Once the callbacks are delivered the front's upstream is the port the library is
\* bound to, over any number of restarts and any order of start(), stop() and rotation,
\* as long as no callback of an abandoned attempt came late.
THEOREM FrontFollowsLibraryHolds == Spec => []FrontFollowsLibrary
<1>1. IInv => FrontFollowsLibrary
  <2> SUFFICES ASSUME IInv, front.running, tunnel # NoTunnel, lib.owner = tunnel, lib.port # 0,
                      ~strayed, ~\E i \in DOMAIN events : events[i].kind = "port"
               PROVE  front.port = lib.port
    BY DEF FrontFollowsLibrary
  <2>1. lib.owner = attempt
    BY DEF IInv, PhaseInv
  <2>2. Announced
    BY <2>1 DEF IInv, TrackInv
  <2>3. socksPort = lib.port
    BY <2>2 DEF Announced, Waiting
  <2> QED BY <2>3 DEF IInv, FirstInv
<1> QED BY <1>1, InvariantHolds, PTL

\* Under Automatic a steered controller runs in a reachable region without a convicted
\* server, or without a filter: whatever has been reported and convicted meanwhile.
THEOREM AutomaticSteersCleanHolds == Spec => []AutomaticSteersClean
<1>1. IInv => AutomaticSteersClean
  BY DEF IInv, SteerInv
<1> QED BY <1>1, InvariantHolds, PTL

\* start() fails only after the unfiltered attempt, and a stop() at rest ends the
\* library and the front for good.
THEOREM EndsAreCompleteHolds == Spec => []EndsAreComplete
<1>1. IInv => EndsAreComplete
  BY DEF IInv, CalmInv, CalmStopIsComplete, EndsAreComplete
<1> QED BY <1>1, InvariantHolds, PTL

=============================================================================
