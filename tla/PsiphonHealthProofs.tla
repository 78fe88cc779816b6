------------------------ MODULE PsiphonHealthProofs ------------------------
(* Machine-checked proofs about PsiphonHealth, for every set of servers,    *)
(* destinations and threads and every value of the thresholds.              *)
EXTENDS PsiphonHealth, TLAPS

-----------------------------------------------------------------------------
(* The shape of a health record.                                           *)

LEMMA ClearedType == Cleared \in Health
BY DEF Cleared, Health, AnyServer, NoTargets

\* Assigning one field a value of its type keeps a record well-typed.  The
\* operators of the watchdog assign several; they are proved by chaining.
LEMMA Put ==
    ASSUME NEW g \in Health
    PROVE  /\ \A v \in AnyServer : [g EXCEPT !.activeServer = v] \in Health
           /\ \A v \in Regions \cup {NoRegion} : [g EXCEPT !.activeRegion = v] \in Health
           /\ \A v \in SUBSET Servers : [g EXCEPT !.filtering = v] \in Health
           /\ \A v \in SUBSET Regions : [g EXCEPT !.filteringRegions = v] \in Health
           /\ \A v \in Nat : [g EXCEPT !.rotations = v] \in Health
           /\ \A v \in Nat : [g EXCEPT !.lastRotationAt = v] \in Health
           /\ \A v \in Nat : [g EXCEPT !.settleUntil = v] \in Health
           /\ \A v \in Nat : [g EXCEPT !.tunnelSince = v] \in Health
           /\ \A v \in [Targets -> Nat] : [g EXCEPT !.refusedTargets = v] \in Health
           /\ \A v \in Nat : [g EXCEPT !.windowStartedAt = v] \in Health
           /\ \A v \in Int : [g EXCEPT !.windowBaseFailures = v] \in Health
           /\ \A v \in {"none", "RECONNECT", "RESTART"} : [g EXCEPT !.order = v] \in Health
           /\ \A v \in AnyServer : [g EXCEPT !.downgraded = v] \in Health
           /\ \A v \in Nat : [g EXCEPT !.issued = v] \in Health
<1>1. \A v \in AnyServer : [g EXCEPT !.activeServer = v] \in Health
  BY DEF Health
<1>2. \A v \in Regions \cup {NoRegion} : [g EXCEPT !.activeRegion = v] \in Health
  BY DEF Health
<1>3. \A v \in SUBSET Servers : [g EXCEPT !.filtering = v] \in Health
  BY DEF Health
<1>4. \A v \in SUBSET Regions : [g EXCEPT !.filteringRegions = v] \in Health
  BY DEF Health
<1>5. \A v \in Nat : [g EXCEPT !.rotations = v] \in Health
  BY DEF Health
<1>6. \A v \in Nat : [g EXCEPT !.lastRotationAt = v] \in Health
  BY DEF Health
<1>7. \A v \in Nat : [g EXCEPT !.settleUntil = v] \in Health
  BY DEF Health
<1>8. \A v \in Nat : [g EXCEPT !.tunnelSince = v] \in Health
  BY DEF Health
<1>9. \A v \in [Targets -> Nat] : [g EXCEPT !.refusedTargets = v] \in Health
  BY DEF Health
<1>10. \A v \in Nat : [g EXCEPT !.windowStartedAt = v] \in Health
  BY DEF Health
<1>11. \A v \in Int : [g EXCEPT !.windowBaseFailures = v] \in Health
  BY DEF Health
<1>12. \A v \in {"none", "RECONNECT", "RESTART"} : [g EXCEPT !.order = v] \in Health
  BY DEF Health
<1>13. \A v \in AnyServer : [g EXCEPT !.downgraded = v] \in Health
  BY DEF Health
<1>14. \A v \in Nat : [g EXCEPT !.issued = v] \in Health
  BY DEF Health
<1> QED
  BY <1>1, <1>2, <1>3, <1>4, <1>5, <1>6, <1>7, <1>8, <1>9, <1>10, <1>11,
     <1>12, <1>13, <1>14

\* What the steps below read off a record.
LEMMA Fields ==
    ASSUME NEW g \in Health
    PROVE  /\ g.activeServer \in AnyServer /\ g.filtering \subseteq Servers
           /\ g.filteringRegions \subseteq Regions
           /\ g.serverRegions \in [Servers -> Regions \cup {NoRegion}]
           /\ g.rotations \in Nat /\ g.issued \in Nat
           /\ g.lastRotationAt \in Nat /\ g.settleUntil \in Nat
           /\ g.tunnelSince \in Nat /\ g.windowStartedAt \in Nat
           /\ g.windowBaseFailures \in Int
           /\ g.refusedTargets \in [Targets -> Nat]
BY DEF Health

\* The part of the record the rotation budget depends on.
SameBudget(g, f) ==
    /\ f.activeServer = g.activeServer /\ f.filtering = g.filtering
    /\ f.tunnelSince = g.tunnelSince
    /\ f.rotations = g.rotations /\ f.issued = g.issued

-----------------------------------------------------------------------------
(* What the private functions return.                                      *)

LEMMA EmptyWindowType ==
    ASSUME NEW g \in Health
    PROVE  EmptyWindow(g) \in Health /\ SameBudget(g, EmptyWindow(g))
<1> DEFINE a == [g EXCEPT !.refusedTargets = NoTargets]
           b == [a EXCEPT !.windowStartedAt = 0]
           c == [b EXCEPT !.windowBaseFailures = -1]
<1>1. NoTargets \in [Targets -> Nat]
  BY DEF NoTargets
<1>2. a \in Health
  BY <1>1, Put
<1>3. b \in Health
  BY <1>2, Put
<1>m. -1 \in Int
  OBVIOUS
<1>4. c \in Health
  <2> HIDE DEF b
  <2> QED BY <1>3, <1>m, Put
<1>5. EmptyWindow(g) \in Health
  BY <1>4 DEF EmptyWindow
<1>6. SameBudget(g, EmptyWindow(g))
  BY DEF EmptyWindow, SameBudget, Health
<1> QED BY <1>5, <1>6

LEMMA RollType ==
    ASSUME NEW g \in Health, NEW t \in Nat
    PROVE  openOrRollWindow(g, t) \in Health /\ SameBudget(g, openOrRollWindow(g, t))
<1> DEFINE e == EmptyWindow(g)
           w == [x \in Targets |-> IF t - g.refusedTargets[x] > WINDOW_MS
                                   THEN 0 ELSE g.refusedTargets[x]]
<1>1. /\ e \in Health /\ [e EXCEPT !.windowStartedAt = t] \in Health
      /\ SameBudget(g, [e EXCEPT !.windowStartedAt = t])
  <2>1. e \in Health /\ SameBudget(g, e)
    BY EmptyWindowType
  <2> HIDE DEF e
  <2>2. [e EXCEPT !.windowStartedAt = t] \in Health
    BY <2>1, Put
  <2>3. SameBudget(g, [e EXCEPT !.windowStartedAt = t])
    BY <2>1 DEF SameBudget, Health
  <2> QED BY <2>1, <2>2, <2>3
<1>2. /\ [g EXCEPT !.refusedTargets = w] \in Health
      /\ SameBudget(g, [g EXCEPT !.refusedTargets = w])
  <2>1. w \in [Targets -> Nat]
    BY Fields, ConstantsAssumption
  <2> HIDE DEF w
  <2>2. [g EXCEPT !.refusedTargets = w] \in Health
    BY <2>1, Put
  <2>3. SameBudget(g, [g EXCEPT !.refusedTargets = w])
    BY DEF SameBudget, Health
  <2> QED BY <2>2, <2>3
<1> QED BY <1>1, <1>2 DEF openOrRollWindow

LEMMA AdoptType ==
    ASSUME NEW g \in Health, NEW s \in Servers
    PROVE  /\ adoptServer(g, s) \in Health
           /\ adoptServer(g, s).activeServer = s
           /\ adoptServer(g, s).filtering = g.filtering
           /\ adoptServer(g, s).tunnelSince = g.tunnelSince
           /\ adoptServer(g, s).rotations = g.rotations
           /\ adoptServer(g, s).issued = g.issued
<1> DEFINE r == IF g.activeServer = s THEN g ELSE EmptyWindow(g)
           v == g.serverRegions[s]
           a == [r EXCEPT !.activeServer = s]
           b == [a EXCEPT !.activeRegion = v]
<1>1. r \in Health /\ SameBudget(g, r)
  BY EmptyWindowType DEF SameBudget
<1>2. v \in Regions \cup {NoRegion} /\ s \in AnyServer
  BY Fields DEF AnyServer
<1> HIDE DEF r, v
<1>3. a \in Health
  BY <1>1, <1>2, Put
<1>4. b \in Health
  BY <1>2, <1>3, Put
<1>5. /\ b.activeServer = s /\ b.filtering = g.filtering
      /\ b.tunnelSince = g.tunnelSince /\ b.rotations = g.rotations
      /\ b.issued = g.issued
  BY <1>1 DEF SameBudget, Health
<1>6. adoptServer(g, s) = b
  BY DEF adoptServer, r, v
<1> QED BY <1>4, <1>5, <1>6

LEMMA ConvictType ==
    ASSUME NEW g \in Health
    PROVE  /\ convict(g) \in Health
           /\ g.activeServer # NoServer => g.activeServer \in convict(g).filtering
           /\ convict(g).activeServer = g.activeServer
           /\ convict(g).tunnelSince = g.tunnelSince
           /\ convict(g).rotations = g.rotations
           /\ convict(g).issued = g.issued
<1>1. CASE g.activeServer = NoServer
  BY <1>1 DEF convict
<1>2. CASE g.activeServer # NoServer
  <2> DEFINE f == g.filtering \cup {g.activeServer}
             r == g.filteringRegions
                    \cup ({g.serverRegions[g.activeServer]} \ {NoRegion})
             a == [g EXCEPT !.filtering = f]
             b == [a EXCEPT !.filteringRegions = r]
  <2>1. f \in SUBSET Servers /\ r \in SUBSET Regions
    BY <1>2, Fields DEF AnyServer
  <2>2. convict(g) = b
    BY <1>2 DEF convict
  <2>3. g.activeServer \in f
    OBVIOUS
  <2> HIDE DEF f, r
  <2>4. a \in Health
    BY <2>1, Put
  <2>5. b \in Health
    BY <2>1, <2>4, Put
  <2>6. /\ b.filtering = f /\ b.activeServer = g.activeServer
        /\ b.tunnelSince = g.tunnelSince /\ b.rotations = g.rotations
        /\ b.issued = g.issued
    BY DEF Health
  <2> QED BY <2>2, <2>3, <2>5, <2>6
<1> QED BY <1>1, <1>2

LEMMA RotatedType ==
    ASSUME NEW g \in Health, NEW t \in Nat, NEW repeat \in BOOLEAN
    PROVE  /\ Rotated(g, t, repeat) \in Health
           /\ Rotated(g, t, repeat).rotations = g.rotations + 1
           /\ Rotated(g, t, repeat).issued = g.issued + 1
           /\ Rotated(g, t, repeat).activeServer = g.activeServer
           /\ Rotated(g, t, repeat).tunnelSince = g.tunnelSince
<1> DEFINE e == EmptyWindow(g)
           o == IF g.rotations = 0 /\ ~repeat THEN "RECONNECT" ELSE "RESTART"
           n == g.rotations + 1
           k == g.issued + 1
           u == t + SETTLE_MS
           a == [e EXCEPT !.rotations = n]
           b == [a EXCEPT !.lastRotationAt = t]
           c == [b EXCEPT !.settleUntil = u]
           d == [c EXCEPT !.downgraded = NoServer]
           p == [d EXCEPT !.order = o]
           q == [p EXCEPT !.issued = k]
<1>1. e \in Health /\ SameBudget(g, e)
  BY EmptyWindowType
<1>2. n \in Nat /\ k \in Nat /\ u \in Nat
  BY Fields, ConstantsAssumption
<1>3. o \in {"none", "RECONNECT", "RESTART"} /\ NoServer \in AnyServer
  BY DEF AnyServer
<1>4. Rotated(g, t, repeat) = q
  BY DEF Rotated
<1> HIDE DEF e, o, n, k, u
<1>5. a \in Health  BY <1>1, <1>2, Put
<1>6. b \in Health  BY <1>5, Put
<1>7. c \in Health  BY <1>2, <1>6, Put
<1>8. d \in Health  BY <1>3, <1>7, Put
<1>9. p \in Health  BY <1>3, <1>8, Put
<1>10. q \in Health BY <1>2, <1>9, Put
<1>11. /\ q.rotations = n /\ q.issued = k
       /\ q.activeServer = g.activeServer /\ q.tunnelSince = g.tunnelSince
  BY <1>1 DEF Health, SameBudget
<1> QED BY <1>4, <1>10, <1>11 DEF n, k

-----------------------------------------------------------------------------
(* The rotation budget.                                                    *)

\* The inductive invariant, on the record alone: every rotation handed out is
\* on the books, and a tunnel's start time comes with the server's name.  The
\* last part is what rules the refund out: a conviction always names the
\* active server before refundIfHealthy consults the blacklist.
BudgetInv(g) ==
    /\ g.issued = g.rotations
    /\ g.rotations <= MAX_ROTATIONS
    /\ g.tunnelSince # 0 => g.activeServer # NoServer

\* What every caller of maybeRotate has established.
NoRefundDue(g, t) ==
    \/ g.tunnelSince = 0
    \/ t - g.tunnelSince < HEALTHY_MS
    \/ g.activeServer \in g.filtering

LEMMA MaybeRotateBudget ==
    ASSUME NEW g \in Health, NEW t \in Nat, NEW repeat \in BOOLEAN,
           BudgetInv(g), NoRefundDue(g, t)
    PROVE  /\ maybeRotate(g, t, repeat) \in Health
           /\ BudgetInv(maybeRotate(g, t, repeat))
           /\ maybeRotate(g, t, repeat).rotations >= g.rotations
<1>1. refundIfHealthy(g, t) = g
  BY Fields, ConstantsAssumption DEF refundIfHealthy, NoRefundDue
<1>2. maybeRotate(g, t, repeat)
        = IF RotationAllowed(g, t, repeat) THEN Rotated(g, t, repeat) ELSE g
  BY <1>1 DEF maybeRotate
<1>3. CASE RotationAllowed(g, t, repeat)
  <2>1. g.rotations < MAX_ROTATIONS
    BY <1>3 DEF RotationAllowed
  <2>2. BudgetInv(Rotated(g, t, repeat))
    BY <2>1, RotatedType, Fields, ConstantsAssumption DEF BudgetInv
  <2>3. Rotated(g, t, repeat).rotations >= g.rotations
    <3>1. Rotated(g, t, repeat).rotations = g.rotations + 1
      BY RotatedType
    <3>2. g.rotations \in Nat
      BY Fields
    <3> QED BY <3>1, <3>2
  <2>4. maybeRotate(g, t, repeat) = Rotated(g, t, repeat)
    BY <1>2, <1>3
  <2> QED BY <2>2, <2>3, <2>4, RotatedType
<1>4. CASE ~RotationAllowed(g, t, repeat)
  BY <1>2, <1>4, Fields
<1> QED BY <1>3, <1>4

LEMMA RefusedBudget ==
    ASSUME NEW g \in Health, NEW x \in Targets, NEW t \in Nat, BudgetInv(g)
    PROVE  /\ Refused(g, x, t) \in Health
           /\ BudgetInv(Refused(g, x, t))
           /\ Refused(g, x, t).rotations >= g.rotations
<1> DEFINE w == openOrRollWindow(g, t)
           f == [w.refusedTargets EXCEPT ![x] = t]
           r == [w EXCEPT !.refusedTargets = f]
<1>1. w \in Health /\ SameBudget(g, w)
  BY RollType
<1>2. f \in [Targets -> Nat]
  BY <1>1, Fields
<1>3. [w EXCEPT !.refusedTargets[x] = t] = r
  OBVIOUS
<1>4. r \in Health
  <2> HIDE DEF w, f
  <2> QED BY <1>1, <1>2, Put
<1>5. /\ r.activeServer = g.activeServer /\ r.tunnelSince = g.tunnelSince
      /\ r.rotations = g.rotations /\ r.issued = g.issued
  <2> HIDE DEF w, f
  <2> QED BY <1>1 DEF Health, SameBudget
<1>6. Refused(g, x, t) = IF DistinctTargets(r) >= DISTINCT_TARGETS_TRIGGER
                         THEN maybeRotate(convict(r), t, FALSE) ELSE r
  BY <1>3 DEF Refused
<1> HIDE DEF r
<1>7. /\ maybeRotate(convict(r), t, FALSE) \in Health
      /\ BudgetInv(maybeRotate(convict(r), t, FALSE))
      /\ maybeRotate(convict(r), t, FALSE).rotations >= g.rotations
  <2>1. convict(r) \in Health /\ BudgetInv(convict(r))
    BY <1>4, <1>5, ConvictType DEF BudgetInv
  <2>2. NoRefundDue(convict(r), t)
    BY <1>4, <1>5, ConvictType DEF BudgetInv, NoRefundDue
  <2>3. convict(r).rotations = g.rotations
    BY <1>4, <1>5, ConvictType
  <2> QED BY <2>1, <2>2, <2>3, MaybeRotateBudget
<1>8. r \in Health /\ BudgetInv(r) /\ r.rotations >= g.rotations
  BY <1>4, <1>5, Fields DEF BudgetInv
<1> QED BY <1>6, <1>7, <1>8

LEMMA CountedFailuresBudget ==
    ASSUME NEW g \in Health, NEW s \in Servers, NEW n \in Nat, NEW t \in Nat,
           BudgetInv(g)
    PROVE  /\ CountedFailures(g, s, n, t) \in Health
           /\ BudgetInv(CountedFailures(g, s, n, t))
           /\ CountedFailures(g, s, n, t).rotations >= g.rotations
<1> DEFINE a == IF g.activeServer = NoServer THEN adoptServer(g, s) ELSE g
           w == openOrRollWindow(a, t)
           based == IF w.windowBaseFailures < 0
                    THEN [w EXCEPT !.windowBaseFailures = n] ELSE w
           rebased == [based EXCEPT !.windowBaseFailures = n]
           rot == maybeRotate(convict(based), t, FALSE)
           Good(r) == r \in Health /\ BudgetInv(r) /\ r.rotations >= g.rotations
<1>0. NoServer \notin Servers /\ n \in Int
  BY ServersAssumption
<1>1. a \in Health /\ BudgetInv(a) /\ a.rotations = g.rotations
  BY <1>0, AdoptType DEF BudgetInv
<1>2. w \in Health /\ SameBudget(a, w)
  <2> HIDE DEF a
  <2> QED BY <1>1, RollType
<1>3. based \in Health /\ SameBudget(a, based)
  <2> HIDE DEF a, w
  <2>1. [w EXCEPT !.windowBaseFailures = n] \in Health
    BY <1>0, <1>2, Put
  <2>2. SameBudget(a, [w EXCEPT !.windowBaseFailures = n])
    BY <1>2 DEF SameBudget, Health
  <2> QED BY <1>2, <2>1, <2>2
<1>4. rebased \in Health /\ SameBudget(a, rebased)
  <2> HIDE DEF a, w, based
  <2>1. rebased \in Health
    BY <1>0, <1>3, Put
  <2>2. SameBudget(a, rebased)
    BY <1>3 DEF SameBudget, Health
  <2> QED BY <2>1, <2>2
<1>5. CountedFailures(g, s, n, t) \in {a, rebased, based, rot}
  BY DEF CountedFailures
<1> HIDE DEF a, w, based, rebased
<1>6. Good(a) /\ Good(based) /\ Good(rebased)
  BY <1>1, <1>3, <1>4, Fields DEF BudgetInv, SameBudget
<1>7. Good(rot)
  <2>1. convict(based) \in Health /\ BudgetInv(convict(based))
    BY <1>3, <1>6, ConvictType DEF BudgetInv
  <2>2. NoRefundDue(convict(based), t)
    BY <1>3, <1>6, ConvictType DEF BudgetInv, NoRefundDue
  <2>3. convict(based).rotations = g.rotations
    BY <1>1, <1>3, ConvictType DEF SameBudget
  <2> QED BY <2>1, <2>2, <2>3, MaybeRotateBudget
<1> QED BY <1>5, <1>6, <1>7

LEMMA EstablishedBudget ==
    ASSUME NEW g \in Health, NEW s \in Servers, NEW t \in Nat,
           NEW known \in BOOLEAN, BudgetInv(g)
    PROVE  /\ Established(g, s, t, known) \in Health
           /\ BudgetInv(Established(g, s, t, known))
           /\ Established(g, s, t, known).rotations >= g.rotations
<1> DEFINE p == adoptServer(g, s)
           u == t + SETTLE_MS
           q == [p EXCEPT !.settleUntil = u]
           r == [q EXCEPT !.tunnelSince = t]
<1>1. /\ p \in Health /\ p.activeServer = s /\ p.rotations = g.rotations
      /\ p.issued = g.issued
  BY AdoptType
<1>2. u \in Nat /\ s # NoServer
  BY ConstantsAssumption, ServersAssumption
<1>3. Established(g, s, t, known) = IF known THEN maybeRotate(r, t, TRUE) ELSE r
  BY DEF Established
<1> HIDE DEF p, u
<1>4. q \in Health
  BY <1>1, <1>2, Put
<1>5. r \in Health
  <2> HIDE DEF q
  <2> QED BY <1>4, Put
<1>6. /\ r.activeServer = s /\ r.rotations = g.rotations
      /\ r.issued = g.issued /\ r.tunnelSince = t
  BY <1>1 DEF Health
<1> HIDE DEF r
<1>7. BudgetInv(r) /\ r.rotations >= g.rotations
  BY <1>2, <1>6, Fields DEF BudgetInv
<1>8. NoRefundDue(r, t)
  BY <1>6, ConstantsAssumption DEF NoRefundDue
<1> QED BY <1>3, <1>5, <1>6, <1>7, <1>8, MaybeRotateBudget

-----------------------------------------------------------------------------
(* The theorems about the specification.                                   *)

IInv == TypeOK /\ BudgetInv(h)

LEMMA InitIInv == Init => IInv
<1> SUFFICES ASSUME Init PROVE IInv
  OBVIOUS
<1>1. h \in Health
  BY ClearedType DEF Init
<1>2. notice \in Notices
  BY DEF Init, Notices
<1>3. from \in [Targets -> AnyServer] /\ relanded \in BOOLEAN
  BY DEF Init, AnyServer
<1>4. TypeOK
  BY <1>1, <1>2, <1>3 DEF Init, TypeOK, AnyServer
<1>5. BudgetInv(h)
  BY ConstantsAssumption DEF Init, BudgetInv, Cleared
<1> QED BY <1>4, <1>5 DEF IInv

LEMMA DelayedType ==
    ASSUME NEW cs \in SUBSET Calls
    PROVE  Delayed(cs) \subseteq Calls
<1>1. \A c \in Calls : [c EXCEPT !.late = TRUE] \in Calls
  BY DEF Calls
<1> QED BY <1>1 DEF Delayed

\* The fields of a pending notice.
LEMMA NoticeFields ==
    ASSUME NEW n \in Notices
    PROVE  /\ n.kind = "ActiveTunnel" =>
                 n.server \in Servers /\ n.at \in Nat /\ n.known \in BOOLEAN
           /\ n.kind = "Failures" =>
                 n.server \in Servers /\ n.at \in Nat /\ n.count \in Nat
BY DEF Notices, NoNotice

\* The rest of the type invariant.
EnvType ==
    /\ selfProbeTargets \subseteq ProbeTargets
    /\ calls \subseteq Calls
    /\ notice \in Notices
    /\ now \in Nat \ {0}
    /\ tunnel \in AnyServer /\ left \in AnyServer /\ drain \in Nat
    /\ failures \in Nat /\ sessions \in Nat
    /\ from \in [Targets -> AnyServer]
    /\ stray \subseteq Targets /\ relanded \in BOOLEAN

\* One step: the record stays well-typed, the budget invariant holds after it,
\* and within a session the rotation counter does not fall.
StepOK ==
    /\ h' \in Health /\ EnvType' /\ BudgetInv(h')
    /\ h.action /\ h'.action /\ sessions' = sessions => h'.rotations >= h.rotations

LEMMA StepIsOK == IInv /\ [Next]_vars => StepOK
<1> SUFFICES ASSUME IInv, [Next]_vars PROVE StepOK
  OBVIOUS
<1>0. /\ h \in Health /\ EnvType /\ BudgetInv(h)
      /\ h.rotations \in Nat /\ sessions \in Nat
  BY Fields DEF IInv, TypeOK, EnvType
<1>c. Delayed(calls) \subseteq Calls
  BY <1>0, DelayedType DEF EnvType
<1>1. CASE bind
  <2>0. h' = [Cleared EXCEPT !.action = TRUE]
    BY <1>1 DEF bind
  <2>a. h' \in Health
    BY <2>0, ClearedType DEF Health
  <2>b. h'.rotations = 0 /\ h'.issued = 0 /\ h'.tunnelSince = 0
    BY <2>0 DEF Cleared
  <2>1. h' \in Health /\ h'.rotations = 0 /\ h'.issued = 0 /\ h'.tunnelSince = 0
    BY <2>a, <2>b
  <2>2. BudgetInv(h')
    BY <2>1, ConstantsAssumption DEF BudgetInv
  <2>c. /\ UNCHANGED <<selfProbeTargets, notice, now, tunnel, failures, from>>
        /\ calls' = Delayed(calls) /\ stray' = {} /\ relanded' = FALSE
        /\ left' = NoServer /\ drain' = 0 /\ sessions' = sessions + 1
    BY <1>1 DEF bind
  <2>d. relanded' \in BOOLEAN
    BY <2>c, Zenon
  <2>e. sessions' \in Nat /\ NoServer \in AnyServer /\ drain' \in Nat
    BY <1>0, <2>c DEF AnyServer
  <2>f. calls' \subseteq Calls /\ stray' \subseteq Targets
    BY <1>c, <2>c
  <2>3. EnvType'
    BY <1>0, <2>c, <2>d, <2>e, <2>f DEF EnvType
  <2>4. sessions' # sessions
    BY <1>0, <1>1 DEF bind
  <2> QED BY <2>1, <2>2, <2>3, <2>4 DEF StepOK
<1>2. CASE reset
  <2>1. h' \in Health /\ h'.rotations = 0 /\ h'.issued = 0 /\ h'.tunnelSince = 0
    BY <1>2, ClearedType DEF reset, Cleared
  <2>2. BudgetInv(h')
    BY <2>1, ConstantsAssumption DEF BudgetInv
  <2>3. EnvType'
    BY <1>0, <1>2, <1>c DEF reset, EnvType, libVars
  <2>4. h'.action = FALSE
    BY <1>2 DEF reset, Cleared
  <2> QED BY <2>1, <2>2, <2>3, <2>4 DEF StepOK
<1>3. ASSUME NEW t \in ProbeTargets, registerSelfProbe(t) PROVE StepOK
  <2>1. h' = h
    BY <1>3 DEF registerSelfProbe
  <2>2. calls' \subseteq Calls
    <3>1. Delayed({c \in calls : c.target = t}) \subseteq Calls
      BY <1>0, DelayedType DEF EnvType
    <3> QED BY <1>0, <1>3, <3>1 DEF registerSelfProbe, EnvType
  <2>3. EnvType'
    BY <1>0, <1>3, <2>2 DEF registerSelfProbe, EnvType, libVars, ghosts
  <2> QED BY <1>0, <2>1, <2>3 DEF StepOK
<1>4. ASSUME NEW r \in Reporters, NEW t \in Targets, NEW s \in AnyServer,
             onDestinationRefused(r, t, s)
      PROVE  StepOK
  <2>1. h' = h
    BY <1>4 DEF onDestinationRefused
  <2>2. PICK l \in BOOLEAN :
            calls' = calls \cup {[thread |-> r, target |-> t, at |-> now, src |-> s, late |-> l]}
    <3>1. (now < h.tunnelSince + SETTLE_MS) \in BOOLEAN
      OBVIOUS
    <3> QED BY <1>4, <3>1, Zenon DEF onDestinationRefused
  <2>3. [thread |-> r, target |-> t, at |-> now, src |-> s, late |-> l] \in Calls
    BY <1>0 DEF Calls, EnvType
  <2>4. EnvType'
    BY <1>0, <1>4, <2>2, <2>3 DEF onDestinationRefused, EnvType, libVars, ghosts
  <2> QED BY <1>0, <2>1, <2>4 DEF StepOK
<1>5. ASSUME NEW c \in calls, RecordRefusal(c) PROVE StepOK
  <2>1. c.target \in Targets /\ c.at \in Nat /\ c.src \in AnyServer
    BY <1>0 DEF EnvType, Calls
  <2>2. h' = Refused(h, c.target, c.at)
    BY <1>5 DEF RecordRefusal
  <2>3. h' \in Health /\ BudgetInv(h') /\ h'.rotations >= h.rotations
    BY <1>0, <2>1, <2>2, RefusedBudget
  <2>4. EnvType'
    BY <1>0, <1>5, <2>1 DEF RecordRefusal, EnvType, libVars, AnyServer
  <2> QED BY <2>3, <2>4 DEF StepOK
<1>6. ASSUME NEW s \in Structural, StructuralRefusal(s) PROVE StepOK
  <2>1. h' = [h EXCEPT !.downgraded = s] /\ s \in AnyServer
    BY <1>6, ServersAssumption DEF StructuralRefusal, AnyServer
  <2>2. h' \in Health
    BY <1>0, <2>1, Put
  <2>3. BudgetInv(h') /\ h'.rotations = h.rotations
    BY <1>0, <2>1 DEF BudgetInv, Health
  <2>4. EnvType'
    BY <1>0, <1>6 DEF StructuralRefusal, EnvType, libVars, ghosts
  <2> QED BY <1>0, <2>2, <2>3, <2>4 DEF StepOK
<1>7. ASSUME NEW s \in Servers, onTunnelEstablished(s) PROVE StepOK
  <2> DEFINE f == [h.serverRegions EXCEPT ![s] = RegionOf[s]]
  <2>1. f \in [Servers -> Regions \cup {NoRegion}]
    BY <1>0, Fields, ServersAssumption
  <2>2. h' = [h EXCEPT !.serverRegions = f]
    BY <1>7 DEF onTunnelEstablished
  <2> HIDE DEF f
  <2>3. h' \in Health
    BY <1>0, <2>1, <2>2 DEF Health
  <2>4. BudgetInv(h') /\ h'.rotations = h.rotations
    BY <1>0, <2>2 DEF BudgetInv, Health
  <2>5. notice' \in Notices
    <3>1. (s \in h.filtering) \in BOOLEAN
      OBVIOUS
    <3> QED BY <1>0, <1>7, <3>1 DEF onTunnelEstablished, Notices, EnvType
  <2>6. EnvType'
    BY <1>0, <1>7, <2>5 DEF onTunnelEstablished, EnvType, ghosts, AnyServer
  <2> QED BY <1>0, <2>3, <2>4, <2>6 DEF StepOK
<1>8. CASE AdoptTunnel
  <2>1. notice.server \in Servers /\ notice.at \in Nat /\ notice.known \in BOOLEAN
    BY <1>0, <1>8, NoticeFields DEF AdoptTunnel, EnvType
  <2>2. h' = Established(h, notice.server, notice.at, notice.known)
    BY <1>8 DEF AdoptTunnel
  <2>3. h' \in Health /\ BudgetInv(h') /\ h'.rotations >= h.rotations
    BY <1>0, <2>1, <2>2, EstablishedBudget
  <2>4. NoNotice \in Notices
    BY DEF Notices
  <2>5. EnvType'
    BY <1>0, <1>8, <1>c, <2>1, <2>4 DEF AdoptTunnel, EnvType, libVars
  <2> QED BY <2>3, <2>5 DEF StepOK
<1>9. ASSUME NEW s \in Servers, onFailuresNotice(s) PROVE StepOK
  <2>1. h' = h
    BY <1>9 DEF onFailuresNotice
  <2>2. notice' \in Notices /\ failures' \in Nat
    BY <1>0, <1>9 DEF onFailuresNotice, Notices, EnvType
  <2>3. EnvType'
    BY <1>0, <1>9, <2>2 DEF onFailuresNotice, EnvType, libVars, ghosts
  <2> QED BY <1>0, <2>1, <2>3 DEF StepOK
<1>10. CASE CountFailures
  <2>1. notice.server \in Servers /\ notice.at \in Nat /\ notice.count \in Nat
    BY <1>0, <1>10, NoticeFields DEF CountFailures, EnvType
  <2>2. h' = CountedFailures(h, notice.server, notice.count, notice.at)
    BY <1>10 DEF CountFailures
  <2>3. h' \in Health /\ BudgetInv(h') /\ h'.rotations >= h.rotations
    BY <1>0, <2>1, <2>2, CountedFailuresBudget
  <2>4. NoNotice \in Notices
    BY DEF Notices
  <2>5. EnvType'
    BY <1>0, <1>10, <1>c, <2>4 DEF CountFailures, EnvType, libVars
  <2> QED BY <2>3, <2>5 DEF StepOK
<1>11. CASE TunnelDrops
  <2>1. h' = [h EXCEPT !.order = "none"]
    BY <1>11 DEF TunnelDrops
  <2>2. h' \in Health
    BY <1>0, <2>1, Put
  <2>3. BudgetInv(h') /\ h'.rotations = h.rotations
    BY <1>0, <2>1 DEF BudgetInv, Health
  <2>4. EnvType'
    BY <1>0, <1>11, ConstantsAssumption DEF TunnelDrops, EnvType, ghosts, AnyServer
  <2> QED BY <1>0, <2>2, <2>3, <2>4 DEF StepOK
<1>12. CASE Tick
  <2>1. h' = h
    BY <1>12 DEF Tick
  <2>2. EnvType'
    BY <1>0, <1>12 DEF Tick, EnvType, ghosts, AnyServer
  <2> QED BY <1>0, <2>1, <2>2 DEF StepOK
<1>13. CASE UNCHANGED vars
  <2>1. h' = h /\ sessions' = sessions /\ EnvType'
    BY <1>0, <1>13 DEF vars, EnvType
  <2> QED BY <1>0, <2>1 DEF StepOK
<1> QED
  BY <1>1, <1>2, <1>3, <1>4, <1>5, <1>6, <1>7, <1>8, <1>9, <1>10, <1>11,
     <1>12, <1>13 DEF Next

LEMMA NextIInv == IInv /\ [Next]_vars => IInv'
BY StepIsOK DEF StepOK, IInv, TypeOK, EnvType

\* The inductive invariant holds in every behaviour of the watchdog.
THEOREM Inductive == Spec => []IInv
<1> QED BY InitIInv, NextIInv, PTL DEF Spec

\* Every field of PsiphonHealth keeps its type, whatever the interleaving of
\* relay threads, notices, binds and resets.
THEOREM TypeCorrect == Spec => []TypeOK
<1>1. IInv => TypeOK
  BY DEF IInv
<1> QED BY <1>1, Inductive, PTL

\* For every number of threads, servers and destinations and every value of
\* the thresholds, one session hands out at most MAX_ROTATIONS rotations.
THEOREM RotationCapHolds == Spec => []RotationCap
<1>1. IInv => RotationCap
  BY DEF IInv, BudgetInv, RotationCap
<1> QED BY <1>1, Inductive, PTL

\* The rotation counter never falls within a session: the refund of
\* refundIfHealthy is unreachable for every choice of HEALTHY_MS > 0.
THEOREM BudgetOnlyShrinksHolds == Spec => BudgetOnlyShrinks
<1>1. IInv /\ [Next]_vars =>
        [h.action /\ h'.action /\ sessions' = sessions
            => h'.rotations >= h.rotations]_vars
  BY StepIsOK DEF StepOK
<1> QED BY <1>1, Inductive, PTL DEF Spec, BudgetOnlyShrinks

-----------------------------------------------------------------------------
(* The blacklist and the evidence.                                         *)

\* BlacklistAgrees and EvidenceFitsWindow, on the record alone.
Blacklist(g) == g.filteringRegions = {g.serverRegions[s] : s \in g.filtering} \ {NoRegion}

OneWindow(g) ==
    \A x \in Targets : g.refusedTargets[x] # 0 =>
        g.windowStartedAt # 0 /\ g.refusedTargets[x] <= g.windowStartedAt + WINDOW_MS

Sound(g) == Blacklist(g) /\ OneWindow(g)

\* What no private function but adoptServer changes, and how far a verdict goes:
\* it convicts the active server, and evidence may be dropped.
Session(g, f) ==
    f.action = g.action /\ f.serverRegions = g.serverRegions /\ f.tunnelSince = g.tunnelSince
Drops(g, f) == \A x \in Targets : f.refusedTargets[x] \in {0, g.refusedTargets[x]}
Keeps(g, f) ==
    /\ Session(g, f) /\ Drops(g, f) /\ f.activeServer = g.activeServer
    /\ f.filtering \subseteq g.filtering \cup ({g.activeServer} \ {NoServer})

LEMMA EmptyWindowKeeps ==
    ASSUME NEW g \in Health
    PROVE  /\ Session(g, EmptyWindow(g)) /\ EmptyWindow(g).activeServer = g.activeServer
           /\ EmptyWindow(g).filtering = g.filtering
           /\ EmptyWindow(g).filteringRegions = g.filteringRegions
           /\ EmptyWindow(g).refusedTargets = NoTargets
BY DEF EmptyWindow, Session, Health

LEMMA EmptyIsSound ==
    ASSUME NEW g \in Health, NEW f, Blacklist(g), Keeps(g, f), f.filtering = g.filtering,
           f.filteringRegions = g.filteringRegions, f.refusedTargets = NoTargets
    PROVE  Sound(f)
<1>1. Blacklist(f)
  BY DEF Blacklist, Keeps, Session
<1>2. OneWindow(f)
  BY DEF OneWindow, NoTargets
<1> QED BY <1>1, <1>2 DEF Sound

LEMMA RollKeeps ==
    ASSUME NEW g \in Health, NEW t \in Nat, t # 0, Sound(g)
    PROVE  /\ Sound(openOrRollWindow(g, t)) /\ Keeps(g, openOrRollWindow(g, t))
           /\ openOrRollWindow(g, t).windowStartedAt # 0
           /\ t <= openOrRollWindow(g, t).windowStartedAt + WINDOW_MS
<1> DEFINE e == EmptyWindow(g)
           a == [e EXCEPT !.windowStartedAt = t]
           w == [x \in Targets |-> IF t - g.refusedTargets[x] > WINDOW_MS
                                   THEN 0 ELSE g.refusedTargets[x]]
           b == [g EXCEPT !.refusedTargets = w]
<1>0. WINDOW_MS \in Nat /\ g.windowStartedAt \in Nat /\ g.refusedTargets \in [Targets -> Nat]
  BY ConstantsAssumption, Fields
<1>1. CASE g.windowStartedAt = 0 \/ t - g.windowStartedAt > WINDOW_MS
  <2>1. openOrRollWindow(g, t) = a
    BY <1>1 DEF openOrRollWindow
  <2>2. e \in Health /\ Session(g, e) /\ e.activeServer = g.activeServer
        /\ e.filtering = g.filtering /\ e.filteringRegions = g.filteringRegions
        /\ e.refusedTargets = NoTargets
    BY EmptyWindowType, EmptyWindowKeeps
  <2> HIDE DEF e
  <2>3. /\ a.windowStartedAt = t /\ Session(g, a) /\ a.activeServer = g.activeServer
        /\ a.filtering = g.filtering /\ a.filteringRegions = g.filteringRegions
        /\ a.refusedTargets = NoTargets
    BY <2>2 DEF Session, Health
  <2> HIDE DEF a
  <2>4. Keeps(g, a)
    BY <2>3 DEF Keeps, Drops, NoTargets
  <2>5. Sound(a)
    BY <2>3, <2>4, EmptyIsSound DEF Sound
  <2> QED BY <1>0, <2>1, <2>3, <2>4, <2>5
<1>2. CASE ~(g.windowStartedAt = 0 \/ t - g.windowStartedAt > WINDOW_MS)
  <2>1. openOrRollWindow(g, t) = b
    BY <1>2 DEF openOrRollWindow
  <2>2. \A x \in Targets : w[x] \in {0, g.refusedTargets[x]}
    OBVIOUS
  <2> HIDE DEF w
  <2>3. /\ b.windowStartedAt = g.windowStartedAt /\ Session(g, b) /\ b.activeServer = g.activeServer
        /\ b.filtering = g.filtering /\ b.filteringRegions = g.filteringRegions
        /\ b.refusedTargets = w
    BY DEF Session, Health
  <2> HIDE DEF b
  <2>4. Keeps(g, b)
    BY <2>2, <2>3 DEF Keeps, Drops
  <2>5. Blacklist(b)
    BY <2>3 DEF Sound, Blacklist, Session
  <2>6. OneWindow(b)
    BY <2>2, <2>3 DEF Sound, OneWindow
  <2>7. g.windowStartedAt # 0 /\ t <= g.windowStartedAt + WINDOW_MS
    BY <1>0, <1>2
  <2> QED BY <2>1, <2>3, <2>4, <2>5, <2>6, <2>7 DEF Sound
<1> QED BY <1>1, <1>2

LEMMA AdoptKeeps ==
    ASSUME NEW g \in Health, NEW s \in Servers, Sound(g)
    PROVE  /\ Sound(adoptServer(g, s)) /\ Session(g, adoptServer(g, s))
           /\ Drops(g, adoptServer(g, s))
           /\ g.activeServer # s => \A x \in Targets : adoptServer(g, s).refusedTargets[x] = 0
<1> DEFINE r == IF g.activeServer = s THEN g ELSE EmptyWindow(g)
           v == g.serverRegions[s]
           a == [r EXCEPT !.activeServer = s]
           b == [a EXCEPT !.activeRegion = v]
<1>1. r \in Health /\ Session(g, r) /\ Drops(g, r) /\ Sound(r)
      /\ (g.activeServer # s => \A x \in Targets : r.refusedTargets[x] = 0)
  <2>1. CASE g.activeServer = s
    BY <2>1 DEF Session, Drops
  <2>2. CASE g.activeServer # s
    <3>1. r = EmptyWindow(g)
      BY <2>2
    <3>2. Keeps(g, EmptyWindow(g))
      BY EmptyWindowKeeps DEF Keeps, Drops, NoTargets
    <3>3. Sound(EmptyWindow(g))
      BY <3>2, EmptyWindowKeeps, EmptyIsSound DEF Sound
    <3> QED BY <3>1, <3>2, <3>3, EmptyWindowType, EmptyWindowKeeps DEF Keeps, NoTargets
  <2> QED BY <2>1, <2>2
<1>2. adoptServer(g, s) = b
  BY DEF adoptServer
<1> HIDE DEF r, v
<1>3. /\ b.action = r.action /\ b.serverRegions = r.serverRegions /\ b.tunnelSince = r.tunnelSince
      /\ b.filtering = r.filtering /\ b.filteringRegions = r.filteringRegions
      /\ b.refusedTargets = r.refusedTargets /\ b.windowStartedAt = r.windowStartedAt
  BY <1>1 DEF Health
<1> HIDE DEF b
<1> QED BY <1>1, <1>2, <1>3 DEF Sound, Blacklist, OneWindow, Session, Drops

LEMMA ConvictKeeps ==
    ASSUME NEW g \in Health, Sound(g)
    PROVE  Sound(convict(g)) /\ Keeps(g, convict(g))
<1>1. CASE g.activeServer = NoServer
  BY <1>1 DEF convict, Keeps, Session, Drops
<1>2. CASE g.activeServer # NoServer
  <2> DEFINE f == g.filtering \cup {g.activeServer}
             r == g.filteringRegions
                    \cup ({g.serverRegions[g.activeServer]} \ {NoRegion})
             a == [g EXCEPT !.filtering = f]
             b == [a EXCEPT !.filteringRegions = r]
  <2>1. convict(g) = b
    BY <1>2 DEF convict
  <2>2. r = {g.serverRegions[s] : s \in f} \ {NoRegion}
    BY DEF Sound, Blacklist
  <2>3. f \subseteq g.filtering \cup ({g.activeServer} \ {NoServer})
    BY <1>2
  <2> HIDE DEF f, r
  <2>4. /\ b.action = g.action /\ b.serverRegions = g.serverRegions /\ b.tunnelSince = g.tunnelSince
        /\ b.filtering = f /\ b.filteringRegions = r /\ b.activeServer = g.activeServer
        /\ b.refusedTargets = g.refusedTargets /\ b.windowStartedAt = g.windowStartedAt
    BY DEF Health
  <2> HIDE DEF b
  <2>5. Blacklist(b)
    BY <2>2, <2>4 DEF Blacklist
  <2>6. OneWindow(b) /\ Keeps(g, b)
    BY <2>3, <2>4 DEF Sound, OneWindow, Keeps, Session, Drops
  <2> QED BY <2>1, <2>5, <2>6 DEF Sound
<1> QED BY <1>1, <1>2

LEMMA RotatedKeeps ==
    ASSUME NEW g \in Health, NEW t \in Nat, NEW repeat \in BOOLEAN, Sound(g)
    PROVE  Sound(Rotated(g, t, repeat)) /\ Keeps(g, Rotated(g, t, repeat))
<1> DEFINE e == EmptyWindow(g)
           q == Rotated(g, t, repeat)
<1>1. /\ e \in Health /\ Session(g, e) /\ e.activeServer = g.activeServer
      /\ e.filtering = g.filtering /\ e.filteringRegions = g.filteringRegions
      /\ e.refusedTargets = NoTargets
  BY EmptyWindowType, EmptyWindowKeeps
<1>2. q = [e EXCEPT
        !.rotations = g.rotations + 1,
        !.lastRotationAt = t,
        !.settleUntil = t + SETTLE_MS,
        !.downgraded = NoServer,
        !.order = IF g.rotations = 0 /\ ~repeat THEN "RECONNECT" ELSE "RESTART",
        !.issued = g.issued + 1]
  BY DEF Rotated
<1> HIDE DEF e, q
<1>3. /\ q.action = e.action /\ q.serverRegions = e.serverRegions /\ q.tunnelSince = e.tunnelSince
      /\ q.filtering = e.filtering /\ q.filteringRegions = e.filteringRegions
      /\ q.activeServer = e.activeServer /\ q.refusedTargets = e.refusedTargets
  BY <1>1, <1>2 DEF Health
<1>4. Keeps(g, q)
  BY <1>1, <1>3 DEF Keeps, Session, Drops, NoTargets
<1>5. Sound(q)
  BY <1>1, <1>3, <1>4, EmptyIsSound DEF Sound
<1> QED BY <1>4, <1>5 DEF q

LEMMA MaybeRotateKeeps ==
    ASSUME NEW g \in Health, NEW t \in Nat, NEW repeat \in BOOLEAN, Sound(g)
    PROVE  Sound(maybeRotate(g, t, repeat)) /\ Keeps(g, maybeRotate(g, t, repeat))
<1> DEFINE r == IF g.action THEN refundIfHealthy(g, t) ELSE g
<1>1. r \in {g, [g EXCEPT !.rotations = 0]}
  BY DEF refundIfHealthy
<1>2. maybeRotate(g, t, repeat) \in {r, Rotated(r, t, repeat)}
  BY DEF maybeRotate
<1> HIDE DEF r
<1>3. r \in Health
  <2>1. 0 \in Nat
    OBVIOUS
  <2>2. [g EXCEPT !.rotations = 0] \in Health
    BY <2>1, Put, Zenon
  <2> QED BY <1>1, <2>2, Zenon
<1>4. /\ r.action = g.action /\ r.serverRegions = g.serverRegions /\ r.tunnelSince = g.tunnelSince
      /\ r.filtering = g.filtering /\ r.filteringRegions = g.filteringRegions
      /\ r.activeServer = g.activeServer /\ r.refusedTargets = g.refusedTargets
      /\ r.windowStartedAt = g.windowStartedAt
  BY <1>1 DEF Health
<1>5. Sound(r) /\ Keeps(g, r)
  BY <1>4 DEF Sound, Blacklist, OneWindow, Keeps, Session, Drops
<1>6. Sound(Rotated(r, t, repeat)) /\ Keeps(r, Rotated(r, t, repeat))
  BY <1>3, <1>5, RotatedKeeps
<1>7. Keeps(g, Rotated(r, t, repeat))
  BY <1>4, <1>6 DEF Keeps, Session, Drops
<1> QED BY <1>2, <1>5, <1>6, <1>7

LEMMA VerdictKeeps ==
    ASSUME NEW g \in Health, NEW t \in Nat, Sound(g)
    PROVE  /\ Sound(maybeRotate(convict(g), t, FALSE))
           /\ Keeps(g, maybeRotate(convict(g), t, FALSE))
<1>1. convict(g) \in Health /\ Sound(convict(g)) /\ Keeps(g, convict(g))
  BY ConvictType, ConvictKeeps
<1>2. /\ Sound(maybeRotate(convict(g), t, FALSE))
      /\ Keeps(convict(g), maybeRotate(convict(g), t, FALSE))
  BY <1>1, MaybeRotateKeeps
<1> QED BY <1>1, <1>2 DEF Keeps, Session, Drops

LEMMA RefusedKeeps ==
    ASSUME NEW g \in Health, NEW x \in Targets, NEW t \in Nat, t # 0, Sound(g)
    PROVE  /\ Sound(Refused(g, x, t)) /\ Session(g, Refused(g, x, t))
           /\ Refused(g, x, t).activeServer = g.activeServer
           /\ Refused(g, x, t).filtering \subseteq g.filtering \cup ({g.activeServer} \ {NoServer})
           /\ \A y \in Targets \ {x} : Refused(g, x, t).refusedTargets[y] \in {0, g.refusedTargets[y]}
<1> DEFINE w == openOrRollWindow(g, t)
           f == [w.refusedTargets EXCEPT ![x] = t]
           r == [w EXCEPT !.refusedTargets = f]
           q == maybeRotate(convict(r), t, FALSE)
<1>1. /\ w \in Health /\ Sound(w) /\ Keeps(g, w) /\ w.windowStartedAt # 0
      /\ t <= w.windowStartedAt + WINDOW_MS
  BY RollType, RollKeeps
<1>2. Refused(g, x, t) \in {r, q}
  <2>1. [w EXCEPT !.refusedTargets[x] = t] = r
    OBVIOUS
  <2> QED BY <2>1 DEF Refused
<1> HIDE DEF w
<1>3. f \in [Targets -> Nat] /\ f[x] = t /\ \A y \in Targets \ {x} : f[y] = w.refusedTargets[y]
  BY <1>1, Fields
<1> HIDE DEF f
<1>4. r \in Health
  BY <1>1, <1>3, Put
<1>5. /\ r.action = w.action /\ r.serverRegions = w.serverRegions /\ r.tunnelSince = w.tunnelSince
      /\ r.filtering = w.filtering /\ r.filteringRegions = w.filteringRegions
      /\ r.activeServer = w.activeServer /\ r.refusedTargets = f
      /\ r.windowStartedAt = w.windowStartedAt
  BY <1>1 DEF Health
<1> HIDE DEF r
<1>6. Sound(r)
  <2>1. Blacklist(r)
    BY <1>1, <1>5 DEF Sound, Blacklist
  <2>2. OneWindow(r)
    BY <1>1, <1>3, <1>5 DEF Sound, OneWindow
  <2> QED BY <2>1, <2>2 DEF Sound
<1>7. Sound(q) /\ Keeps(r, q)
  BY <1>4, <1>6, VerdictKeeps
<1> HIDE DEF q
<1>8. /\ Session(g, r) /\ r.activeServer = g.activeServer
      /\ r.filtering \subseteq g.filtering \cup ({g.activeServer} \ {NoServer})
      /\ \A y \in Targets \ {x} : r.refusedTargets[y] \in {0, g.refusedTargets[y]}
  BY <1>1, <1>3, <1>5 DEF Keeps, Session, Drops
<1>9. /\ Session(g, q) /\ q.activeServer = g.activeServer
      /\ q.filtering \subseteq g.filtering \cup ({g.activeServer} \ {NoServer})
      /\ \A y \in Targets \ {x} : q.refusedTargets[y] \in {0, g.refusedTargets[y]}
  BY <1>7, <1>8 DEF Keeps, Session, Drops
<1> QED BY <1>2, <1>6, <1>7, <1>8, <1>9

LEMMA CountedKeeps ==
    ASSUME NEW g \in Health, NEW s \in Servers, NEW n \in Nat, NEW t \in Nat, t # 0, Sound(g)
    PROVE  LET c == CountedFailures(g, s, n, t)
           IN  /\ Sound(c) /\ Session(g, c) /\ Drops(g, c)
               /\ g.activeServer # NoServer => Keeps(g, c)
               /\ g.activeServer = NoServer => /\ c.activeServer = s
                                               /\ c.filtering \subseteq g.filtering \cup {s}
                                               /\ \A x \in Targets : c.refusedTargets[x] = 0
<1> DEFINE a == IF g.activeServer = NoServer THEN adoptServer(g, s) ELSE g
           w == openOrRollWindow(a, t)
           based == IF w.windowBaseFailures < 0
                    THEN [w EXCEPT !.windowBaseFailures = n] ELSE w
           rebased == [based EXCEPT !.windowBaseFailures = n]
           rot == maybeRotate(convict(based), t, FALSE)
           c == CountedFailures(g, s, n, t)
<1>0. NoServer \notin Servers /\ n \in Int
  BY ServersAssumption
<1>1. /\ a \in Health /\ Sound(a) /\ Session(g, a) /\ Drops(g, a) /\ a.filtering = g.filtering
      /\ g.activeServer # NoServer => a.activeServer = g.activeServer
      /\ g.activeServer = NoServer =>
            a.activeServer = s /\ \A x \in Targets : a.refusedTargets[x] = 0
  BY <1>0, AdoptType, AdoptKeeps DEF Session, Drops
<1>5. c \in {a, rebased, based, rot}
  BY DEF CountedFailures
<1> HIDE DEF a, c
<1>2. w \in Health /\ Sound(w) /\ Keeps(a, w)
  BY <1>1, RollType, RollKeeps
<1> HIDE DEF w
<1>3. based \in Health /\ Sound(based) /\ Keeps(a, based)
  <2>1. based \in Health
    BY <1>0, <1>2, Put
  <2>2. /\ based.action = w.action /\ based.serverRegions = w.serverRegions
        /\ based.tunnelSince = w.tunnelSince /\ based.filtering = w.filtering
        /\ based.filteringRegions = w.filteringRegions /\ based.activeServer = w.activeServer
        /\ based.refusedTargets = w.refusedTargets /\ based.windowStartedAt = w.windowStartedAt
    BY <1>2 DEF Health
  <2> HIDE DEF based
  <2> QED BY <1>2, <2>1, <2>2 DEF Sound, Blacklist, OneWindow, Keeps, Session, Drops
<1> HIDE DEF based
<1>4. Sound(rebased) /\ Keeps(a, rebased)
  <2>1. /\ rebased.action = based.action /\ rebased.serverRegions = based.serverRegions
        /\ rebased.tunnelSince = based.tunnelSince /\ rebased.filtering = based.filtering
        /\ rebased.filteringRegions = based.filteringRegions
        /\ rebased.activeServer = based.activeServer
        /\ rebased.refusedTargets = based.refusedTargets
        /\ rebased.windowStartedAt = based.windowStartedAt
    BY <1>3 DEF Health
  <2> HIDE DEF rebased
  <2> QED BY <1>3, <2>1 DEF Sound, Blacklist, OneWindow, Keeps, Session, Drops
<1>6. Sound(rot) /\ Keeps(a, rot)
  <2>1. Sound(rot) /\ Keeps(based, rot)
    BY <1>3, VerdictKeeps
  <2> HIDE DEF rot
  <2> QED BY <1>3, <2>1 DEF Keeps, Session, Drops
<1> HIDE DEF rebased, rot
<1>7. Sound(c) /\ Keeps(a, c)
  <2>1. Keeps(a, a)
    BY DEF Keeps, Session, Drops
  <2> QED BY <1>1, <1>3, <1>4, <1>5, <1>6, <2>1
<1>8. Session(g, c) /\ Drops(g, c)
  BY <1>1, <1>7 DEF Keeps, Session, Drops
<1>9. g.activeServer # NoServer => Keeps(g, c)
  BY <1>1, <1>7, <1>8 DEF Keeps
<1>10. g.activeServer = NoServer => /\ c.activeServer = s /\ c.filtering \subseteq g.filtering \cup {s}
                                    /\ \A x \in Targets : c.refusedTargets[x] = 0
  BY <1>1, <1>7 DEF Keeps, Drops
<1> QED BY <1>7, <1>8, <1>9, <1>10 DEF c

LEMMA EstablishedKeeps ==
    ASSUME NEW g \in Health, NEW s \in Servers, NEW t \in Nat, NEW known \in BOOLEAN, Sound(g)
    PROVE  LET e == Established(g, s, t, known)
           IN  /\ Sound(e) /\ e.action = g.action /\ e.serverRegions = g.serverRegions
               /\ e.tunnelSince = t /\ e.activeServer = s /\ Drops(g, e)
               /\ e.filtering \subseteq g.filtering \cup {s}
               /\ g.activeServer # s => \A x \in Targets : e.refusedTargets[x] = 0
<1> DEFINE p == adoptServer(g, s)
           u == t + SETTLE_MS
           q == [p EXCEPT !.settleUntil = u]
           r == [q EXCEPT !.tunnelSince = t]
           e == Established(g, s, t, known)
<1>1. /\ p \in Health /\ p.activeServer = s /\ p.filtering = g.filtering /\ Sound(p)
      /\ Session(g, p) /\ Drops(g, p)
      /\ g.activeServer # s => \A x \in Targets : p.refusedTargets[x] = 0
  BY AdoptType, AdoptKeeps
<1>2. u \in Nat
  BY ConstantsAssumption
<1>3. e \in {r, maybeRotate(r, t, TRUE)}
  BY DEF Established
<1> HIDE DEF p, u, e
<1>4. q \in Health
  BY <1>1, <1>2, Put
<1>5. r \in Health
  <2> HIDE DEF q
  <2> QED BY <1>4, Put
<1>6. /\ r.action = p.action /\ r.serverRegions = p.serverRegions /\ r.tunnelSince = t
      /\ r.filtering = p.filtering /\ r.filteringRegions = p.filteringRegions
      /\ r.activeServer = p.activeServer /\ r.refusedTargets = p.refusedTargets
      /\ r.windowStartedAt = p.windowStartedAt
  BY <1>1 DEF Health
<1> HIDE DEF r
<1>7. Sound(r) /\ Keeps(r, r)
  BY <1>1, <1>6 DEF Sound, Blacklist, OneWindow, Keeps, Session, Drops
<1>8. Sound(maybeRotate(r, t, TRUE)) /\ Keeps(r, maybeRotate(r, t, TRUE))
  BY <1>5, <1>7, MaybeRotateKeeps
<1>9. Sound(e) /\ Keeps(r, e)
  BY <1>3, <1>7, <1>8
<1>10. /\ e.action = g.action /\ e.serverRegions = g.serverRegions
       /\ e.tunnelSince = t /\ e.activeServer = s /\ Drops(g, e)
       /\ e.filtering \subseteq g.filtering \cup {s}
       /\ g.activeServer # s => \A x \in Targets : e.refusedTargets[x] = 0
  BY <1>1, <1>6, <1>9 DEF Keeps, Session, Drops
<1> QED BY <1>9, <1>10 DEF e

-----------------------------------------------------------------------------
(* Whose evidence it is.                                                   *)

\* A refusal by the server in use, by no server, or by the tunnel whose notice
\* is waiting for the lock.
Attributed(src) ==
    \/ src \in {h.activeServer, NoServer}
    \/ notice.kind = "ActiveTunnel" /\ src = notice.server

CallInv == \A c \in calls : c.at # 0 /\ (c.late \/ Attributed(c.src))
RecordInv == \A x \in Targets : h.refusedTargets[x] # 0 => x \in stray \/ Attributed(from[x])
NoticeInv == notice.kind # "none" => notice.at # 0

\* While a session is bound the tunnel that is up is the one in use.
TunnelInv ==
    /\ notice.kind = "ActiveTunnel" => tunnel \in {NoServer, notice.server}
    /\ h.action /\ notice.kind # "ActiveTunnel" => tunnel \in {NoServer, h.activeServer}

\* Another one drains only in the first DRAIN_MS of the tunnel that replaced it.
LeftInv ==
    /\ drain <= DRAIN_MS /\ (left # NoServer => drain > 0)
    /\ h.action /\ notice.kind = "ActiveTunnel" =>
          \/ left \in {NoServer, notice.server}
          \/ left = h.activeServer /\ tunnel # NoServer /\ now + drain <= notice.at + DRAIN_MS
    /\ h.action /\ notice.kind # "ActiveTunnel" =>
          \/ left \in {NoServer, h.activeServer}
          \/ tunnel # NoServer /\ now + drain <= h.tunnelSince + SETTLE_MS

\* The regions of the servers a session has met are known.
Met == {s \in Servers : \/ s \in h.filtering \cup {h.activeServer, tunnel, left}
                        \/ notice.kind # "none" /\ s = notice.server}
KnownInv == h.action => \A s \in Met : h.serverRegions[s] = RegionOf[s]

EInv == /\ Sound(h) /\ CallInv /\ RecordInv /\ NoticeInv /\ TunnelInv /\ LeftInv /\ KnownInv

LEMMA DelayedIs ==
    ASSUME NEW cs \in SUBSET Calls, \A c \in cs : c.at # 0
    PROVE  \A c \in Delayed(cs) : c.at # 0 /\ c.late
<1>1. \A c \in Calls : [c EXCEPT !.late = TRUE].at = c.at /\ [c EXCEPT !.late = TRUE].late
  BY DEF Calls
<1> QED BY <1>1 DEF Delayed

LEMMA InitEInv == Init => EInv
<1> SUFFICES ASSUME Init PROVE EInv
  OBVIOUS
<1>1. /\ h = Cleared /\ calls = {} /\ notice.kind = "none" /\ tunnel = NoServer /\ left = NoServer
      /\ drain = 0
  BY DEF Init, NoNotice
<1>2. /\ Cleared.action = FALSE /\ Cleared.filteringRegions = {} /\ Cleared.filtering = {}
      /\ \A x \in Targets : Cleared.refusedTargets[x] = 0
  BY DEF Cleared, NoTargets
<1>3. Sound(h)
  BY <1>1, <1>2 DEF Sound, Blacklist, OneWindow
<1>4. drain <= DRAIN_MS
  BY <1>1, ConstantsAssumption
<1> QED
  BY <1>1, <1>2, <1>3, <1>4 DEF EInv, CallInv, RecordInv, NoticeInv, TunnelInv, LeftInv, KnownInv

\* A session is bound or ends: no evidence, no convicts, and every call under way
\* is late.
LEMMA ClearedStep ==
    ASSUME TypeOK, EInv,
           /\ h'.filteringRegions = {} /\ h'.filtering = {} /\ h'.activeServer = NoServer
           /\ \A x \in Targets : h'.refusedTargets[x] = 0,
           calls' = Delayed(calls), notice' = notice, tunnel' = tunnel,
           left' \in {left, NoServer}, drain' \in {drain, 0}, left' # NoServer => drain' = drain,
           h'.action => tunnel = NoServer /\ left' = NoServer /\ notice = NoNotice
    PROVE  EInv'
<1>1. /\ h'.filteringRegions = {} /\ h'.filtering = {} /\ h'.activeServer = NoServer
      /\ \A x \in Targets : h'.refusedTargets[x] = 0
  OBVIOUS
<1>2. Sound(h')
  BY <1>1 DEF Sound, Blacklist, OneWindow
<1>3. CallInv'
  BY DelayedIs DEF EInv, CallInv, TypeOK
<1>4. RecordInv' /\ NoticeInv'
  BY <1>1 DEF EInv, RecordInv, NoticeInv
<1>5. TunnelInv'
  BY <1>1 DEF EInv, TunnelInv
<1>6. LeftInv'
  <2>1. drain' <= DRAIN_MS
    BY ConstantsAssumption DEF EInv, LeftInv
  <2> QED BY <1>1, <2>1 DEF EInv, LeftInv, NoNotice
<1>7. KnownInv'
  <2> SUFFICES ASSUME h'.action PROVE Met' = {}
    BY <1>1 DEF KnownInv
  <2> QED BY <1>1, ServersAssumption DEF Met, NoNotice
<1> QED BY <1>2, <1>3, <1>4, <1>5, <1>6, <1>7 DEF EInv

LEMMA bindEvidence == ASSUME TypeOK, EInv, bind PROVE EInv'
<1>1. /\ h'.filteringRegions = {} /\ h'.filtering = {} /\ h'.activeServer = NoServer
      /\ \A x \in Targets : h'.refusedTargets[x] = 0
  BY DEF bind, Cleared, NoTargets
<1> QED BY <1>1, ClearedStep DEF bind

LEMMA resetEvidence == ASSUME TypeOK, EInv, reset PROVE EInv'
<1>1. /\ h'.filteringRegions = {} /\ h'.filtering = {} /\ h'.activeServer = NoServer
      /\ \A x \in Targets : h'.refusedTargets[x] = 0
  BY DEF reset, Cleared, NoTargets
<1>2. ~h'.action
  BY DEF reset, Cleared
<1> QED BY <1>1, <1>2, ClearedStep DEF reset, libVars

LEMMA registerEvidence ==
    ASSUME TypeOK, EInv, NEW t \in ProbeTargets, registerSelfProbe(t) PROVE EInv'
<1>0. UNCHANGED <<h, notice, now, tunnel, left, drain, from, stray>>
  BY DEF registerSelfProbe, libVars, ghosts
<1>1. CallInv'
  <2>1. \A c \in Delayed({c \in calls : c.target = t}) : c.at # 0 /\ c.late
    BY DelayedIs DEF EInv, CallInv, TypeOK
  <2>2. \A c \in calls' : c \in calls \/ c \in Delayed({d \in calls : d.target = t})
    BY DEF registerSelfProbe
  <2> QED BY <1>0, <2>1, <2>2 DEF EInv, CallInv, Attributed
<1>2. Sound(h') /\ RecordInv' /\ NoticeInv' /\ TunnelInv' /\ LeftInv' /\ KnownInv'
  BY <1>0 DEF EInv, RecordInv, NoticeInv, TunnelInv, LeftInv, KnownInv, Met, Attributed
<1> QED BY <1>1, <1>2 DEF EInv

\* A refusal that passes the settle check comes from the tunnel in use, or in the
\* first SETTLE_MS of a tunnel.
LEMMA refusedEvidence ==
    ASSUME TypeOK, EInv, NEW r \in Reporters, NEW t \in Targets, NEW s \in AnyServer,
           onDestinationRefused(r, t, s)
    PROVE  EInv'
<1>0. /\ UNCHANGED <<h, notice, now, tunnel, left, drain, from, stray>>
      /\ h.action /\ s \in Refusers
  BY DEF onDestinationRefused, libVars, ghosts
<1>1. Attributed(s) \/ now < h.tunnelSince + SETTLE_MS
  <2>1. s \in {tunnel, left, NoServer}
    BY <1>0 DEF Refusers
  <2>2. CASE s = left /\ notice.kind # "ActiveTunnel" /\ left \notin {NoServer, h.activeServer}
    <3>1. now + drain <= h.tunnelSince + SETTLE_MS /\ drain > 0
      BY <1>0, <2>2 DEF EInv, LeftInv
    <3>2. now \in Nat /\ drain \in Nat /\ h.tunnelSince \in Nat /\ SETTLE_MS \in Nat
      BY Fields, ConstantsAssumption DEF TypeOK
    <3> QED BY <3>1, <3>2
  <2> QED BY <1>0, <2>1, <2>2 DEF EInv, TunnelInv, LeftInv, Attributed
<1>2. CallInv'
  <2>1. CallInv /\ now # 0
    BY DEF EInv, TypeOK
  <2>2. \A c \in calls : c.at # 0 /\ (c.late \/ Attributed(c.src)')
    BY <1>0, <2>1 DEF CallInv, Attributed
  <2>3. Attributed(s)' <=> Attributed(s)
    BY <1>0 DEF Attributed
  <2>4. PICK l \in BOOLEAN :
            /\ calls' = calls \cup {[thread |-> r, target |-> t, at |-> now, src |-> s, late |-> l]}
            /\ now < h.tunnelSince + SETTLE_MS => l
    <3>1. (now < h.tunnelSince + SETTLE_MS) \in BOOLEAN
      OBVIOUS
    <3> QED BY <3>1, Zenon DEF onDestinationRefused
  <2> QED BY <1>0, <1>1, <2>1, <2>2, <2>3, <2>4 DEF CallInv, Attributed
<1>3. Sound(h') /\ RecordInv' /\ NoticeInv' /\ TunnelInv' /\ LeftInv' /\ KnownInv'
  BY <1>0 DEF EInv, RecordInv, NoticeInv, TunnelInv, LeftInv, KnownInv, Met, Attributed
<1> QED BY <1>2, <1>3 DEF EInv

\* The body of a refusal: its target is recorded under its own source, and marked
\* when it is late; what else is on record stays as it is or goes.
LEMMA recordEvidence ==
    ASSUME TypeOK, EInv, NEW c \in calls, RecordRefusal(c) PROVE EInv'
<1>0. /\ h' = Refused(h, c.target, c.at) /\ calls' \subseteq calls
      /\ UNCHANGED <<notice, now, tunnel, left, drain>>
  BY DEF RecordRefusal, libVars
<1>1. /\ h \in Health /\ c.target \in Targets /\ c.at \in Nat /\ c.at # 0
      /\ c.late \/ Attributed(c.src)
  BY DEF TypeOK, Calls, EInv, CallInv
<1>2. /\ Sound(h') /\ Session(h, h') /\ h'.activeServer = h.activeServer
      /\ h'.filtering \subseteq h.filtering \cup ({h.activeServer} \ {NoServer})
      /\ \A y \in Targets \ {c.target} : h'.refusedTargets[y] \in {0, h.refusedTargets[y]}
  BY <1>0, <1>1, RefusedKeeps DEF EInv
<1>3. CallInv' /\ NoticeInv' /\ TunnelInv' /\ LeftInv'
  BY <1>0, <1>2 DEF EInv, CallInv, NoticeInv, TunnelInv, LeftInv, Attributed, Session
<1>4. RecordInv'
  <2> SUFFICES ASSUME NEW x \in Targets, h'.refusedTargets[x] # 0
               PROVE  \/ x \in stray' \/ from'[x] \in {h.activeServer, NoServer}
                      \/ notice.kind = "ActiveTunnel" /\ from'[x] = notice.server
    BY <1>0, <1>2 DEF RecordInv, Attributed
  <2>2. CASE x = c.target
    <3>1. from'[x] = c.src /\ (c.late => x \in stray')
      BY <2>2 DEF RecordRefusal
    <3> QED BY <1>1, <3>1 DEF Attributed
  <2>3. CASE x # c.target
    <3>1. from'[x] = from[x] /\ (x \in stray => x \in stray') /\ h.refusedTargets[x] # 0
      BY <1>2, <2>3 DEF RecordRefusal
    <3> QED BY <3>1 DEF EInv, RecordInv, Attributed
  <2> QED BY <2>2, <2>3
<1>5. KnownInv'
  BY <1>0, <1>2 DEF EInv, KnownInv, Met, Session
<1> QED BY <1>2, <1>3, <1>4, <1>5 DEF EInv

LEMMA structuralEvidence ==
    ASSUME TypeOK, EInv, NEW s \in Structural, StructuralRefusal(s) PROVE EInv'
<1>0. /\ h' = [h EXCEPT !.downgraded = s]
      /\ UNCHANGED <<calls, notice, now, tunnel, left, drain, from, stray>>
  BY DEF StructuralRefusal, libVars, ghosts
<1>1. /\ h'.action = h.action /\ h'.serverRegions = h.serverRegions /\ h'.tunnelSince = h.tunnelSince
      /\ h'.filtering = h.filtering /\ h'.filteringRegions = h.filteringRegions
      /\ h'.activeServer = h.activeServer /\ h'.refusedTargets = h.refusedTargets
      /\ h'.windowStartedAt = h.windowStartedAt
  BY <1>0 DEF TypeOK, Health
<1>2. Sound(h')
  BY <1>1 DEF EInv, Sound, Blacklist, OneWindow
<1>3. CallInv' /\ RecordInv' /\ NoticeInv' /\ TunnelInv' /\ LeftInv' /\ KnownInv'
  BY <1>0, <1>1 DEF EInv, CallInv, RecordInv, NoticeInv, TunnelInv, LeftInv, KnownInv, Met, Attributed
<1> QED BY <1>2, <1>3 DEF EInv

\* The region of a server is learned before anything is said about it, so that no
\* verdict has to be revised.
LEMMA establishedEvidence ==
    ASSUME TypeOK, EInv, NEW s \in Servers, onTunnelEstablished(s) PROVE EInv'
<1>0. /\ notice.kind = "none" /\ tunnel = NoServer /\ h.action /\ tunnel' = s
      /\ notice'.kind = "ActiveTunnel" /\ notice'.server = s /\ notice'.at = now
      /\ UNCHANGED <<calls, now, left, drain, from, stray>>
  BY DEF onTunnelEstablished, ghosts, NoNotice
<1>1. /\ h'.action = h.action /\ h'.tunnelSince = h.tunnelSince
      /\ h'.filtering = h.filtering /\ h'.filteringRegions = h.filteringRegions
      /\ h'.activeServer = h.activeServer /\ h'.refusedTargets = h.refusedTargets
      /\ h'.windowStartedAt = h.windowStartedAt
      /\ h'.serverRegions[s] = RegionOf[s]
      /\ \A y \in Servers \ {s} : h'.serverRegions[y] = h.serverRegions[y]
  <2> DEFINE f == [h.serverRegions EXCEPT ![s] = RegionOf[s]]
  <2>1. h' = [h EXCEPT !.serverRegions = f]
    BY DEF onTunnelEstablished
  <2>2. f[s] = RegionOf[s] /\ \A y \in Servers \ {s} : f[y] = h.serverRegions[y]
    BY Fields DEF TypeOK
  <2> HIDE DEF f
  <2> QED BY <2>1, <2>2 DEF TypeOK, Health
<1>2. \A y \in h.filtering : h'.serverRegions[y] = h.serverRegions[y]
  <2>1. h.filtering \subseteq Servers
    BY Fields DEF TypeOK
  <2>2. s \in h.filtering => h.serverRegions[s] = RegionOf[s]
    BY <1>0, <2>1 DEF EInv, KnownInv, Met
  <2> QED BY <1>1, <2>1, <2>2
<1>3. Sound(h')
  <2>1. {h'.serverRegions[y] : y \in h.filtering} = {h.serverRegions[y] : y \in h.filtering}
    BY <1>2
  <2> QED BY <1>1, <2>1 DEF EInv, Sound, Blacklist, OneWindow
<1>4. CallInv' /\ RecordInv' /\ NoticeInv' /\ TunnelInv'
  BY <1>0, <1>1 DEF EInv, CallInv, RecordInv, NoticeInv, TunnelInv, Attributed, TypeOK
<1>5. LeftInv'
  <2>1. now + drain <= now + DRAIN_MS /\ tunnel' # NoServer
    BY <1>0, ConstantsAssumption, ServersAssumption DEF EInv, LeftInv, TypeOK
  <2>2. left \in {NoServer, h.activeServer}
    BY <1>0 DEF EInv, LeftInv
  <2> QED BY <1>0, <1>1, <2>1, <2>2 DEF EInv, LeftInv
<1>6. KnownInv'
  <2> SUFFICES ASSUME NEW y \in Met', y # s PROVE h'.serverRegions[y] = RegionOf[y]
    BY <1>1 DEF KnownInv
  <2>1. y \in Servers /\ y \in h.filtering \cup {h.activeServer, left}
    BY <1>0, <1>1 DEF Met
  <2>2. h.serverRegions[y] = RegionOf[y]
    BY <1>0, <2>1 DEF EInv, KnownInv, Met
  <2> QED BY <1>1, <2>1, <2>2
<1> QED BY <1>3, <1>4, <1>5, <1>6 DEF EInv

LEMMA adoptEvidence == ASSUME TypeOK, EInv, AdoptTunnel PROVE EInv'
<1>0. /\ notice.kind = "ActiveTunnel" /\ notice'.kind = "none" /\ calls' = Delayed(calls)
      /\ h' = Established(h, notice.server, notice.at, notice.known)
      /\ stray' = IF notice.server = h.activeServer THEN stray ELSE {}
      /\ UNCHANGED <<now, tunnel, left, drain, from>>
  BY DEF AdoptTunnel, libVars, NoNotice
<1>1. h \in Health /\ notice.server \in Servers /\ notice.at \in Nat /\ notice.known \in BOOLEAN
  BY <1>0, NoticeFields DEF TypeOK
<1>2. /\ Sound(h') /\ h'.action = h.action /\ h'.serverRegions = h.serverRegions
      /\ h'.tunnelSince = notice.at /\ h'.activeServer = notice.server /\ Drops(h, h')
      /\ h'.filtering \subseteq h.filtering \cup {notice.server}
      /\ h.activeServer # notice.server => \A x \in Targets : h'.refusedTargets[x] = 0
  BY <1>0, <1>1, EstablishedKeeps DEF EInv
<1>3. CallInv'
  BY <1>0, DelayedIs DEF EInv, CallInv, TypeOK
<1>4. RecordInv'
  BY <1>0, <1>2 DEF EInv, RecordInv, Attributed, Drops
<1>5. NoticeInv' /\ TunnelInv'
  BY <1>0, <1>2 DEF EInv, NoticeInv, TunnelInv
<1>6. LeftInv'
  <2>1. now + drain <= notice.at + DRAIN_MS => now + drain <= notice.at + SETTLE_MS
    BY <1>1, ConstantsAssumption DEF TypeOK
  <2> QED BY <1>0, <1>2, <2>1 DEF EInv, LeftInv
<1>7. KnownInv'
  BY <1>0, <1>2 DEF EInv, KnownInv, Met
<1> QED BY <1>2, <1>3, <1>4, <1>5, <1>6, <1>7 DEF EInv

LEMMA failuresEvidence ==
    ASSUME TypeOK, EInv, NEW s \in Servers, onFailuresNotice(s) PROVE EInv'
<1>0. /\ notice.kind = "none" /\ notice'.kind = "Failures" /\ notice'.server = s /\ notice'.at = now
      /\ s \in {tunnel, left}
      /\ UNCHANGED <<h, calls, now, tunnel, left, drain, from, stray>>
  BY DEF onFailuresNotice, libVars, ghosts, NoNotice, Refusers
<1>1. Sound(h') /\ CallInv' /\ RecordInv' /\ NoticeInv' /\ TunnelInv' /\ LeftInv'
  BY <1>0 DEF EInv, CallInv, RecordInv, NoticeInv, TunnelInv, LeftInv, Attributed, TypeOK
<1>2. KnownInv'
  BY <1>0 DEF EInv, KnownInv, Met
<1> QED BY <1>1, <1>2 DEF EInv

LEMMA countEvidence == ASSUME TypeOK, EInv, CountFailures PROVE EInv'
<1>0. /\ notice.kind = "Failures" /\ notice'.kind = "none"
      /\ h' = CountedFailures(h, notice.server, notice.count, notice.at)
      /\ calls' = IF h.activeServer = NoServer THEN Delayed(calls) ELSE calls
      /\ stray' = IF h.activeServer = NoServer THEN {} ELSE stray
      /\ UNCHANGED <<now, tunnel, left, drain, from>>
  BY DEF CountFailures, libVars, NoNotice
<1>1. /\ h \in Health /\ notice.server \in Servers /\ notice.at \in Nat /\ notice.count \in Nat
      /\ notice.at # 0
  BY <1>0, NoticeFields DEF TypeOK, EInv, NoticeInv
<1>2. /\ Sound(h') /\ Session(h, h') /\ Drops(h, h')
      /\ h.activeServer # NoServer => Keeps(h, h')
      /\ h.activeServer = NoServer => /\ h'.activeServer = notice.server
                                      /\ h'.filtering \subseteq h.filtering \cup {notice.server}
                                      /\ \A x \in Targets : h'.refusedTargets[x] = 0
  BY <1>0, <1>1, CountedKeeps DEF EInv
<1>3. CASE h.activeServer = NoServer
  <2>1. CallInv'
    BY <1>0, <1>3, DelayedIs DEF EInv, CallInv, TypeOK
  <2>2. RecordInv' /\ NoticeInv' /\ TunnelInv' /\ LeftInv'
    BY <1>0, <1>2, <1>3 DEF EInv, RecordInv, NoticeInv, TunnelInv, LeftInv, Session
  <2>3. KnownInv'
    BY <1>0, <1>1, <1>2, <1>3 DEF EInv, KnownInv, Met, Session
  <2> QED BY <1>2, <2>1, <2>2, <2>3 DEF EInv
<1>4. CASE h.activeServer # NoServer
  <2>1. CallInv' /\ NoticeInv' /\ TunnelInv' /\ LeftInv'
    BY <1>0, <1>2, <1>4 DEF EInv, CallInv, NoticeInv, TunnelInv, LeftInv, Attributed, Session, Keeps
  <2>2. RecordInv'
    BY <1>0, <1>2, <1>4 DEF EInv, RecordInv, Attributed, Drops, Keeps
  <2>3. KnownInv'
    BY <1>0, <1>1, <1>2, <1>4 DEF EInv, KnownInv, Met, Session, Keeps
  <2> QED BY <1>2, <2>1, <2>2, <2>3 DEF EInv
<1> QED BY <1>3, <1>4

LEMMA dropsEvidence == ASSUME TypeOK, EInv, TunnelDrops PROVE EInv'
<1>0. /\ h' = [h EXCEPT !.order = "none"] /\ tunnel # NoServer /\ tunnel' = NoServer
      /\ left' = IF DRAIN_MS > 0 THEN tunnel ELSE NoServer
      /\ drain' = DRAIN_MS
      /\ UNCHANGED <<calls, notice, now, from, stray>>
  BY DEF TunnelDrops, ghosts
<1>1. /\ h'.action = h.action /\ h'.serverRegions = h.serverRegions /\ h'.tunnelSince = h.tunnelSince
      /\ h'.filtering = h.filtering /\ h'.filteringRegions = h.filteringRegions
      /\ h'.activeServer = h.activeServer /\ h'.refusedTargets = h.refusedTargets
      /\ h'.windowStartedAt = h.windowStartedAt
  BY <1>0 DEF TypeOK, Health
<1>2. Sound(h')
  BY <1>1 DEF EInv, Sound, Blacklist, OneWindow
<1>3. CallInv' /\ RecordInv' /\ NoticeInv' /\ TunnelInv'
  BY <1>0, <1>1 DEF EInv, CallInv, RecordInv, NoticeInv, TunnelInv, Attributed
<1>4. LeftInv'
  <2>1. drain' <= DRAIN_MS /\ (left' # NoServer => drain' > 0)
    BY <1>0, ConstantsAssumption
  <2>2. /\ h.action /\ notice.kind = "ActiveTunnel" => left' \in {NoServer, notice.server}
        /\ h.action /\ notice.kind # "ActiveTunnel" => left' \in {NoServer, h.activeServer}
    BY <1>0 DEF EInv, TunnelInv
  <2> QED BY <1>0, <1>1, <2>1, <2>2 DEF LeftInv
<1>5. KnownInv'
  <2>1. Met' \subseteq Met
    BY <1>0, <1>1, ServersAssumption DEF Met
  <2> QED BY <1>1, <2>1 DEF EInv, KnownInv
<1> QED BY <1>2, <1>3, <1>4, <1>5 DEF EInv

LEMMA tickEvidence == ASSUME TypeOK, EInv, Tick PROVE EInv'
<1>0. /\ now' = now + 1 /\ drain' = IF drain > 0 THEN drain - 1 ELSE 0
      /\ left' = IF drain > 1 THEN left ELSE NoServer
      /\ UNCHANGED <<h, calls, notice, tunnel, from, stray>>
  BY DEF Tick, ghosts
<1>1. Sound(h') /\ CallInv' /\ RecordInv' /\ NoticeInv' /\ TunnelInv'
  BY <1>0 DEF EInv, CallInv, RecordInv, NoticeInv, TunnelInv, Attributed
<1>2. LeftInv'
  <2>0. now \in Nat /\ drain \in Nat /\ DRAIN_MS \in Nat
    BY ConstantsAssumption DEF TypeOK
  <2>1. drain' <= DRAIN_MS /\ (left' # NoServer => drain' > 0 /\ now' + drain' = now + drain)
    BY <1>0, <2>0 DEF EInv, LeftInv
  <2>2. left' \in {left, NoServer}
    BY <1>0
  <2> QED BY <1>0, <2>1, <2>2 DEF EInv, LeftInv
<1>3. KnownInv'
  <2>1. Met' \subseteq Met
    BY <1>0, ServersAssumption DEF Met
  <2> QED BY <1>0, <2>1 DEF EInv, KnownInv
<1> QED BY <1>1, <1>2, <1>3 DEF EInv

LEMMA NextEInv == TypeOK /\ EInv /\ [Next]_vars => EInv'
<1> SUFFICES ASSUME TypeOK, EInv, [Next]_vars PROVE EInv'
  OBVIOUS
<1>1. CASE UNCHANGED vars
  BY <1>1 DEF vars, EInv, CallInv, RecordInv, NoticeInv, TunnelInv, LeftInv, KnownInv, Met, Attributed
<1> QED
  BY <1>1, bindEvidence, resetEvidence, registerEvidence, refusedEvidence, recordEvidence,
     structuralEvidence, establishedEvidence, adoptEvidence, failuresEvidence, countEvidence,
     dropsEvidence, tickEvidence DEF Next

\* The second inductive invariant holds in every behaviour of the watchdog.
THEOREM EvidenceInductive == Spec => []EInv
<1> QED BY InitEInv, NextEInv, TypeCorrect, PTL DEF Spec

\* convict and the ConnectedServer notice keep filteringRegions equal to the
\* regions of the convicted servers, for any number of servers and sessions.
THEOREM BlacklistAgreesHolds == Spec => []BlacklistAgrees
<1>1. EInv => BlacklistAgrees
  BY DEF EInv, Sound, Blacklist, BlacklistAgrees
<1> QED BY <1>1, EvidenceInductive, PTL

\* What a verdict is made of lies within one window and, late calls and a waiting
\* notice aside, was refused by the server in use, however many relay threads
\* stand between the settle check and the lock.
THEOREM EvidenceIsSoundHolds == Spec => []EvidenceIsSound
<1>1. EInv => EvidenceIsSound
  BY DEF EInv, Sound, OneWindow, RecordInv, Attributed, EvidenceIsSound,
      ForeignEvidenceIsInFlight, EvidenceFitsWindow
<1> QED BY <1>1, EvidenceInductive, PTL
=============================================================================
