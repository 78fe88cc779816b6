---------------------------- MODULE EngineProofs ----------------------------
(***************************************************************************)
(* Machine-checked proofs about the engine: EngineIdentity, for every set  *)
(* of organizations, devices and starts, every lifetime of a certificate   *)
(* and every number of crashes and refusals; NetStack, for every finite    *)
(* set of flows and every capacity and duration.                           *)
(***************************************************************************)
EXTENDS EngineIdentity, NetStack, FiniteSetTheorems, SequenceTheorems, TLAPS

-----------------------------------------------------------------------------
(* EngineIdentity.                                                          *)

-----------------------------------------------------------------------------
(* The inductive invariant, part by part.                                  *)

\* TypeOK with the file as a function and the hops still to be opened in full:
\* there is no torn file.
Typed ==
    /\ pc \in {"off", "menu", "chosen", "load", "refresh", "register", "enroll", "save", "rename", "ready"}
    /\ proto \in Protocols /\ team \in Teams \cup {None} /\ token \in Teams \cup {None}
    /\ id \in Identities /\ fresh \in BOOLEAN
    /\ file \in [Paths -> Identities \cup {Missing, Damaged}]
    /\ day \in 1 .. MaxDay /\ online \in BOOLEAN /\ crashes \in 0 .. MaxCrashes
    /\ revoked \subseteq Devices

\* A start works through its hops in order and has none left when it ends.
Working == pc \in {"load", "refresh", "register", "enroll", "save", "rename"}
TodoInv ==
    /\ Working => todo = Hops \/ (todo = <<2>> /\ proto \in {"gool", "mim"})
    /\ ~Working => todo = <<>>

\* The file of the hop that is being opened.
Here == Path(Head(todo))

\* No device is saved twice.
Apart == \A p, q \in Paths : Whole(file[p]) /\ Whole(file[q]) /\ p # q => file[p].dev # file[q].dev

\* The identity in hand: nobody else's file holds its device; it is the saved
\* one, or a new one in place of a saved one the service refused; over MASQUE it
\* has a valid certificate once enrolment is behind it.
InHand == pc \in {"refresh", "enroll", "save", "rename"}
HandInv ==
    InHand =>
        /\ \A q \in Paths : q # Here /\ Whole(file[q]) => file[q].dev # id.dev
        /\ Whole(file[Here]) => file[Here].dev = id.dev \/ file[Here].dev \in revoked
        /\ pc = "refresh" /\ ~fresh => file[Here] = id
        /\ Masque /\ pc # "enroll" => StillUsable(id)

\* Only a refused device is registered anew over.
RegisterInv ==
    pc = "register" => (Whole(file[Here]) => file[Here].dev \in revoked)

\* A hop that was opened is saved and, over MASQUE, within its lifetime.
Opened(hop) == Whole(file[Path(hop)]) /\ (Masque => StillUsable(file[Path(hop)]))
DoneInv ==
    /\ Working /\ todo # Hops => Opened(1)
    /\ pc = "ready" => Opened(1) /\ (proto \in {"gool", "mim"} => Opened(2))

IInv == Typed /\ TodoInv /\ Apart /\ HandInv /\ RegisterInv /\ DoneInv

-----------------------------------------------------------------------------
(* Facts about the parts of a state.                                       *)

LEMMA WholeFacts ==
    ASSUME Typed, NEW p \in Paths
    PROVE  /\ Whole(file[p]) <=> file[p] \in Identities
           /\ file[p] # Torn
BY FilesAssumption DEF Typed, Whole

LEMMA NoIdType == NoId \in Identities
<1>1. (CHOOSE d \in Devices : TRUE) \in Devices
  BY NamesAssumption
<1> QED BY <1>1, DaysAssumption DEF NoId, Identities

LEMMA PathFacts ==
    ASSUME Typed
    PROVE  /\ Path(1) \in Paths /\ Path(2) \in Paths /\ Path(1) # Path(2)
BY DEF Typed, Path, Paths, Scopes

\* What is left to do: the hop at hand and what comes after it.
LEMMA TodoFacts ==
    ASSUME Typed, TodoInv, Working
    PROVE  /\ Head(todo) \in {1, 2} /\ Here \in Paths
           /\ Tail(todo) = <<>> \/ (Tail(todo) = <<2>> /\ Head(todo) = 1)
           /\ todo = Hops => Head(todo) = 1
           /\ todo # Hops => Head(todo) = 2 /\ Tail(todo) = <<>>
           /\ Tail(todo) = <<2>> <=> (proto \in {"gool", "mim"} /\ todo = Hops)
<1>1. CASE todo = <<1>>
  BY <1>1, PathFacts DEF TodoInv, Hops, Here
<1>2. CASE todo = <<1, 2>>
  BY <1>2, PathFacts DEF TodoInv, Hops, Here
<1>3. CASE todo = <<2>>
  BY <1>3, PathFacts DEF TodoInv, Hops, Here
<1> QED BY <1>1, <1>2, <1>3 DEF TodoInv, Hops

\* The service has a name nobody holds: fewer devices are saved than there are.
LEMMA NewDeviceFacts ==
    ASSUME Typed
    PROVE  NewDevice \in Devices /\ NewDevice \notin InUse
<1> DEFINE S == {q \in Paths : Whole(file[q])}
           f == [q \in S |-> file[q].dev]
<1>1. InUse \subseteq Devices
  BY WholeFacts DEF InUse, Identities
<1>2. IsFiniteSet(S) /\ Cardinality(S) <= Cardinality(Paths)
  BY FS_Subset, DevicesAssumption
<1>3. f \in Surjection(S, InUse)
  BY DEF Surjection, InUse
<1>4. IsFiniteSet(InUse) /\ Cardinality(InUse) <= Cardinality(S)
  BY <1>2, <1>3, FS_Surjection
<1>5. InUse # Devices
  <2>1. Cardinality(S) \in Nat /\ Cardinality(Paths) \in Nat /\ Cardinality(InUse) \in Nat
    BY <1>2, <1>4, DevicesAssumption, FS_CardinalityType
  <2> SUFFICES ASSUME InUse = Devices PROVE FALSE
    OBVIOUS
  <2>2. Cardinality(Paths) < Cardinality(InUse)
    BY <1>4, DevicesAssumption
  <2> HIDE DEF S
  <2> QED BY <1>2, <1>4, <2>1, <2>2
<1>6. \E d \in Devices : d \notin InUse
  BY <1>1, <1>5
<1> QED BY <1>6 DEF NewDevice

-----------------------------------------------------------------------------
(* The initial states, and one lemma for each action or kind of action.    *)

LEMMA InitIInv == Init => IInv
<1> SUFFICES ASSUME Init PROVE IInv
  OBVIOUS
<1>1. proto \in Protocols /\ team \in Teams \cup {None}
  BY StartsAssumption DEF Init
<1>2. PICK first \in {Missing, Damaged} :
        file = [p \in Paths |-> IF p = Path(1) THEN first ELSE Missing]
  BY DEF Init
<1>3. Typed
  <2>1. file \in [Paths -> Identities \cup {Missing, Damaged}]
    BY <1>2
  <2>2. day \in 1 .. MaxDay /\ crashes \in 0 .. MaxCrashes /\ revoked \subseteq Devices
    BY DaysAssumption DEF Init
  <2>3. /\ pc = "off" /\ token = None /\ id = NoId /\ fresh = FALSE /\ online = TRUE
    BY DEF Init
  <2> QED BY <1>1, <2>1, <2>2, <2>3, NoIdType DEF Typed
<1>4. \A p \in Paths : ~Whole(file[p])
  BY <1>2 DEF Whole
<1>5. TodoInv /\ Apart /\ HandInv /\ RegisterInv /\ DoneInv
  BY <1>4 DEF Init, TodoInv, Working, Apart, HandInv, InHand, RegisterInv, DoneInv
<1> QED BY <1>3, <1>5 DEF IInv

\* A process that is not opening an identity: only Typed and Apart say anything.
LEMMA Resting ==
    ASSUME IInv, UNCHANGED <<file, revoked>>, Typed',
           pc' \in {"off", "menu", "chosen"}, todo' = <<>>
    PROVE  IInv'
<1>1. Apart'
  BY DEF IInv, Apart, Whole
<1>2. TodoInv' /\ HandInv' /\ RegisterInv' /\ DoneInv'
  BY DEF TodoInv, Working, HandInv, InHand, RegisterInv, DoneInv
<1> QED BY <1>1, <1>2 DEF IInv

\* The process ends, by an error, a crash or on its own.
LEMMA FailStep ==
    ASSUME IInv, Fail, UNCHANGED <<file, revoked, proto, team, day, online>>,
           token' \in Teams \cup {None}, crashes' \in 0 .. MaxCrashes
    PROVE  IInv'
<1>1. Typed'
  BY NoIdType DEF IInv, Typed, Fail
<1> QED BY <1>1, Resting DEF Fail

LEMMA StartStep ==
    ASSUME IInv, Start
    PROVE  IInv'
<1>1. PICK s \in Starts : proto' = s[1] /\ team' = s[2] /\ pc' = IF s[3] THEN "menu" ELSE "chosen"
  BY DEF Start
<1>2. Typed'
  BY <1>1, StartsAssumption DEF IInv, Typed, Start, workVars, worldVars
<1> QED BY <1>1, <1>2, Resting DEF IInv, TodoInv, Working, Start, workVars

LEMMA PickTeamStep ==
    ASSUME IInv, NEW t \in Teams, PickTeam(t)
    PROVE  IInv'
<1>1. Typed'
  BY DEF IInv, Typed, PickTeam, Resolved, workVars, worldVars
<1> QED BY <1>1, Resting DEF IInv, TodoInv, Working, PickTeam, workVars

LEMMA ChooseStep ==
    ASSUME IInv, Choose
    PROVE  IInv'
<1>0. /\ pc' = "load" /\ todo' = Hops
      /\ UNCHANGED <<proto, team, token, id, fresh, file, revoked, day, online, crashes>>
  BY DEF Choose, startVars, worldVars
<1>1. Typed' /\ Apart'
  BY <1>0 DEF IInv, Typed, Apart, Whole
<1>2. Hops' = Hops
  BY <1>0 DEF Hops
<1>3. TodoInv' /\ HandInv' /\ RegisterInv' /\ DoneInv'
  BY <1>0, <1>2 DEF TodoInv, Working, HandInv, InHand, RegisterInv, DoneInv
<1> QED BY <1>1, <1>3 DEF IInv

\* Steps of the world that the start in hand does not notice: nothing of the
\* invariant depends on the token, the API or the count of crashes.
LEMMA UnseenStep ==
    ASSUME IInv, UNCHANGED <<pc, proto, team, todo, id, fresh, file, revoked, day>>, Typed'
    PROVE  IInv'
<1>1. Here' = Here /\ Hops' = Hops /\ Masque' = Masque /\ Path(1)' = Path(1) /\ Path(2)' = Path(2)
  BY DEF Here, Path, Masque, Hops
<1>2. Opened(1)' = Opened(1) /\ Opened(2)' = Opened(2)
  BY <1>1 DEF Opened, StillUsable, Whole
<1>3. TodoInv' /\ Apart' /\ RegisterInv' /\ DoneInv'
  BY <1>1, <1>2 DEF IInv, TodoInv, Working, Apart, RegisterInv, DoneInv, Whole
<1>4. HandInv'
  BY <1>1 DEF IInv, HandInv, InHand, StillUsable, Whole
<1> QED BY <1>3, <1>4 DEF IInv

LEMMA WorldStep ==
    ASSUME IInv, TokenExpires \/ ApiTurns \/ UNCHANGED vars
    PROVE  IInv'
<1>1. Typed'
  BY DEF IInv, Typed, TokenExpires, ApiTurns, vars, startVars, workVars, worldVars
<1> QED BY <1>1, UnseenStep
        DEF TokenExpires, ApiTurns, vars, startVars, workVars, worldVars

\* The clock moves only while no start is under way.
LEMMA ClockStep ==
    ASSUME IInv, ClockMoves
    PROVE  IInv'
<1>1. Typed'
  BY DEF IInv, Typed, ClockMoves, startVars, workVars
<1> QED BY <1>1, Resting DEF IInv, TodoInv, Working, ClockMoves, startVars, workVars

\* A device is refused: it was in use, and refusals only add to what excuses a
\* new registration.
LEMMA RevokeStep ==
    ASSUME IInv, Revoke
    PROVE  IInv'
<1>0. UNCHANGED <<pc, proto, team, token, todo, id, fresh, file, day, online, crashes>>
  BY DEF Revoke, startVars, workVars, worldVars
<1>1. revoked \subseteq revoked' /\ revoked' \subseteq Devices
  <2>1. InUse \subseteq Devices
    BY WholeFacts DEF IInv, InUse, Identities
  <2> QED BY <2>1 DEF Revoke, IInv, Typed
<1>2. Typed'
  BY <1>0, <1>1 DEF IInv, Typed
<1>3. Here' = Here /\ Hops' = Hops /\ Masque' = Masque /\ Path(1)' = Path(1) /\ Path(2)' = Path(2)
  BY <1>0 DEF Here, Path, Masque, Hops
<1>4. Opened(1)' = Opened(1) /\ Opened(2)' = Opened(2)
  BY <1>0, <1>3 DEF Opened, StillUsable, Whole
<1>5. TodoInv' /\ Apart' /\ RegisterInv' /\ DoneInv'
  BY <1>0, <1>1, <1>3, <1>4 DEF IInv, TodoInv, Working, Apart, RegisterInv, DoneInv, Whole
<1>6. HandInv'
  BY <1>0, <1>1, <1>3 DEF IInv, HandInv, InHand, StillUsable, Whole
<1> QED BY <1>2, <1>5, <1>6 DEF IInv

-----------------------------------------------------------------------------
(* The steps of a start that opens an identity.                            *)

\* A step at the same hop that leaves the files alone: only the identity in hand
\* and what it may replace are to be shown.
LEMMA SameHop ==
    ASSUME IInv, Working, Working', UNCHANGED <<proto, team, todo, file, day>>,
           Typed', HandInv', RegisterInv'
    PROVE  IInv'
<1>1. Hops' = Hops /\ Masque' = Masque /\ Path(1)' = Path(1)
  BY DEF Path, Masque, Hops
<1>2. Opened(1)' = Opened(1)
  BY <1>1 DEF Opened, StillUsable, Whole
<1>3. TodoInv' /\ Apart' /\ DoneInv'
  BY <1>1, <1>2 DEF IInv, TodoInv, Apart, DoneInv, Whole, Working
<1> QED BY <1>3 DEF IInv

\* The hop is done: its file is good and the others are as they were.
LEMMA HopDone ==
    ASSUME IInv, Working, NextHop, UNCHANGED <<proto, team, day>>, Typed', Apart',
           \A q \in Paths : q # Here => file'[q] = file[q],
           \A h \in {1, 2} : h = Head(todo) => Opened(h)'
    PROVE  IInv'
<1>0. IInv /\ Working
  OBVIOUS
<1>1. Hops' = Hops /\ Masque' = Masque /\ Path(1)' = Path(1) /\ Path(2)' = Path(2)
  BY DEF Path, Masque, Hops
<1>2. Typed /\ TodoInv
  BY DEF IInv
<1>3. Path(1) \in Paths /\ Path(2) \in Paths /\ Path(1) # Path(2)
  BY <1>2, PathFacts
<1>4. pc' = IF Tail(todo) = <<>> THEN "ready" ELSE "load"
  BY DEF NextHop
<1>5. todo' = Tail(todo)
  BY DEF NextHop
<1>6. Hops = IF proto \in {"gool", "mim"} THEN <<1, 2>> ELSE <<1>>
  BY DEF Hops
<1>7. HandInv' /\ RegisterInv'
  BY <1>4 DEF HandInv, InHand, RegisterInv
<1>8. CASE Tail(todo) = <<2>>
  <2>1. Head(todo) = 1 /\ proto \in {"gool", "mim"}
    BY <1>0, <1>2, <1>8, TodoFacts
  <2>2. pc' = "load" /\ todo' = <<2>>
    BY <1>4, <1>5, <1>8
  <2>3. Opened(1)'
    BY <2>1
  <2>4. TodoInv'
    BY <2>1, <2>2 DEF TodoInv, Working
  <2>5. DoneInv'
    BY <2>2, <2>3 DEF DoneInv
  <2> QED BY <1>7, <2>4, <2>5 DEF IInv
<1>9. CASE Tail(todo) = <<>>
  <2>1. pc' = "ready" /\ todo' = <<>>
    BY <1>4, <1>5, <1>9
  <2>2. TodoInv'
    BY <2>1 DEF TodoInv, Working
  <2>3. CASE todo = Hops
    <3>0. Tail(todo) # <<2>>
      BY <1>9
    <3>1. Head(todo) = 1 /\ proto \notin {"gool", "mim"}
      BY <1>0, <1>2, <3>0, <2>3, TodoFacts
    <3>2. Opened(1)'
      BY <3>1
    <3> QED BY <1>7, <2>1, <2>2, <3>1, <3>2 DEF IInv, DoneInv, Working
  <2>4. CASE todo # Hops
    <3>1. Head(todo) = 2
      BY <1>0, <1>2, <2>4, TodoFacts
    <3>2. Opened(2)'
      BY <3>1
    <3>3. Opened(1)
      BY <2>4 DEF IInv, DoneInv
    <3>4. file'[Path(1)] = file[Path(1)]
      BY <1>3, <3>1 DEF Here
    <3>5. Opened(1)'
      BY <1>1, <3>3, <3>4 DEF Opened, StillUsable, Whole
    <3> QED BY <1>7, <2>1, <2>2, <3>2, <3>5 DEF IInv, DoneInv, Working
  <2> QED BY <2>3, <2>4
<1> QED BY <1>0, <1>2, <1>8, <1>9, TodoFacts

\* A saved identity the MASQUE session can use as it stands is within its lifetime.
LEMMA CredentialsUsable ==
    ASSUME NEW i \in Identities, day \in 1 .. MaxDay, HasCredentials(i)
    PROVE  StillUsable(i)
<1>1. day \in Nat /\ i.issued \in Nat /\ i.issued # 0
  BY DaysAssumption DEF Identities, HasCredentials
<1>2. ~(day < i.issued) /\ ~(day - i.issued + RenewBefore >= Lifetime)
  BY DEF HasCredentials, Expiring
<1> QED BY <1>1, <1>2, DaysAssumption DEF StillUsable

LEMMA LoadStep ==
    ASSUME IInv, Load
    PROVE  IInv'
<1> DEFINE p == Here
<1>0. /\ pc = "load" /\ Working /\ Typed /\ TodoInv /\ Apart
      /\ UNCHANGED <<proto, team, token, revoked, day, online, crashes>>
  BY DEF Load, Working, IInv, startVars, worldVars
<1>1. p \in Paths
  BY <1>0, TodoFacts
<1> HIDE DEF p
<1>2. CASE file[p] = Missing /\ pc' = "register" /\ UNCHANGED <<todo, id, fresh, file>>
  <2>1. Typed' /\ Working'
    BY <1>0, <1>2 DEF Typed, Working
  <2>2. Here' = Here
    BY <1>0, <1>2 DEF Here, Path, Masque
  <2>3. HandInv' /\ RegisterInv'
    BY <1>2, <2>2 DEF HandInv, InHand, RegisterInv, Whole, p
  <2> QED BY <1>0, <1>2, <2>1, <2>3, SameHop
<1>3. CASE file[p] \in {Damaged, Torn} /\ Fail /\ file' = Quarantined(p)
  <2>1. file' = [file EXCEPT ![p] = Missing]
    BY <1>3 DEF Quarantined
  <2>2. Typed'
    BY <1>0, <1>1, <1>3, <2>1, NoIdType DEF Typed, Fail
  <2>3. \A q \in Paths : Whole(file'[q]) => file'[q] = file[q]
    BY <1>0, <1>1, <2>1 DEF Typed, Whole
  <2>4. Apart'
    BY <1>0, <2>3 DEF Apart, Whole
  <2>5. TodoInv' /\ HandInv' /\ RegisterInv' /\ DoneInv'
    BY <1>3 DEF TodoInv, Working, HandInv, InHand, RegisterInv, DoneInv, Fail
  <2> QED BY <2>2, <2>4, <2>5 DEF IInv
<1>4. CASE /\ Whole(file[p]) /\ id' = file[p] /\ fresh' = FALSE
           /\ pc' = IF Masque /\ ~HasCredentials(file[p]) THEN "enroll" ELSE "refresh"
           /\ UNCHANGED <<todo, file>>
  <2>0. file[p] \in Identities
    BY <1>0, <1>1, <1>4, WholeFacts
  <2>1. Typed' /\ Working'
    BY <1>0, <1>4, <2>0 DEF Typed, Working
  <2>2. Here' = Here /\ Masque' = Masque
    BY <1>0, <1>4 DEF Here, Path, Masque
  <2>3. \A q \in Paths : q # p /\ Whole(file[q]) => file[q].dev # file[p].dev
    BY <1>0, <1>1, <1>4 DEF Apart
  <2>4. Masque /\ pc' # "enroll" => StillUsable(file[p])
    BY <1>0, <1>4, <2>0, CredentialsUsable DEF Typed
  <2>5. HandInv'
    BY <1>0, <1>4, <2>2, <2>3, <2>4 DEF HandInv, StillUsable, Whole, p
  <2>6. RegisterInv'
    BY <1>4 DEF RegisterInv
  <2> QED BY <1>0, <1>4, <2>1, <2>5, <2>6, SameHop
<1> QED BY <1>2, <1>3, <1>4 DEF Load, p, Here, workVars

LEMMA RefreshStep ==
    ASSUME IInv, Refresh
    PROVE  IInv'
<1>0. /\ pc = "refresh" /\ Working /\ Typed /\ TodoInv /\ Apart /\ HandInv /\ InHand
      /\ UNCHANGED <<proto, team, token, file, revoked, day, online, crashes>>
  BY DEF Refresh, Working, IInv, startVars, worldVars, InHand
<1>1. Here \in Paths /\ Head(todo) \in {1, 2}
  BY <1>0, TodoFacts
<1>2. CASE pc' = "save" /\ UNCHANGED <<todo, id, fresh>>
  <2>1. Typed' /\ Working'
    BY <1>0, <1>2 DEF Typed, Working
  <2>2. Here' = Here /\ Masque' = Masque
    BY <1>0, <1>2 DEF Here, Path, Masque
  <2>3. HandInv' /\ RegisterInv'
    BY <1>0, <1>2, <2>2 DEF HandInv, RegisterInv, StillUsable, Whole
  <2> QED BY <1>0, <1>2, <2>1, <2>3, SameHop
<1>3. CASE Refused /\ ~fresh /\ pc' = "register" /\ UNCHANGED <<todo, id, fresh>>
  <2>1. Typed' /\ Working'
    BY <1>0, <1>3 DEF Typed, Working
  <2>2. Here' = Here /\ file[Here] = id /\ id.dev \in revoked
    BY <1>0, <1>3 DEF Here, Path, Masque, HandInv, Refused
  <2>3. HandInv' /\ RegisterInv'
    BY <1>0, <1>3, <2>2 DEF HandInv, InHand, RegisterInv
  <2> QED BY <1>0, <1>3, <2>1, <2>3, SameHop
<1>4. CASE Refused /\ ~fresh /\ NextHop /\ UNCHANGED <<id, fresh>>
  <2>1. Typed' /\ Apart'
    BY <1>0, <1>4 DEF Typed, Apart, Whole, NextHop
  <2>2. file[Here] = id /\ (Masque => StillUsable(id))
    BY <1>0, <1>4 DEF HandInv
  <2>3. Whole(file[Here])
    BY <1>0, <1>1, <2>2, WholeFacts DEF Typed
  <2>4. Opened(Head(todo))
    BY <2>2, <2>3 DEF Opened, Here
  <2>5. \A h \in {1, 2} : h = Head(todo) => Opened(h)'
    BY <1>0, <2>4 DEF Opened, Path, Masque, StillUsable, Whole
  <2> QED BY <1>0, <1>4, <2>1, <2>5, HopDone
<1> QED BY <1>2, <1>3, <1>4 DEF Refresh, workVars

\* What is registered is new: no file holds it, and it takes the place of a
\* refused device or of none.
LEMMA RegisterStep ==
    ASSUME IInv, Register
    PROVE  IInv'
<1>0. /\ pc = "register" /\ Working /\ Typed /\ TodoInv /\ RegisterInv
      /\ UNCHANGED <<proto, team, file, day, online, crashes>>
  BY DEF Register, Working, IInv, worldVars
<1>1. Here \in Paths
  BY <1>0, TodoFacts
<1>2. token' \in Teams \cup {None}
  BY <1>0 DEF Register, Typed, Resolved
<1>3. CASE ~Answers /\ Fail /\ UNCHANGED revoked
  BY <1>0, <1>2, <1>3, FailStep DEF Typed
<1>4. CASE /\ id' = Provisioned(NewDevice) /\ revoked' = revoked \ {NewDevice}
           /\ fresh' = TRUE /\ pc' = IF Masque THEN "enroll" ELSE "refresh"
           /\ UNCHANGED todo
  <2>1. NewDevice \in Devices /\ NewDevice \notin InUse
    BY <1>0, NewDeviceFacts
  <2>2. \A q \in Paths : Whole(file[q]) => file[q].dev # NewDevice
    BY <2>1 DEF InUse
  <2>3. id' \in Identities /\ id'.dev = NewDevice
    BY <1>0, <1>4, <2>1, DaysAssumption DEF Provisioned, Identities, Resolved, Typed
  <2>4. revoked' \subseteq Devices
    BY <1>0, <1>4 DEF Typed
  <2>5. Typed' /\ Working'
    BY <1>0, <1>2, <1>4, <2>3, <2>4 DEF Typed, Working
  <2>6. Here' = Here /\ Masque' = Masque
    BY <1>0, <1>4 DEF Here, Path, Masque
  <2>7. Whole(file[Here]) => file[Here].dev \in revoked'
    BY <1>0, <1>1, <1>4, <2>2 DEF RegisterInv
  <2>8. HandInv'
    BY <1>0, <1>4, <2>2, <2>3, <2>6, <2>7 DEF HandInv, Whole
  <2>9. RegisterInv'
    BY <1>4 DEF RegisterInv
  <2> QED BY <1>0, <1>4, <2>5, <2>8, <2>9, SameHop
<1> QED BY <1>3, <1>4 DEF Register

LEMMA EnrollStep ==
    ASSUME IInv, Enroll \/ EnrollFails
    PROVE  IInv'
<1>0. /\ pc = "enroll" /\ Working /\ Typed /\ TodoInv /\ HandInv /\ InHand
      /\ UNCHANGED <<proto, team, token, file, revoked, day, online, crashes>>
  BY DEF Enroll, EnrollFails, Working, IInv, InHand, startVars, worldVars
<1>1. day \in Nat \ {0}
  BY <1>0, DaysAssumption DEF Typed
<1>2. CASE Fail
  BY <1>0, <1>2, FailStep DEF Typed
<1>3. CASE /\ Certified /\ UNCHANGED <<todo, fresh>>
           /\ id' \in Identities /\ id'.dev = id.dev /\ StillUsable(id)'
  <2>1. pc' = IF fresh THEN "refresh" ELSE "save"
    BY <1>3 DEF Certified
  <2>2. Typed' /\ Working'
    BY <1>0, <1>3, <2>1 DEF Typed, Working
  <2>3. Here' = Here /\ Masque' = Masque
    BY <1>0, <1>3 DEF Here, Path, Masque
  <2>4. HandInv'
    BY <1>0, <1>3, <2>1, <2>3 DEF HandInv, Whole
  <2>5. RegisterInv'
    BY <2>1 DEF RegisterInv
  <2> QED BY <1>0, <1>3, <2>2, <2>4, <2>5, SameHop
<1>4. CASE Enroll
  <2>1. id' = [id EXCEPT !.issued = day]
    BY <1>4 DEF Enroll
  <2>2. id' \in Identities /\ id'.dev = id.dev /\ id'.issued = day
    BY <1>0, <2>1 DEF Typed, Identities
  <2>3. StillUsable(id)'
    BY <1>0, <1>1, <2>2, DaysAssumption DEF StillUsable
  <2> QED BY <1>3, <1>4, <2>2, <2>3 DEF Enroll
<1>5. CASE EnrollFails
  <2>1. CASE StillUsable(id)
    <3>1. Certified /\ UNCHANGED <<todo, id, fresh>>
      BY <1>5, <2>1 DEF EnrollFails, workVars
    <3>2. id' \in Identities /\ id'.dev = id.dev /\ StillUsable(id)'
      BY <1>0, <2>1, <3>1 DEF Typed, StillUsable
    <3> QED BY <1>3, <3>1, <3>2
  <2>2. CASE ~StillUsable(id)
    BY <1>2, <1>5, <2>2 DEF EnrollFails
  <2> QED BY <2>1, <2>2
<1> QED BY <1>4, <1>5

LEMMA SaveStep ==
    ASSUME IInv, Save
    PROVE  IInv'
<1>0. /\ pc = "save" /\ pc' = "rename" /\ Working /\ Typed /\ HandInv
      /\ UNCHANGED <<proto, team, token, todo, id, fresh, file, revoked, day, online, crashes>>
  BY DEF Save, Written, Working, IInv, startVars, workVars, worldVars
<1>1. Typed' /\ Working'
  BY <1>0 DEF Typed, Working
<1>2. Here' = Here /\ Masque' = Masque
  BY <1>0 DEF Here, Path, Masque
<1>3. HandInv' /\ RegisterInv'
  BY <1>0, <1>2 DEF HandInv, InHand, RegisterInv, StillUsable, Whole
<1> QED BY <1>0, <1>1, <1>3, SameHop

LEMMA RenameStep ==
    ASSUME IInv, Rename
    PROVE  IInv'
<1>0. /\ pc = "rename" /\ Working /\ InHand /\ Typed /\ TodoInv /\ Apart /\ HandInv /\ NextHop
      /\ UNCHANGED <<proto, team, token, id, fresh, revoked, day, online, crashes>>
      /\ file' = [file EXCEPT ![Here] = id]
  BY DEF Rename, Here, Working, InHand, IInv, startVars, worldVars
<1>1. Here \in Paths /\ Head(todo) \in {1, 2}
  BY <1>0, TodoFacts
<1>2. /\ file'[Here] = id
      /\ \A q \in Paths : q # Here => file'[q] = file[q]
  BY <1>0, <1>1 DEF Typed
<1>3. Typed'
  BY <1>0, <1>1 DEF Typed, NextHop
<1>4. Apart'
  <2> SUFFICES ASSUME NEW p \in Paths, NEW q \in Paths, p # q, Whole(file'[p]), Whole(file'[q])
               PROVE  file'[p].dev # file'[q].dev
    BY DEF Apart, Whole
  <2>1. CASE p # Here /\ q # Here
    BY <1>0, <1>2, <2>1 DEF Apart
  <2>2. CASE p = Here
    BY <1>0, <1>2, <2>2 DEF HandInv
  <2>3. CASE q = Here
    BY <1>0, <1>2, <2>3 DEF HandInv
  <2> QED BY <2>1, <2>2, <2>3
<1>5. Whole(id) /\ (Masque => StillUsable(id))
  BY <1>0, FilesAssumption DEF HandInv, Typed, Whole
<1>6. \A h \in {1, 2} : h = Head(todo) => Opened(h)'
  BY <1>0, <1>2, <1>5 DEF Opened, Path, Masque, StillUsable, Whole, Here
<1> QED BY <1>0, <1>2, <1>3, <1>4, <1>6, HopDone

-----------------------------------------------------------------------------
(* The theorems.                                                           *)

LEMMA NextIInv ==
    ASSUME IInv, [Next]_vars
    PROVE  IInv'
<1>1. CASE Start
  BY <1>1, StartStep
<1>2. CASE \E t \in Teams : PickTeam(t)
  BY <1>2, PickTeamStep
<1>3. CASE Choose
  BY <1>3, ChooseStep
<1>4. CASE TokenExpires \/ ApiTurns \/ UNCHANGED vars
  BY <1>4, WorldStep
<1>5. CASE Open
  BY <1>5, LoadStep, RefreshStep, RegisterStep, EnrollStep, SaveStep, RenameStep DEF Open
<1>6. CASE Crash
  <2>1. crashes' \in 0 .. MaxCrashes
    BY <1>6, DaysAssumption DEF Crash, IInv, Typed
  <2>2. /\ Fail /\ UNCHANGED <<file, revoked, proto, team, day, online>>
        /\ token' \in Teams \cup {None}
    BY <1>6 DEF Crash, IInv, Typed, startVars
  <2> QED BY <2>1, <2>2, FailStep
<1>7. CASE Quit
  <2>1. /\ Fail /\ UNCHANGED <<file, revoked, proto, team, day, online>>
        /\ token' \in Teams \cup {None} /\ crashes' \in 0 .. MaxCrashes
    BY <1>7 DEF Quit, IInv, Typed, startVars, worldVars
  <2> QED BY <2>1, FailStep
<1>8. CASE ClockMoves
  BY <1>8, ClockStep
<1>9. CASE Revoke
  BY <1>9, RevokeStep
<1> QED BY <1>1, <1>2, <1>3, <1>4, <1>5, <1>6, <1>7, <1>8, <1>9 DEF Next

\* The inductive invariant holds in every state of every start, crash and refusal.
THEOREM Inductive == Spec => []IInv
BY InitIInv, NextIInv, PTL DEF Spec

\* The state of the engine's accounts keeps its type: what is in a file that is
\* whole is an identity (config::load, write_private).
THEOREM TypeCorrect == Spec => []TypeOK
<1>1. IInv => TypeOK
  <2> SUFFICES ASSUME IInv PROVE TypeOK
    OBVIOUS
  <2>1. Typed /\ TodoInv
    BY DEF IInv
  <2>2. \A p \in Paths : Whole(file[p]) => file[p] \in Identities
    BY <2>1, WholeFacts
  <2>3. todo \in {<<>>, <<1>>, <<2>>, <<1, 2>>}
    BY <2>1 DEF TodoInv, Hops
  <2>4. Len(todo) <= 2
    <3>1. CASE todo = <<>>
      BY <3>1
    <3>2. CASE todo = <<1>> \/ todo = <<2>>
      BY <3>2
    <3>3. CASE todo = <<1, 2>>
      BY <3>3
    <3> QED BY <2>3, <3>1, <3>2, <3>3
  <2> QED BY <2>1, <2>2, <2>4 DEF TypeOK, Typed
<1> QED BY <1>1, Inductive, PTL

\* However a start of the engine is interrupted, no identity file is half written
\* (write_private) and no device is saved for two hops or two scopes.
THEOREM FilesAreWholeHolds == Spec => []FilesAreWhole
<1>1. IInv => FilesAreWhole
  BY WholeFacts DEF IInv, Apart, FilesAreWhole
<1> QED BY <1>1, Inductive, PTL

\* An engine that is ready (load_or_provision returned) has a saved identity for
\* each hop and, over MASQUE, one whose certificate is within its lifetime.
THEOREM ReadyIsUsableHolds == Spec => []ReadyIsUsable
<1>1. IInv => ReadyIsUsable
  <2> SUFFICES ASSUME IInv, pc = "ready", NEW n \in 1 .. Len(Hops)
               PROVE  Opened(Hops[n])
    BY DEF ReadyIsUsable, Opened, StillUsable
  <2>1. Opened(1) /\ (proto \in {"gool", "mim"} => Opened(2))
    BY DEF IInv, DoneInv
  <2>2. CASE proto \in {"gool", "mim"}
    <3>1. Hops = <<1, 2>>
      BY <2>2 DEF Hops
    <3>2. n = 1 \/ n = 2
      BY <3>1
    <3> QED BY <2>1, <2>2, <3>1, <3>2
  <2>3. CASE proto \notin {"gool", "mim"}
    <3>1. Hops = <<1>>
      BY <2>3 DEF Hops
    <3>2. n = 1
      BY <3>1
    <3> QED BY <2>1, <3>1, <3>2
  <2> QED BY <2>2, <2>3
<1> QED BY <1>1, Inductive, PTL

\* What a step may never do: give up a saved device the service still accepts. The
\* files change when a damaged one is moved aside and when the identity in hand
\* replaces its own older self or a refused device.
THEOREM AcceptedDeviceIsKeptHolds == Spec => AcceptedDeviceIsKept
<1> DEFINE Kept == \A p \in Paths : Whole(file[p]) /\ file[p].dev \notin revoked
                        => Whole(file'[p]) /\ file'[p].dev = file[p].dev
<1>1. ASSUME IInv, [Next]_vars PROVE Kept
  <2>0. Typed /\ TodoInv /\ HandInv
    BY <1>1 DEF IInv
  <2>1. CASE file' = file
    BY <2>1 DEF Whole
  <2>2. CASE Load
    <3>1. Working /\ Here \in Paths
      BY <2>0, <2>2, TodoFacts DEF Load, Working
    <3>2. file' = file \/ (~Whole(file[Here]) /\ file' = [file EXCEPT ![Here] = Missing])
      BY <2>2 DEF Load, Quarantined, Here, Whole
    <3>3. \A p \in Paths : Whole(file[p]) => file'[p] = file[p]
      BY <2>0, <3>1, <3>2 DEF Typed
    <3> QED BY <3>3 DEF Whole
  <2>3. CASE Rename
    <3>1. Working /\ InHand /\ Here \in Paths
      BY <2>0, <2>3, TodoFacts DEF Rename, Working, InHand
    <3>2. file' = [file EXCEPT ![Here] = id]
      BY <2>3 DEF Rename, Here
    <3>3. file'[Here] = id /\ \A p \in Paths : p # Here => file'[p] = file[p]
      BY <2>0, <3>1, <3>2 DEF Typed
    <3>4. Whole(id)
      BY <2>0, FilesAssumption DEF Typed, Whole
    <3>5. Whole(file[Here]) => file[Here].dev = id.dev \/ file[Here].dev \in revoked
      BY <2>0, <3>1 DEF HandInv
    <3> QED BY <3>1, <3>3, <3>4, <3>5 DEF Whole
  <2>4. \/ file' = file \/ Load \/ Rename
    BY <1>1 DEF Next, Open, Start, PickTeam, Choose, TokenExpires, Refresh, Register, Enroll,
             EnrollFails, Save, Written, Crash, Quit, ClockMoves, ApiTurns, Revoke, vars
  <2> QED BY <2>1, <2>2, <2>3, <2>4
<1>2. IInv /\ [Next]_vars => [Kept]_vars
  BY <1>1
<1> HIDE DEF Kept
<1>3. Spec => [][Kept]_vars
  BY <1>2, Inductive, PTL DEF Spec
<1> QED BY <1>3 DEF AcceptedDeviceIsKept, Kept

-----------------------------------------------------------------------------
(* NetStack: the inductive invariant, part by part.  It says of every stage   *)
(* an upload passes through what the next stage relies on.                    *)

\* What the socket has taken, and what of it the peer has acknowledged.
NumbersInv(c) ==
    /\ c.queue <= c.accepted_total
    /\ c.acked <= c.accepted_total - c.queue /\ c.acked_high <= c.accepted_total - c.queue

Sound(c) == c.live /\ ~c.closed

\* The bytes from a + 1 on, in order.
Runs(s, a) == \A i \in 1 .. Len(s) : s[i] = a + i

\* pending goes on where the socket is, the backlog where pending ends.
BufferInv(f) ==
    /\ Runs(conn[f].pending, conn[f].accepted_total)
    /\ Runs(backlog.data[f], conn[f].accepted_total + Len(conn[f].pending))

\* The chunks in the channel go on where the backlog ends, without a gap and in order.
ChainInv(f) ==
    /\ Reached(f) <= Given(f)
    /\ \A i \in Chunks(f) :
        /\ Reached(f) <= data_in[i].lo /\ data_in[i].hi <= Given(f)
        /\ data_in[i].lo = Reached(f) \/ \E j \in Chunks(f) : j < i /\ data_in[j].hi = data_in[i].lo
        /\ \A j \in Chunks(f) : i < j => data_in[i].hi <= data_in[j].lo
    /\ relay[f].up # "off" =>
        Given(f) = Reached(f) \/ \E i \in Chunks(f) : data_in[i].hi = Given(f)

\* A writer that never had to wait out its deadline keeps within its credit.
CreditInv(f) ==
    conn[f].closed \/ aux[f].forced
        \/ conn[f].sent - conn[f].acked <= Larger(Chunk, Ceiling)

\* Nothing follows a TcpClose, in the channel, the backlog or the flow.
Closes(f) == {i \in DOMAIN data_in : data_in[i].id = f /\ data_in[i].lo = data_in[i].hi}
CloseInv(f) ==
    /\ Closes(f) # {} \/ f \in backlog.close \/ conn[f].half_closed => relay[f].up \in {"ended", "off"}
    /\ \A i \in Closes(f), j \in Chunks(f) : j < i
    /\ f \in backlog.close => Chunks(f) = {}
    /\ conn[f].half_closed => Chunks(f) = {} /\ f \notin backlog.blocked

Fins == {"FinWait1", "FinWait2", "Closing"}
FinInv(c) ==
    Sound(c) /\ c.listening /\ c.state \in Fins => c.half_closed /\ c.pending = <<>>

\* A flow and its relay agree on how far the connect has come.
Linked(c, r) ==
    /\ c.resp = "waiting" => r.up = "connecting" /\ c.live /\ ~c.established /\ ~c.aborted
    /\ c.resp = "given up" => r.up = "off"
    /\ c.listening => c.resp = "ok" /\ r.up \notin {"idle", "off"}
    /\ c.live /\ ~c.established => c.resp \in {"waiting", "given up"} /\ c.sent = 0
    /\ r.up \in {"reserving", "sending"} => r.len = Chunk
    /\ r.up = "sending" => r.len <= c.sent
LinkInv(f) ==
    /\ Linked(conn[f], relay[f])
    /\ relay[f].up = "idle" => /\ conn[f] = Blank /\ f \notin backlog.blocked
                              /\ Chunks(f) = {} /\ Closes(f) = {}

BacklogInv ==
    /\ backlog.bytes = Bytes(backlog.data)
    /\ backlog.blocked = {f \in Flows : backlog.data[f] # <<>>}
    /\ backlog.close \subseteq backlog.blocked
    /\ backlog.bytes < MAX_BACKLOG_BYTES + Chunk
    /\ \A f \in backlog.blocked : aux[f].forced \/ conn[f].closed

\* The clocks of the reapers against the silence of the peer: since when nothing was
\* acknowledged, and since when a full socket took nothing.
Ages(c, silent, late) ==
    Sound(c) /\ c.established =>
        /\ acked(c) = c.acked_high => c.drainAge <= (IF c.queue > 0 THEN silent ELSE 0) + 1
        /\ acked(c) = c.acked_high /\ c.queue = 0 /\ ~late => c.drainAge = 0
        /\ c.queue >= TX_BUF => c.progressAge <= silent + 1 \/ silent >= TCP_DRAIN_STALL_TIMEOUT

FlowInv(f) ==
    /\ NumbersInv(conn[f]) /\ FinInv(conn[f])
    /\ Sound(conn[f]) => BufferInv(f) /\ ChainInv(f)
    /\ CreditInv(f) /\ CloseInv(f) /\ LinkInv(f)
    /\ Ages(conn[f], aux[f].silent, ticked)

StackInv == StackTypeOK /\ BacklogInv /\ \A f \in Flows : FlowInv(f)

-----------------------------------------------------------------------------
(* The constants. *)

LEMMA Constants ==
    /\ Chunk \in Nat /\ TX_BUF \in Nat /\ RX_BUF \in Nat /\ APP_QUEUE \in Nat /\ CHANNEL \in Nat
    /\ MIN_TCP_PENDING \in Nat /\ MIN_FLOW_QUEUE_BYTES \in Nat /\ MAX_BACKLOG_BYTES \in Nat
    /\ STALL_FLAP_LIMIT \in Nat
    /\ Chunk > 0 /\ TX_BUF > 0 /\ RX_BUF > 0 /\ APP_QUEUE > 0 /\ CHANNEL > 0 /\ MAX_BACKLOG_BYTES > 0
    /\ STALL_FLAP_LIMIT > 0
  BY StackAssumption

LEMMA Durations ==
    /\ TCP_DRAIN_STALL_WARN \in Nat /\ TCP_DRAIN_STALL_TIMEOUT \in Nat /\ TCP_WEDGE_TIMEOUT \in Nat
    /\ STALL_FLAP_WINDOW \in Nat /\ CREDIT_WAIT_MAX \in Nat /\ ORPHAN_LINGER \in Nat
    /\ CONNECT \in Nat /\ HALF_CLOSE_LINGER \in Nat
    /\ TCP_DRAIN_STALL_TIMEOUT > 0 /\ TCP_WEDGE_TIMEOUT > 0 /\ STALL_FLAP_WINDOW > 0
    /\ CREDIT_WAIT_MAX > 0 /\ ORPHAN_LINGER > 0 /\ CONNECT > 0 /\ HALF_CLOSE_LINGER > 0
    /\ TCP_DRAIN_STALL_TIMEOUT <= TCP_WEDGE_TIMEOUT
  BY StackAssumption

\* What an admitted writer can have outstanding fits pending.
LEMMA Capacities ==
    /\ Ceiling \in Nat /\ max_tcp_pending \in Nat /\ MIN_FLOW_QUEUE_BYTES <= Ceiling
    /\ Larger(Chunk, Ceiling) \in Nat /\ Larger(Chunk, Ceiling) <= max_tcp_pending
  <1>1. Chunk <= MIN_TCP_PENDING /\ MIN_FLOW_QUEUE_BYTES <= MIN_TCP_PENDING
    BY StackAssumption
  <1> QED BY <1>1, Constants DEF Ceiling, max_tcp_pending, Larger

LEMMA BlankType == Blank \in ConnType /\ NumbersInv(Blank)
  <1>1. <<>> \in Upto(Nat, max_tcp_pending)
    BY Capacities DEF Upto
  <1>2. <<>> \in Upto(1 .. RX_BUF, APP_QUEUE)
    BY Constants DEF Upto
  <1>3. MIN_FLOW_QUEUE_BYTES \in MIN_FLOW_QUEUE_BYTES .. Ceiling
    BY Constants, Capacities
  <1> QED BY <1>1, <1>2, <1>3, Constants, Durations DEF Blank, ConnType, NumbersInv, States, Never

-----------------------------------------------------------------------------
(* service_tcp, stage by stage. *)

\* A flow before its connect was answered has no data.
Early(c) == Sound(c) /\ ~c.established => c.queue = 0 /\ c.pending = <<>>

\* What an answered flow keeps, and who hears the answer.
Kept(c, x) ==
    /\ x.live = c.live /\ x.half_closed = c.half_closed /\ x.closed = c.closed /\ x.aborted = c.aborted
    /\ x.pending = c.pending /\ x.accepted_total = c.accepted_total /\ x.queue = c.queue
    /\ x.sent = c.sent /\ x.acked = c.acked /\ x.acked_high = c.acked_high
    /\ x.drainAge = c.drainAge /\ x.progressAge = c.progressAge /\ x.state = c.state
Opens(c, x) ==
    /\ c.established \/ ~x.established => x = c
    /\ x.resp # c.resp => c.resp = "waiting" /\ x.resp = "ok" /\ x.established
    /\ x.listening => c.listening \/ (c.resp = "waiting" /\ x.resp = "ok")
    /\ x.resp = "waiting" /\ x.established => c.established

LEMMA AnsweredFacts ==
    ASSUME NEW c \in ConnType, NumbersInv(c), NEW x, x = answered(c)
    PROVE  x \in ConnType /\ NumbersInv(x) /\ Kept(c, x) /\ Opens(c, x)
<1>1. CASE ~c.established /\ c.state \in {"Established", "CloseWait"}
  <2>1. x = [c EXCEPT !.established = TRUE, !.listening = (c.resp = "waiting"),
                      !.resp = IF c.resp = "waiting" THEN "ok" ELSE c.resp]
    BY <1>1 DEF answered
  <2>2. x \in ConnType
    BY <2>1, ZenonT(120) DEF ConnType
  <2>3. /\ x.live = c.live /\ x.half_closed = c.half_closed /\ x.closed = c.closed /\ x.aborted = c.aborted
        /\ x.pending = c.pending /\ x.accepted_total = c.accepted_total /\ x.queue = c.queue
        /\ x.sent = c.sent /\ x.acked = c.acked /\ x.acked_high = c.acked_high
        /\ x.drainAge = c.drainAge /\ x.progressAge = c.progressAge /\ x.state = c.state
    BY <2>1, ZenonT(120) DEF ConnType
  <2>4. NumbersInv(x)
    BY <2>3 DEF NumbersInv
  <2>5. x.established = TRUE
    BY <2>1 DEF ConnType
  <2>6. x.resp = IF c.resp = "waiting" THEN "ok" ELSE c.resp
    BY <2>1 DEF ConnType
  <2>7. x.listening = (c.resp = "waiting")
    BY <2>1 DEF ConnType
  <2>8. x.resp # c.resp => c.resp = "waiting" /\ x.resp = "ok" /\ x.established
    BY <2>5, <2>6
  <2>9. x.listening => c.resp = "waiting" /\ x.resp = "ok"
    BY <2>6, <2>7
  <2>10. x.resp # "waiting"
    BY <2>6
  <2>11. Opens(c, x)
    BY <1>1, <2>5, <2>8, <2>9, <2>10 DEF Opens
  <2> QED BY <2>2, <2>3, <2>4, <2>11 DEF Kept
<1>2. CASE ~(~c.established /\ c.state \in {"Established", "CloseWait"})
  BY <1>2 DEF answered, Kept, Opens
<1> QED BY <1>1, <1>2

\* What the stages between the answer and the half close leave alone.
SameFlow(c, x) ==
    /\ x.live = c.live /\ x.established = c.established /\ x.half_closed = c.half_closed
    /\ x.aborted = c.aborted /\ x.closed = c.closed /\ x.sent = c.sent /\ x.listening = c.listening
    /\ x.resp = c.resp /\ x.state = c.state

\* The socket takes the first bytes of pending.
Takes(c, x) ==
    \E n \in 0 .. Len(c.pending) :
        /\ x.accepted_total = c.accepted_total + n /\ x.queue = c.queue + n
        /\ x.pending = SubSeq(c.pending, n + 1, Len(c.pending))

LEMMA PumpFacts ==
    ASSUME NEW c \in ConnType, NumbersInv(c), NEW x, x = pump(c)
    PROVE  /\ x \in ConnType /\ NumbersInv(x) /\ SameFlow(c, x)
           /\ acked(x) = acked(c) /\ x.acked_high = c.acked_high /\ x.acked = c.acked
           /\ x.drainAge = c.drainAge
           /\ x.progressAge = 0 \/ (x.progressAge = c.progressAge /\ x.queue = c.queue /\ ~CanSend(c))
           /\ c.queue <= x.queue
           /\ Takes(c, x)
<1> DEFINE n == IF CanSend(c) THEN Smaller(Len(c.pending), TX_BUF - c.queue) ELSE 0
<1>0. /\ c.pending \in Seq(Nat) /\ Len(c.pending) \in Nat /\ Len(c.pending) <= max_tcp_pending
      /\ c.queue \in 0 .. TX_BUF /\ c.accepted_total \in Nat /\ c.progressAge \in 0 .. TCP_WEDGE_TIMEOUT
  <2>1. c.pending \in Upto(Nat, max_tcp_pending)
    BY DEF ConnType
  <2>2. c.pending \in Seq(Nat) /\ Len(c.pending) <= max_tcp_pending
    BY <2>1 DEF Upto
  <2>3. /\ c.queue \in 0 .. TX_BUF /\ c.accepted_total \in Nat
        /\ c.progressAge \in 0 .. TCP_WEDGE_TIMEOUT
    BY DEF ConnType
  <2> QED BY <2>2, <2>3, LenProperties
<1>1. n \in Nat /\ n <= Len(c.pending) /\ c.queue + n <= TX_BUF
  BY <1>0, Constants DEF Smaller, CanSend
<1>2. n = 0 => c.pending = <<>> \/ ~CanSend(c)
  <2>1. CASE CanSend(c)
    <3>1. c.queue < TX_BUF
      BY <2>1 DEF CanSend
    <3>2. n = 0 => Len(c.pending) = 0
      BY <1>0, <2>1, <3>1, Constants DEF Smaller
    <3>3. Len(c.pending) = 0 => c.pending = <<>>
      BY <1>0, EmptySeq
    <3> QED BY <3>2, <3>3
  <2> QED BY <2>1
<1> HIDE DEF n
<1> DEFINE rest == SubSeq(c.pending, n + 1, Len(c.pending))
<1>3. rest \in Seq(Nat) /\ Len(rest) <= max_tcp_pending
  <2>1. \A i \in n + 1 .. Len(c.pending) : i \in 1 .. Len(c.pending)
    BY <1>0, <1>1
  <2>2. rest \in Seq(Nat) /\ Len(rest) = IF n + 1 <= Len(c.pending) THEN Len(c.pending) - (n + 1) + 1 ELSE 0
    BY <1>0, <1>1, <2>1, SubSeqProperties
  <2> QED BY <1>0, <1>1, <2>2, Capacities
<1> HIDE DEF rest
<1> DEFINE age == IF c.pending = <<>> \/ n > 0 THEN 0 ELSE c.progressAge
<1>4. age \in 0 .. TCP_WEDGE_TIMEOUT /\ (age = 0 \/ (age = c.progressAge /\ n = 0 /\ ~CanSend(c)))
  BY <1>0, <1>1, <1>2, Durations
<1> HIDE DEF age
<1>5. x = [c EXCEPT !.progressAge = age, !.accepted_total = c.accepted_total + n,
                    !.queue = c.queue + n, !.pending = rest]
  BY DEF pump, age, n, rest
<1>6. x \in ConnType
  <2>1. rest \in Upto(Nat, max_tcp_pending)
    BY <1>3 DEF Upto
  <2>2. c.queue + n \in 0 .. TX_BUF /\ c.accepted_total + n \in Nat
    BY <1>0, <1>1, Constants
  <2> QED BY <1>4, <1>5, <2>1, <2>2, ZenonT(120) DEF ConnType
<1>7. SameFlow(c, x)
  BY <1>5 DEF ConnType, SameFlow
<1>8. /\ x.acked_high = c.acked_high /\ x.acked = c.acked /\ x.drainAge = c.drainAge /\ x.progressAge = age
      /\ x.accepted_total = c.accepted_total + n /\ x.queue = c.queue + n /\ x.pending = rest
  BY <1>5 DEF ConnType
<1>9. acked(x) = acked(c) /\ NumbersInv(x) /\ c.queue <= x.queue
  <2>1. c.acked \in Nat /\ c.acked_high \in Nat
    BY DEF ConnType
  <2> QED BY <1>0, <1>1, <1>8, <2>1, Constants DEF acked, NumbersInv
<1>10. Takes(c, x)
  BY <1>0, <1>1, <1>8 DEF Takes, rest
<1>11. n = 0 => x.queue = c.queue
  BY <1>0, <1>8
<1> QED BY <1>4, <1>6, <1>7, <1>8, <1>9, <1>10, <1>11

SameData(c, x) ==
    /\ x.pending = c.pending /\ x.accepted_total = c.accepted_total /\ x.queue = c.queue
    /\ x.progressAge = c.progressAge

LEMMA LivenessFacts ==
    ASSUME NEW c \in ConnType, NumbersInv(c), NEW x, x = liveness(c)
    PROVE  /\ x \in ConnType /\ NumbersInv(x) /\ SameFlow(c, x) /\ SameData(c, x) /\ x.acked = c.acked
           /\ Drains(c) => x.drainAge = 0 /\ x.acked_high = acked(c)
           /\ ~Drains(c) => x.drainAge = c.drainAge /\ x.acked_high = c.acked_high
           /\ x.send_queue_high = c.queue
<1>0. /\ c.queue \in 0 .. TX_BUF /\ c.accepted_total \in Nat /\ c.acked_high \in Nat /\ c.acked \in Nat
      /\ c.stall_count \in Nat
  BY DEF ConnType
<1>1. acked(c) \in Nat /\ Stalled(c) \in Nat
  BY <1>0, Constants DEF acked, Stalled, NumbersInv
<1>a. 0 \in 0 .. TCP_DRAIN_STALL_TIMEOUT /\ 0 \in 0 .. STALL_FLAP_WINDOW /\ c.queue \in 0 .. TX_BUF
  BY <1>0, Durations
<1>2. CASE Drains(c)
  <2>1. x = [c EXCEPT !.drainAge = 0, !.acked_high = acked(c), !.drain_warned = FALSE, !.send_queue_high = c.queue]
    BY <1>2 DEF liveness, ConnType
  <2>2. x \in ConnType
    BY <1>1, <1>a, <2>1, ZenonT(120) DEF ConnType
  <2>3. SameFlow(c, x)
    BY <2>1 DEF SameFlow, ConnType
  <2>4. /\ SameData(c, x) /\ x.acked = c.acked /\ x.drainAge = 0 /\ x.acked_high = acked(c)
        /\ x.send_queue_high = c.queue
    BY <2>1 DEF SameData, ConnType
  <2>5. NumbersInv(x)
    BY <1>0, <2>4, Constants DEF NumbersInv, SameData, acked
  <2> QED BY <1>2, <2>2, <2>3, <2>4, <2>5
<1>3. CASE ~Drains(c) /\ Stalls(c)
  <2>1. x = [c EXCEPT !.drain_warned = TRUE, !.stallAge = 0, !.stall_count = Stalled(c), !.send_queue_high = c.queue]
    BY <1>3 DEF liveness, ConnType
  <2>2. x \in ConnType
    BY <1>1, <1>a, <2>1, ZenonT(120) DEF ConnType
  <2>3. SameFlow(c, x)
    BY <2>1 DEF SameFlow, ConnType
  <2>4. /\ SameData(c, x) /\ x.acked = c.acked /\ x.drainAge = c.drainAge /\ x.acked_high = c.acked_high
        /\ x.send_queue_high = c.queue
    BY <2>1 DEF SameData, ConnType
  <2>5. NumbersInv(x)
    BY <2>4 DEF NumbersInv, SameData
  <2> QED BY <1>3, <2>2, <2>3, <2>4, <2>5
<1>4. CASE ~Drains(c) /\ ~Stalls(c)
  <2>1. x = [c EXCEPT !.send_queue_high = c.queue]
    BY <1>4 DEF liveness, ConnType
  <2>2. x \in ConnType
    BY <1>0, <2>1, ZenonT(120) DEF ConnType
  <2>3. SameFlow(c, x)
    BY <2>1 DEF SameFlow, ConnType
  <2>4. /\ SameData(c, x) /\ x.acked = c.acked /\ x.drainAge = c.drainAge /\ x.acked_high = c.acked_high
        /\ x.send_queue_high = c.queue
    BY <2>1 DEF SameData, ConnType
  <2>5. NumbersInv(x)
    BY <2>4 DEF NumbersInv, SameData
  <2> QED BY <1>4, <2>2, <2>3, <2>4, <2>5
<1> QED BY <1>2, <1>3, <1>4

LEMMA PublishFacts ==
    ASSUME NEW c \in ConnType, NumbersInv(c), NEW budget \in MIN_FLOW_QUEUE_BYTES .. Ceiling,
           NEW x, x = publish(c, budget)
    PROVE  /\ x \in ConnType /\ NumbersInv(x) /\ SameFlow(c, x) /\ SameData(c, x)
           /\ c.acked <= x.acked /\ x.acked_high = c.acked_high /\ x.drainAge = c.drainAge
           /\ x.send_queue_high = c.send_queue_high
<1>0. c.queue \in 0 .. TX_BUF /\ c.accepted_total \in Nat /\ c.acked_high \in Nat /\ c.acked \in Nat
  BY DEF ConnType
<1>1. PICK a, b : a = Larger(c.acked, acked(c)) /\ b = Larger(budget, MIN_FLOW_QUEUE_BYTES)
  OBVIOUS
<1>2. a \in Nat /\ c.acked <= a /\ a <= c.accepted_total - c.queue /\ b \in MIN_FLOW_QUEUE_BYTES .. Ceiling
  BY <1>0, <1>1, Constants, Capacities DEF Larger, acked, NumbersInv
<1>3. x = [c EXCEPT !.acked = a, !.cap = b]
  BY <1>1 DEF publish
<1>4. x \in ConnType
  BY <1>2, <1>3, ZenonT(120) DEF ConnType
<1>5. SameFlow(c, x)
  BY <1>3 DEF SameFlow, ConnType
<1>6. /\ SameData(c, x) /\ x.acked = a /\ x.acked_high = c.acked_high /\ x.drainAge = c.drainAge
      /\ x.send_queue_high = c.send_queue_high
  BY <1>3 DEF SameData, ConnType
<1>7. NumbersInv(x)
  BY <1>2, <1>6 DEF NumbersInv, SameData
<1> QED BY <1>2, <1>4, <1>5, <1>6, <1>7

\* Everything but the state of the socket.
Alike(c, x) ==
    /\ x.live = c.live /\ x.established = c.established /\ x.half_closed = c.half_closed
    /\ x.closed = c.closed /\ x.listening = c.listening
    /\ x.sent = c.sent /\ x.resp = c.resp /\ SameData(c, x) /\ x.acked = c.acked
    /\ x.acked_high = c.acked_high /\ x.drainAge = c.drainAge /\ x.send_queue_high = c.send_queue_high

LEMMA AlikeNumbers == ASSUME NEW c, NEW x, Alike(c, x), NumbersInv(c) PROVE NumbersInv(x)
  BY DEF Alike, SameData, NumbersInv

LEMMA CloseFacts ==
    ASSUME NEW c \in ConnType, NEW x, x = Close(c)
    PROVE  /\ x \in ConnType /\ Alike(c, x) /\ x.aborted = c.aborted
           /\ x.state = c.state \/ (c.state = "Established" /\ x.state = "FinWait1")
                                \/ x.state \in {"LastAck", "Closed"}
           /\ x.state \notin {"Established", "CloseWait"}
           /\ c.state = "Closed" => x.state = "Closed"
<1>1. PICK st : st = (CASE c.state = "Established" -> "FinWait1"
                       [] c.state = "CloseWait" -> "LastAck"
                       [] c.state = "SynSent" -> "Closed"
                       [] OTHER -> c.state)
  OBVIOUS
<1>2. c.state \in States
  BY DEF ConnType
<1>3. /\ st \in States /\ st \notin {"Established", "CloseWait"}
      /\ st = c.state \/ (c.state = "Established" /\ st = "FinWait1") \/ st \in {"LastAck", "Closed"}
      /\ c.state = "Closed" => st = "Closed"
  BY <1>1, <1>2 DEF States
<1>4. x = [c EXCEPT !.state = st]
  BY <1>1 DEF Close
<1>5. x \in ConnType
  BY <1>3, <1>4, ZenonT(120) DEF ConnType
<1>6. Alike(c, x) /\ x.aborted = c.aborted
  BY <1>4 DEF Alike, SameData, ConnType
<1>7. x.state = st
  BY <1>4 DEF ConnType
<1> QED BY <1>3, <1>5, <1>6, <1>7

\* A flow that is reset or removed: closed, with the bytes its writer has sent.
Over(c, x) ==
    /\ x \in ConnType /\ NumbersInv(x) /\ x.closed /\ x.sent = c.sent /\ x.listening = c.listening
    /\ x.half_closed => c.half_closed

LEMMA ResetFacts ==
    ASSUME NEW c \in ConnType, NumbersInv(c), NEW x, x = reset(c)
    PROVE  /\ Over(c, x) /\ x.live = c.live /\ x.resp = c.resp /\ x.established = c.established
           /\ x.state = "Closed" /\ x.pending = <<>> /\ x.half_closed = c.half_closed /\ x.aborted = c.aborted
<1>1. x = [c EXCEPT !.pending = <<>>, !.closed = TRUE, !.state = "Closed"]
  BY DEF reset, Abort, ConnType
<1>2. <<>> \in Upto(Nat, max_tcp_pending)
  BY Capacities DEF Upto
<1>3. x \in ConnType
  BY <1>1, <1>2, ZenonT(120) DEF ConnType, States
<1>4. /\ x.live = c.live /\ x.resp = c.resp /\ x.established = c.established /\ x.half_closed = c.half_closed
      /\ x.listening = c.listening /\ x.aborted = c.aborted /\ x.closed = TRUE
  BY <1>1 DEF ConnType
<1>5. /\ x.sent = c.sent /\ x.state = "Closed" /\ x.pending = <<>>
      /\ x.queue = c.queue /\ x.acked = c.acked /\ x.acked_high = c.acked_high /\ x.accepted_total = c.accepted_total
  BY <1>1 DEF ConnType
<1>6. NumbersInv(x)
  BY <1>5 DEF NumbersInv
<1> QED BY <1>3, <1>4, <1>5, <1>6 DEF Over

LEMMA RemovedFacts ==
    ASSUME NEW c \in ConnType, NEW x, x = removed(c)
    PROVE  Over(c, x) /\ ~x.live /\ x.resp = c.resp /\ ~x.half_closed
<1>1. x = [Blank EXCEPT !.closed = TRUE, !.sent = c.sent, !.toApp = c.toApp,
                        !.listening = c.listening, !.resp = c.resp]
  BY DEF removed
<1>2. Blank \in ConnType /\ NumbersInv(Blank)
  BY BlankType
<1>3. x \in ConnType
  BY <1>1, <1>2, ZenonT(120) DEF ConnType
<1>4. Blank.live = FALSE /\ Blank.half_closed = FALSE
  BY DEF Blank
<1>5. x.live = Blank.live /\ x.half_closed = Blank.half_closed /\ x.closed = TRUE /\ x.listening = c.listening
  BY <1>1, <1>2 DEF ConnType
<1>6. /\ x.sent = c.sent /\ x.resp = c.resp
      /\ x.queue = Blank.queue /\ x.acked = Blank.acked /\ x.acked_high = Blank.acked_high
      /\ x.accepted_total = Blank.accepted_total
  BY <1>1, <1>2 DEF ConnType
<1>7. NumbersInv(x)
  BY <1>2, <1>6 DEF NumbersInv
<1> QED BY <1>3, <1>4, <1>5, <1>6, <1>7 DEF Over

LEMMA FlapFacts ==
    ASSUME NEW c \in ConnType, NumbersInv(c), NEW b, NEW x, x = flapReset(c, b)
    PROVE  /\ x = c \/ (/\ Over(c, x) /\ x.live = c.live /\ x.resp = c.resp /\ x.established = c.established
                        /\ x.state = "Closed" /\ x.half_closed = c.half_closed /\ x.aborted = c.aborted)
<1>1. CASE Stalls(b) /\ c.stall_count >= STALL_FLAP_LIMIT
  <2>1. PICK y : y = [c EXCEPT !.stall_count = 0, !.drain_warned = FALSE]
    OBVIOUS
  <2>2. y \in ConnType
    BY <2>1 DEF ConnType
  <2>3. /\ y.live = c.live /\ y.established = c.established /\ y.half_closed = c.half_closed
        /\ y.listening = c.listening /\ y.aborted = c.aborted
    BY <2>1 DEF ConnType
  <2>4. /\ y.sent = c.sent /\ y.resp = c.resp
        /\ y.queue = c.queue /\ y.acked = c.acked /\ y.acked_high = c.acked_high /\ y.accepted_total = c.accepted_total
    BY <2>1 DEF ConnType
  <2>5. NumbersInv(y)
    BY <2>4 DEF NumbersInv
  <2>6. x = reset(y)
    BY <1>1, <2>1 DEF flapReset
  <2> QED BY <2>2, <2>3, <2>4, <2>5, <2>6, ResetFacts DEF Over
<1>2. CASE ~(Stalls(b) /\ c.stall_count >= STALL_FLAP_LIMIT)
  BY <1>2 DEF flapReset
<1> QED BY <1>1, <1>2

LEMMA DeliverFacts ==
    ASSUME NEW c \in ConnType, NEW x, x = deliver(c)
    PROVE  x \in ConnType /\ Alike(c, x) /\ x.state = c.state /\ x.aborted = c.aborted
<1>0. c.toApp \in Upto(1 .. RX_BUF, APP_QUEUE) /\ c.rx \in 0 .. RX_BUF
  BY DEF ConnType
<1>1. CASE c.listening /\ Len(c.toApp) < APP_QUEUE /\ c.rx > 0
  <2>1. PICK s : s = Append(c.toApp, c.rx)
    OBVIOUS
  <2>2. c.toApp \in Seq(1 .. RX_BUF) /\ c.rx \in 1 .. RX_BUF /\ Len(c.toApp) < APP_QUEUE
    BY <1>0, <1>1, Constants DEF Upto
  <2>3. s \in Upto(1 .. RX_BUF, APP_QUEUE)
    BY <2>1, <2>2, Constants, AppendProperties DEF Upto
  <2>4. x = [c EXCEPT !.toApp = s, !.rx = 0]
    BY <1>1, <2>1 DEF deliver
  <2>5. 0 \in 0 .. RX_BUF
    BY Constants
  <2>6. x \in ConnType
    BY <2>3, <2>4, <2>5, ZenonT(120) DEF ConnType
  <2>7. Alike(c, x) /\ x.state = c.state /\ x.aborted = c.aborted
    BY <2>4 DEF Alike, SameData, ConnType
  <2> QED BY <2>6, <2>7
<1>2. CASE ~(c.listening /\ Len(c.toApp) < APP_QUEUE /\ c.rx > 0)
  BY <1>2 DEF deliver, Alike, SameData
<1> QED BY <1>1, <1>2

LEMMA OrphanFacts ==
    ASSUME NEW c \in ConnType, NEW x, x = orphan(c)
    PROVE  /\ x \in ConnType /\ Alike(c, x)
           /\ c.listening => x = c
           /\ x.state \in {"Established", "CloseWait"} => x.state = c.state
<1>1. CASE c.listening
  BY <1>1 DEF orphan, Alike, SameData
<1>2. CASE ~c.listening
  <2>1. PICK o : o = [c EXCEPT !.orphanAge = IF c.orphanAge = Never THEN 0 ELSE c.orphanAge]
    OBVIOUS
  <2>2. (IF c.orphanAge = Never THEN 0 ELSE c.orphanAge) \in Never .. ORPHAN_LINGER
    <3>1. c.orphanAge \in Never .. ORPHAN_LINGER
      BY DEF ConnType
    <3> QED BY <3>1, Durations DEF Never
  <2>3. o \in ConnType
    BY <2>1, <2>2 DEF ConnType
  <2>4. Alike(c, o) /\ o.state = c.state
    BY <2>1 DEF Alike, SameData, ConnType
  <2>5. CASE o.rx > 0 \/ o.orphanAge >= ORPHAN_LINGER
    <3>1. x = [o EXCEPT !.state = "Closed", !.aborted = TRUE]
      BY <1>2, <2>1, <2>5 DEF orphan, Abort, ConnType
    <3>2. x \in ConnType /\ x.state = "Closed"
      BY <2>3, <3>1, ZenonT(120) DEF ConnType, States
    <3>3. Alike(o, x)
      BY <2>3, <3>1 DEF ConnType, Alike, SameData
    <3> QED BY <1>2, <2>4, <3>2, <3>3 DEF Alike, SameData
  <2>6. CASE ~(o.rx > 0 \/ o.orphanAge >= ORPHAN_LINGER)
    <3>1. x = Close(o)
      BY <1>2, <2>1, <2>6 DEF orphan
    <3>2. x \in ConnType /\ Alike(o, x) /\ x.state \notin {"Established", "CloseWait"}
      BY <2>3, <3>1, CloseFacts
    <3> QED BY <1>2, <2>4, <3>2 DEF Alike, SameData
  <2> QED BY <2>5, <2>6
<1> QED BY <1>1, <1>2

LEMMA RefusedFacts ==
    ASSUME NEW c \in ConnType, NEW x, x = refused(c)
    PROVE  \/ x = c
           \/ Over(c, x) /\ ~x.live /\ ~x.half_closed /\ x.resp = IF c.resp = "given up" THEN c.resp ELSE "err"
<1>1. PICK r : r = IF c.resp = "given up" THEN c.resp ELSE "err"
  OBVIOUS
<1>2. PICK y : y = [c EXCEPT !.resp = r]
  OBVIOUS
<1>3. x = c \/ x = removed(y)
  BY <1>1, <1>2 DEF refused
<1>4. y \in ConnType
  BY <1>1, <1>2 DEF ConnType
<1>5. y.listening = c.listening /\ y.half_closed = c.half_closed
  BY <1>2 DEF ConnType
<1>6. y.sent = c.sent /\ y.resp = r
  BY <1>2 DEF ConnType
<1>7. x = removed(y) => Over(y, x) /\ ~x.live /\ ~x.half_closed /\ x.resp = r
  BY <1>4, <1>6, RemovedFacts
<1>8. Over(y, x) => Over(c, x)
  BY <1>5, <1>6 DEF Over
<1> QED BY <1>1, <1>3, <1>7, <1>8

\* From the half close to the end of the flow.
LEMMA TailFacts ==
    ASSUME NEW r \in ConnType, NumbersInv(r), ~r.aborted,
           NEW s, s = finish(orphan(deliver(halfClose(r))))
    PROVE  \/ Over(r, s) /\ ~s.live /\ s.resp = r.resp /\ ~s.half_closed
           \/ /\ s \in ConnType /\ Alike(r, s)
              /\ s.state \in {"Established", "CloseWait"} => s.state = r.state
              /\ s.listening /\ s.state \in Fins => r.state \in Fins \/ (r.half_closed /\ r.pending = <<>>)
              /\ r.state = "Closed" => ~s.listening
<1>1. PICK h : h = halfClose(r)
  OBVIOUS
<1>2. PICK d : d = deliver(h)
  OBVIOUS
<1>3. PICK o : o = orphan(d)
  OBVIOUS
<1>4. s = finish(o)
  BY <1>1, <1>2, <1>3
<1>5. /\ h \in ConnType /\ Alike(r, h) /\ h.aborted = r.aborted
      /\ h.state \in {"Established", "CloseWait"} => h.state = r.state
      /\ h.state \in Fins => r.state \in Fins \/ (r.half_closed /\ r.pending = <<>>)
      /\ r.state = "Closed" => h.state = "Closed"
  <2>1. CASE r.half_closed /\ r.pending = <<>>
    <3>1. h = Close(r)
      BY <1>1, <2>1 DEF halfClose
    <3> QED BY <2>1, <3>1, CloseFacts
  <2>2. CASE ~(r.half_closed /\ r.pending = <<>>)
    BY <1>1, <2>2 DEF halfClose, Alike, SameData
  <2> QED BY <2>1, <2>2
<1>6. d \in ConnType /\ Alike(h, d) /\ d.state = h.state /\ d.aborted = h.aborted
  BY <1>2, <1>5, DeliverFacts
<1>7. Alike(r, d)
  BY <1>5, <1>6 DEF Alike, SameData
<1>8. /\ o \in ConnType /\ Alike(d, o)
      /\ d.listening => o = d
      /\ o.state \in {"Established", "CloseWait"} => o.state = d.state
  BY <1>3, <1>6, OrphanFacts
<1>9. Alike(r, o)
  BY <1>7, <1>8 DEF Alike, SameData
<1>10. o.listening => o = d /\ ~o.aborted
  BY <1>5, <1>6, <1>8 DEF Alike
<1>11. o.listening /\ o.state \in Fins => r.state \in Fins \/ (r.half_closed /\ r.pending = <<>>)
  BY <1>5, <1>6, <1>10
<1>12. CASE o.aborted
  <2>1. s = o
    BY <1>4, <1>12 DEF finish
  <2> QED BY <1>5, <1>6, <1>8, <1>9, <1>10, <1>12, <2>1
<1>13. CASE ~o.aborted /\ o.state = "CloseWait"
  <2>1. s = Close(o)
    BY <1>4, <1>13 DEF finish
  <2>2. s \in ConnType /\ Alike(o, s) /\ s.state \notin {"Established", "CloseWait"}
        /\ s.state \in {"LastAck", "Closed"}
    BY <1>8, <1>13, <2>1, CloseFacts
  <2>3. Alike(r, s)
    BY <1>9, <2>2 DEF Alike, SameData
  <2>4. s.state \notin Fins
    BY <2>2 DEF Fins
  <2>5. r.state = "Closed" => FALSE
    BY <1>5, <1>6, <1>8, <1>13
  <2> QED BY <2>2, <2>3, <2>4, <2>5
<1>14. CASE ~o.aborted /\ o.state \in {"Closed", "TimeWait"}
  <2>1. s = removed(o)
    BY <1>4, <1>14 DEF finish
  <2>2. Over(o, s) /\ ~s.live /\ s.resp = o.resp /\ ~s.half_closed
    BY <1>8, <2>1, RemovedFacts
  <2>3. Over(r, s)
    BY <1>9, <2>2 DEF Over, Alike
  <2> QED BY <1>9, <2>2, <2>3 DEF Alike
<1>15. CASE ~o.aborted /\ o.state \notin {"CloseWait", "Closed", "TimeWait"}
  <2>1. s = o
    BY <1>4, <1>15 DEF finish
  <2>2. r.state = "Closed" => ~o.listening
    BY <1>5, <1>6, <1>10, <1>15
  <2> QED BY <1>5, <1>6, <1>8, <1>9, <1>11, <2>1, <2>2
<1> QED BY <1>12, <1>13, <1>14, <1>15

\* Nothing outlived its timeout without a silent peer.
Reaps(c, s, silent) ==
    Sound(s) /\ c.established /\ c.state \in {"Established", "CloseWait"} =>
        (NotDraining(s) \/ s.progressAge >= TCP_WEDGE_TIMEOUT
            => silent >= TCP_DRAIN_STALL_TIMEOUT - 1)

\* What a flow takes, acknowledges and publishes in a pass.
LEMMA CoreFacts ==
    ASSUME NEW c \in ConnType, NumbersInv(c), NEW budget \in MIN_FLOW_QUEUE_BYTES .. Ceiling,
           NEW p, p = pump(c), NEW u, u = publish(liveness(p), budget)
    PROVE  /\ u \in ConnType /\ NumbersInv(u) /\ SameFlow(c, u) /\ c.acked <= u.acked
           /\ Takes(c, u)
           /\ u.progressAge = 0 \/ (u.progressAge = c.progressAge /\ u.queue = c.queue /\ ~CanSend(c))
           /\ acked(u) = acked(c) /\ c.queue <= u.queue /\ u.send_queue_high = u.queue
           /\ u.queue = 0 \/ acked(u) > c.acked_high => u.drainAge = 0 /\ u.acked_high = acked(u)
           /\ ~(u.queue = 0 \/ acked(u) > c.acked_high) => u.drainAge = c.drainAge /\ u.acked_high = c.acked_high
<1>1. PICK l : l = liveness(p)
  OBVIOUS
<1>2. /\ p \in ConnType /\ NumbersInv(p) /\ SameFlow(c, p)
      /\ acked(p) = acked(c) /\ p.acked_high = c.acked_high /\ p.acked = c.acked
      /\ p.drainAge = c.drainAge /\ c.queue <= p.queue
      /\ p.progressAge = 0 \/ (p.progressAge = c.progressAge /\ p.queue = c.queue /\ ~CanSend(c))
  BY PumpFacts
<1>3. Takes(c, p)
  BY PumpFacts
<1>4. /\ l \in ConnType /\ NumbersInv(l) /\ SameFlow(p, l) /\ SameData(p, l) /\ l.acked = p.acked
      /\ Drains(p) => l.drainAge = 0 /\ l.acked_high = acked(p)
      /\ ~Drains(p) => l.drainAge = p.drainAge /\ l.acked_high = p.acked_high
      /\ l.send_queue_high = p.queue
  BY <1>1, <1>2, LivenessFacts
<1>5. /\ u \in ConnType /\ NumbersInv(u) /\ SameFlow(l, u) /\ SameData(l, u)
      /\ l.acked <= u.acked /\ u.acked_high = l.acked_high /\ u.drainAge = l.drainAge
      /\ u.send_queue_high = l.send_queue_high
  BY <1>1, <1>4, PublishFacts
<1>6. SameFlow(c, u)
  BY <1>2, <1>4, <1>5 DEF SameFlow
<1>7. SameData(p, u)
  BY <1>4, <1>5 DEF SameData
<1>8. acked(u) = acked(p)
  BY <1>7 DEF acked, SameData
<1>9. Drains(p) <=> u.queue = 0 \/ acked(u) > c.acked_high
  BY <1>2, <1>7, <1>8 DEF Drains, SameData
<1>10. Takes(c, u)
  BY <1>3, <1>7 DEF Takes, SameData
<1> QED BY <1>2, <1>4, <1>5, <1>6, <1>7, <1>8, <1>9, <1>10 DEF SameData

\* The clocks after a pass.
LEMMA CoreAges ==
    ASSUME NEW c \in ConnType, NumbersInv(c), c.established, Sound(c),
           NEW budget \in MIN_FLOW_QUEUE_BYTES .. Ceiling,
           NEW p, p = pump(c), NEW u, u = publish(liveness(p), budget),
           NEW silent \in Nat, NEW late,
           Ages(c, silent, late) \/ (c.queue = 0 /\ c.pending = <<>>)
    PROVE  /\ Ages(u, silent, FALSE)
           /\ Ages(c, silent, late) => Reaps(c, u, silent)
<1>1. /\ u \in ConnType /\ NumbersInv(u) /\ SameFlow(c, u)
      /\ u.progressAge = 0 \/ (u.progressAge = c.progressAge /\ u.queue = c.queue /\ ~CanSend(c))
      /\ acked(u) = acked(c) /\ c.queue <= u.queue /\ u.send_queue_high = u.queue
      /\ u.queue = 0 \/ acked(u) > c.acked_high => u.drainAge = 0 /\ u.acked_high = acked(u)
      /\ ~(u.queue = 0 \/ acked(u) > c.acked_high) => u.drainAge = c.drainAge /\ u.acked_high = c.acked_high
  BY CoreFacts
<1>2. c.queue = 0 /\ c.pending = <<>> => u.queue = 0
  <2>1. \E n \in 0 .. Len(c.pending) : u.queue = c.queue + n
    BY CoreFacts DEF Takes
  <2> QED BY <2>1
<1>3. /\ c.queue \in Nat /\ c.acked_high \in Nat /\ c.drainAge \in Nat /\ c.progressAge \in Nat
      /\ u.queue \in Nat /\ c.accepted_total \in Nat
  <2>1. /\ c.queue \in 0 .. TX_BUF /\ c.acked_high \in Nat /\ c.drainAge \in 0 .. TCP_DRAIN_STALL_TIMEOUT
        /\ c.progressAge \in 0 .. TCP_WEDGE_TIMEOUT /\ c.accepted_total \in Nat
    BY DEF ConnType
  <2>2. u.queue \in 0 .. TX_BUF
    BY <1>1 DEF ConnType
  <2> QED BY <2>1, <2>2, Constants, Durations
<1>4. acked(c) \in Nat /\ c.acked_high <= acked(c)
  BY <1>3 DEF acked, NumbersInv
<1>5. u.acked_high = acked(u)
  BY <1>1, <1>3, <1>4
<1>6. u.drainAge = 0 \/ (u.drainAge = c.drainAge /\ acked(c) = c.acked_high /\ u.queue > 0)
  BY <1>1, <1>3, <1>4
<1>7. u.drainAge <= (IF u.queue > 0 THEN silent ELSE 0) + 1
  <2>1. CASE u.drainAge = 0
    BY <1>3, <2>1
  <2>2. CASE u.drainAge = c.drainAge /\ acked(c) = c.acked_high /\ u.queue > 0
    <3>1. Ages(c, silent, late)
      BY <1>2, <1>3, <2>2
    <3>2. c.drainAge <= (IF c.queue > 0 THEN silent ELSE 0) + 1
      BY <2>2, <3>1 DEF Ages
    <3> QED BY <1>3, <2>2, <3>2
  <2> QED BY <1>6, <2>1, <2>2
<1>8. u.queue = 0 => u.drainAge = 0
  BY <1>1
<1>9. ASSUME u.queue >= TX_BUF, u.progressAge # 0
      PROVE  u.progressAge <= silent + 1 \/ silent >= TCP_DRAIN_STALL_TIMEOUT
  <2>1. u.progressAge = c.progressAge /\ u.queue = c.queue
    BY <1>1, <1>9
  <2>2. Ages(c, silent, late)
    BY <1>2, <1>9, <2>1, Constants
  <2> QED BY <1>9, <2>1, <2>2 DEF Ages
<1>10. u.queue >= TX_BUF => u.progressAge <= silent + 1 \/ silent >= TCP_DRAIN_STALL_TIMEOUT
  BY <1>9
<1>11. Ages(u, silent, FALSE)
  BY <1>7, <1>8, <1>10 DEF Ages
<1>12. Reaps(c, u, silent)
  <2> SUFFICES ASSUME c.state \in {"Established", "CloseWait"},
                      NotDraining(u) \/ u.progressAge >= TCP_WEDGE_TIMEOUT
               PROVE  silent >= TCP_DRAIN_STALL_TIMEOUT - 1
    BY DEF Reaps
  <2>1. CASE NotDraining(u)
    <3>1. u.queue > 0 /\ u.drainAge >= TCP_DRAIN_STALL_TIMEOUT
      BY <1>1, <2>1 DEF NotDraining
    <3>2. u.drainAge \in Nat
      BY <1>3, <1>6
    <3> QED BY <1>7, <3>1, <3>2, Durations
  <2>2. CASE u.progressAge >= TCP_WEDGE_TIMEOUT
    <3>2. u.progressAge \in Nat
      BY <1>1, <1>3
    <3>1. u.queue >= TX_BUF
      BY <1>1, <1>3, <2>2, <3>2, Constants, Durations DEF CanSend
    <3> QED BY <1>10, <2>2, <3>1, <3>2, Durations
  <2> QED BY <2>1, <2>2
<1> QED BY <1>11, <1>12

\* A pass of service_tcp over one flow.
Serves(c, s) ==
    /\ s \in ConnType /\ NumbersInv(s) /\ s.sent = c.sent
    /\ s.resp = c.resp \/ (c.resp = "waiting" /\ s.resp \in {"ok", "err"})
    /\ s.listening => c.listening \/ (c.resp = "waiting" /\ s.resp = "ok")
    /\ c.closed => s.closed
    /\ s.half_closed => c.half_closed
    /\ s.live => c.live
    /\ ~c.live => s = c
    /\ s.live \/ s.closed \/ s = c
    /\ s.live /\ ~s.established => s = c
    /\ s.resp = "waiting" => s = c
    /\ c.listening /\ s.live /\ s.closed => c.closed
Advances(c, s) ==
    /\ s.half_closed = c.half_closed /\ c.acked <= s.acked
    /\ Takes(c, s)
    /\ s.listening /\ s.state \in Fins =>
        (c.listening /\ c.state \in Fins) \/ (s.half_closed /\ s.pending = <<>>)

LEMMA AlikeAges ==
    ASSUME NEW u, NEW s, Alike(u, s), s.state \in {"Established", "CloseWait"} => s.state = u.state,
           NEW c, NEW silent, NEW late
    PROVE  /\ Ages(u, silent, late) => Ages(s, silent, late)
           /\ Reaps(c, u, silent) => Reaps(c, s, silent)
<1>1. Sound(s) <=> Sound(u)
  BY DEF Sound, Alike
<1>2. s.established = u.established /\ (NotDraining(s) <=> NotDraining(u))
  BY DEF Alike, NotDraining
<1>3. acked(s) = acked(u) /\ s.queue = u.queue /\ s.acked_high = u.acked_high /\ s.drainAge = u.drainAge
      /\ s.progressAge = u.progressAge
  BY DEF Alike, SameData, acked
<1> QED BY <1>1, <1>2, <1>3 DEF Ages, Reaps

\* The part of service_tcp after the answer.
LEMMA EstablishedFacts ==
    ASSUME NEW c \in ConnType, NumbersInv(c), c.established, c.live, ~c.aborted, c.resp # "waiting",
           NEW budget \in MIN_FLOW_QUEUE_BYTES .. Ceiling, NEW p, p = pump(c),
           NEW s, s = finish(orphan(deliver(halfClose(flapReset(publish(liveness(p), budget), p))))),
           NEW silent \in Nat, NEW late,
           Sound(c) => Ages(c, silent, late) \/ (c.queue = 0 /\ c.pending = <<>>)
    PROVE  /\ Serves(c, s)
           /\ Sound(s) => Advances(c, s)
           /\ Ages(s, silent, FALSE)
           /\ Ages(c, silent, late) => Reaps(c, s, silent)
<1>1. PICK u : u = publish(liveness(p), budget)
  OBVIOUS
<1>2. PICK r : r = flapReset(u, p)
  OBVIOUS
<1>3. s = finish(orphan(deliver(halfClose(r))))
  BY <1>1, <1>2
<1>4. u \in ConnType /\ NumbersInv(u) /\ SameFlow(c, u) /\ c.acked <= u.acked
  BY <1>1, CoreFacts
<1>5. Takes(c, u)
  BY <1>1, CoreFacts
<1>6. \/ r = u
      \/ /\ Over(u, r) /\ r.live = u.live /\ r.resp = u.resp /\ r.established = u.established
         /\ r.state = "Closed" /\ r.half_closed = u.half_closed /\ r.aborted = u.aborted
  BY <1>2, <1>4, FlapFacts
<1>7. r \in ConnType /\ NumbersInv(r) /\ ~r.aborted
  BY <1>4, <1>6 DEF Over, SameFlow
<1>8. /\ r.live /\ r.established /\ r.half_closed = c.half_closed /\ r.listening = c.listening
      /\ r.sent = c.sent /\ r.resp = c.resp
      /\ c.closed => r.closed
  BY <1>4, <1>6 DEF Over, SameFlow
<1>9. \/ Over(r, s) /\ ~s.live /\ s.resp = r.resp /\ ~s.half_closed
      \/ /\ s \in ConnType /\ Alike(r, s)
         /\ s.state \in {"Established", "CloseWait"} => s.state = r.state
         /\ s.listening /\ s.state \in Fins => r.state \in Fins \/ (r.half_closed /\ r.pending = <<>>)
         /\ r.state = "Closed" => ~s.listening
  BY <1>3, <1>7, TailFacts
<1>10. CASE Over(r, s) /\ ~s.live /\ s.resp = r.resp /\ ~s.half_closed
  <2>1. Serves(c, s)
    BY <1>8, <1>10 DEF Over, Serves
  <2> QED BY <1>10, <2>1 DEF Sound, Ages, Reaps
<1>11. CASE /\ s \in ConnType /\ Alike(r, s)
            /\ s.state \in {"Established", "CloseWait"} => s.state = r.state
            /\ s.listening /\ s.state \in Fins => r.state \in Fins \/ (r.half_closed /\ r.pending = <<>>)
            /\ r.state = "Closed" => ~s.listening
  <2>1. NumbersInv(s)
    BY <1>7, <1>11, AlikeNumbers
  <2>2. /\ s.live /\ s.established /\ s.half_closed = c.half_closed /\ s.listening = c.listening
        /\ s.sent = c.sent /\ s.resp = c.resp /\ s.closed = r.closed
        /\ c.closed => s.closed
    BY <1>8, <1>11 DEF Alike
  <2>3. c.listening /\ s.closed => c.closed
    <3>1. CASE r = u
      BY <1>4, <2>2, <3>1 DEF SameFlow
    <3>2. CASE r.state = "Closed"
      BY <1>11, <2>2, <3>2
    <3> QED BY <1>6, <3>1, <3>2
  <2>4. Serves(c, s)
    BY <1>11, <2>1, <2>2, <2>3 DEF Serves
  <2>5. ASSUME Sound(s) PROVE r = u /\ Alike(u, s) /\ Sound(c)
    <3>1. ~r.closed
      BY <2>2, <2>5 DEF Sound
    <3>2. r = u
      BY <1>6, <3>1 DEF Over
    <3> QED BY <1>4, <1>11, <3>1, <3>2 DEF SameFlow, Sound
  <2>6. ASSUME Sound(s) PROVE Advances(c, s)
    <3>1. SameData(u, s) /\ s.acked = u.acked /\ r = u
      BY <2>5, <2>6 DEF Alike
    <3>2. s.pending = u.pending /\ s.accepted_total = u.accepted_total /\ s.queue = u.queue
      BY <3>1 DEF SameData
    <3>3. u.state = c.state
      BY <1>4 DEF SameFlow
    <3>4. s.listening /\ s.state \in Fins =>
             (c.listening /\ c.state \in Fins) \/ (s.half_closed /\ s.pending = <<>>)
      BY <1>8, <1>11, <2>2, <3>1, <3>2, <3>3
    <3>5. Takes(c, s)
      BY <1>5, <3>2 DEF Takes
    <3> QED BY <1>4, <2>2, <3>1, <3>4, <3>5 DEF Advances
  <2>7. ASSUME Sound(s) PROVE Ages(s, silent, FALSE) /\ (Ages(c, silent, late) => Reaps(c, s, silent))
    <3>1. Ages(u, silent, FALSE) /\ (Ages(c, silent, late) => Reaps(c, u, silent))
      BY <1>1, <2>5, <2>7, CoreAges
    <3>2. Alike(u, s) /\ (s.state \in {"Established", "CloseWait"} => s.state = u.state)
      BY <1>11, <2>5, <2>7
    <3> QED BY <3>1, <3>2, AlikeAges
  <2>8. ~Sound(s) => Ages(s, silent, FALSE) /\ Reaps(c, s, silent)
    BY DEF Ages, Reaps
  <2> QED BY <2>4, <2>6, <2>7, <2>8
<1> QED BY <1>9, <1>10, <1>11

\* A flow without data takes none.
LEMMA TakesNone ==
    ASSUME NEW c \in ConnType, c.pending = <<>>, c.queue = 0
    PROVE  Takes(c, c) /\ c.acked <= c.acked
<1>1. c.accepted_total \in Nat /\ c.acked \in Nat
  BY DEF ConnType
<1>2. 0 \in 0 .. Len(c.pending) /\ c.accepted_total = c.accepted_total + 0 /\ c.queue = c.queue + 0
  BY <1>1
<1>3. c.pending = SubSeq(c.pending, 0 + 1, Len(c.pending))
  OBVIOUS
<1>4. Takes(c, c)
  BY <1>2, <1>3 DEF Takes
<1> QED BY <1>1, <1>4

LEMMA ServiceFacts ==
    ASSUME NEW c \in ConnType, NumbersInv(c), Early(c),
           c.resp = "waiting" => ~c.established /\ ~c.aborted, c.listening => c.resp = "ok",
           c.live /\ ~c.established => c.resp \in {"waiting", "given up"},
           NEW budget \in MIN_FLOW_QUEUE_BYTES .. Ceiling,
           NEW s, s = service_tcp(c, budget),
           NEW silent \in Nat, NEW late, Ages(c, silent, late)
    PROVE  /\ Serves(c, s)
           /\ Sound(s) => Advances(c, s)
           /\ Ages(s, silent, FALSE) /\ Reaps(c, s, silent)
<1>1. CASE ~c.live
  <2>1. s = c
    BY <1>1 DEF service_tcp
  <2> QED BY <1>1, <2>1 DEF Serves, Sound, Ages, Reaps
<1>2. CASE c.live /\ c.aborted
  <2>1. s = removed(c)
    BY <1>2 DEF service_tcp
  <2>2. Over(c, s) /\ ~s.live /\ s.resp = c.resp /\ ~s.half_closed
    BY <2>1, RemovedFacts
  <2>3. c.resp # "waiting"
    BY <1>2
  <2>4. Serves(c, s)
    BY <1>2, <2>2, <2>3 DEF Over, Serves
  <2>5. ~Sound(s)
    BY <2>2 DEF Sound
  <2> QED BY <2>4, <2>5 DEF Ages, Reaps
<1>3. CASE c.live /\ ~c.aborted
  <2>1. PICK a : a = answered(c)
    OBVIOUS
  <2>a. a \in ConnType /\ NumbersInv(a) /\ Kept(c, a) /\ Opens(c, a)
    BY <2>1, AnsweredFacts
  <2>2. /\ a \in ConnType /\ NumbersInv(a)
        /\ a.live = c.live /\ a.half_closed = c.half_closed /\ a.closed = c.closed /\ a.aborted = c.aborted
        /\ a.pending = c.pending /\ a.accepted_total = c.accepted_total /\ a.queue = c.queue
        /\ a.sent = c.sent /\ a.acked = c.acked /\ a.state = c.state
    BY <2>a DEF Kept
  <2>3. /\ c.established => a = c
        /\ a.resp # c.resp => c.resp = "waiting" /\ a.resp = "ok" /\ a.established
        /\ a.listening => c.listening \/ (c.resp = "waiting" /\ a.resp = "ok")
        /\ ~a.established => a = c
        /\ a.resp = "waiting" /\ a.established => c.established
    BY <2>a DEF Opens
  <2>4. CASE ~a.established
    <3>1. s = refused(a) /\ a = c
      BY <1>3, <2>1, <2>3, <2>4 DEF service_tcp
    <3>2. \/ s = c
          \/ Over(c, s) /\ ~s.live /\ ~s.half_closed /\ s.resp = IF c.resp = "given up" THEN c.resp ELSE "err"
      BY <3>1, RefusedFacts
    <3>3. CASE s = c
      <4>1. Sound(c) => Takes(c, c) /\ c.acked <= c.acked
        <5>1. ASSUME Sound(c) PROVE c.pending = <<>> /\ c.queue = 0
          BY <2>4, <3>1, <5>1 DEF Early
        <5> QED BY <5>1, TakesNone
      <4>3. ~c.listening
        BY <1>3, <2>4, <3>1
      <4>4. Serves(c, s)
        BY <3>3, <4>3 DEF Serves
      <4>5. Sound(s) => Advances(c, s)
        BY <3>3, <4>1, <4>3 DEF Advances
      <4> QED BY <2>4, <3>1, <3>3, <4>4, <4>5 DEF Ages, Reaps
    <3>4. CASE Over(c, s) /\ ~s.live /\ ~s.half_closed /\ s.resp = IF c.resp = "given up" THEN c.resp ELSE "err"
      <4>1. c.resp \in {"waiting", "given up"}
        BY <1>3, <2>4, <3>1
      <4>2. Serves(c, s)
        BY <1>3, <3>4, <4>1 DEF Serves, Over
      <4> QED BY <3>4, <4>2 DEF Sound, Ages, Reaps
    <3> QED BY <3>2, <3>3, <3>4
  <2>5. CASE a.established
    <3>1. PICK p : p = pump(a)
      OBVIOUS
    <3>2. s = finish(orphan(deliver(halfClose(flapReset(publish(liveness(p), budget), p)))))
      BY <1>3, <2>1, <2>5, <3>1 DEF service_tcp
    <3>3. a.live /\ ~a.aborted /\ a.resp # "waiting"
      BY <1>3, <2>2, <2>3, <2>5
    <3>4. Sound(a) => Ages(a, silent, late) \/ (a.queue = 0 /\ a.pending = <<>>)
      BY <2>2, <2>3 DEF Early, Sound
    <3>5. /\ Serves(a, s)
          /\ Sound(s) => Advances(a, s)
          /\ Ages(s, silent, FALSE)
          /\ Ages(a, silent, late) => Reaps(a, s, silent)
      BY <2>2, <2>5, <3>1, <3>2, <3>3, <3>4, EstablishedFacts
    <3>6. CASE c.established
      BY <2>3, <3>5, <3>6
    <3>7. CASE ~c.established
      <4>1. Reaps(c, s, silent)
        BY <3>7 DEF Reaps
      <4>2. Sound(s) => Advances(c, s)
        <5>1. c.state \in {"Established", "CloseWait"}
          BY <2>1, <2>5, <3>7 DEF answered
        <5>2. a.state \notin Fins
          BY <2>2, <5>1 DEF Fins
        <5> QED BY <2>2, <3>5, <5>2 DEF Advances, Takes
      <4>3. Serves(c, s)
        <5>1. s.live /\ ~s.established => FALSE
          BY <2>5, <3>5 DEF Serves
        <5>2. s.resp # "waiting"
          BY <3>3, <3>5 DEF Serves
        <5>3. ~c.listening
          BY <1>3, <3>7
        <5>4. s.live \/ s.closed
          BY <2>2, <3>3, <3>5 DEF Serves
        <5> QED BY <1>3, <2>2, <2>3, <3>5, <5>1, <5>2, <5>3, <5>4 DEF Serves
      <4> QED BY <3>5, <4>1, <4>2, <4>3
    <3> QED BY <3>6, <3>7
  <2> QED BY <2>4, <2>5
<1> QED BY <1>1, <1>2, <1>3

-----------------------------------------------------------------------------
(* The channel. *)

Msg == [id : Flows, lo : Nat, hi : Nat]
ChannelOK(q) ==
    /\ q \in Seq(Msg) /\ Len(q) <= CHANNEL
    /\ \A i \in DOMAIN q : q[i].hi - q[i].lo \in 0 .. Chunk

LEMMA ChannelElements ==
    ASSUME NEW q, ChannelOK(q)
    PROVE  /\ Len(q) \in Nat /\ DOMAIN q = 1 .. Len(q)
           /\ \A i \in DOMAIN q : q[i].id \in Flows /\ q[i].lo \in Nat /\ q[i].hi \in Nat
<1>1. q \in Seq(Msg)
  BY DEF ChannelOK
<1>2. Len(q) \in Nat /\ DOMAIN q = 1 .. Len(q)
  BY <1>1, LenProperties
<1>3. \A i \in DOMAIN q : q[i] \in Msg
  BY <1>1, <1>2, ElementOfSeq
<1>4. \A m \in Msg : m.id \in Flows /\ m.lo \in Nat /\ m.hi \in Nat
  BY DEF Msg
<1> QED BY <1>2, <1>3, <1>4

LEMMA TcpCloseType == \A g \in Flows : TcpClose(g) \in Msg /\ TcpClose(g).id = g
                                         /\ TcpClose(g).lo = 0 /\ TcpClose(g).hi = 0
  BY DEF TcpClose, Message, Msg

\* Only TcpClose messages of the flows in G are appended.
ClosesAdded(G) ==
    /\ ChannelOK(data_in') /\ Len(data_in) <= Len(data_in')
    /\ \A i \in 1 .. Len(data_in) : data_in'[i] = data_in[i]
    /\ \A i \in Len(data_in) + 1 .. Len(data_in') : \E g \in G : data_in'[i] = TcpClose(g)

LEMMA AddedConcat ==
    ASSUME ChannelOK(data_in), NEW G \in SUBSET Flows, NEW n \in Nat, NEW t \in [1 .. n -> G],
           Len(data_in) + n <= CHANNEL,
           data_in' = data_in \o [i \in 1 .. n |-> TcpClose(t[i])]
    PROVE  ClosesAdded(G)
<1> DEFINE e == [i \in 1 .. n |-> TcpClose(t[i])]
<1>1. data_in \in Seq(Msg) /\ Len(data_in) \in Nat /\ DOMAIN data_in = 1 .. Len(data_in)
  BY LenProperties DEF ChannelOK
<1>2. e \in Seq(Msg) /\ Len(e) = n
  <2>1. \A i \in 1 .. n : TcpClose(t[i]) \in Msg
    BY TcpCloseType
  <2>2. e \in [1 .. n -> Msg]
    BY <2>1
  <2> QED BY <2>2, IsASeq
<1>3. \A i \in 1 .. n : e[i] = TcpClose(t[i])
  OBVIOUS
<1> HIDE DEF e
<1>4. data_in' = data_in \o e
  BY DEF e
<1>5. /\ data_in \o e \in Seq(Msg) /\ Len(data_in \o e) = Len(data_in) + Len(e)
      /\ \A i \in 1 .. Len(data_in) + Len(e) :
            (data_in \o e)[i] = IF i <= Len(data_in) THEN data_in[i] ELSE e[i - Len(data_in)]
  BY <1>1, <1>2, ConcatProperties
<1>b. /\ data_in' \in Seq(Msg) /\ Len(data_in') = Len(data_in) + n
      /\ \A i \in 1 .. Len(data_in) + n :
            data_in'[i] = IF i <= Len(data_in) THEN data_in[i] ELSE e[i - Len(data_in)]
  BY <1>2, <1>4, <1>5
<1>6. \A i \in 1 .. Len(data_in) : data_in'[i] = data_in[i]
  BY <1>1, <1>b
<1>7. \A i \in Len(data_in) + 1 .. Len(data_in') : i - Len(data_in) \in 1 .. n /\ data_in'[i] = e[i - Len(data_in)]
  <2> SUFFICES ASSUME NEW i \in Len(data_in) + 1 .. Len(data_in')
               PROVE  i - Len(data_in) \in 1 .. n /\ data_in'[i] = e[i - Len(data_in)]
    OBVIOUS
  <2>1. i \in 1 .. Len(data_in) + n /\ ~(i <= Len(data_in)) /\ i - Len(data_in) \in 1 .. n
    BY <1>1, <1>b
  <2> QED BY <1>b, <2>1
<1>8. \A i \in Len(data_in) + 1 .. Len(data_in') : \E g \in G : data_in'[i] = TcpClose(g)
  BY <1>3, <1>7
<1>9. ASSUME NEW i \in DOMAIN data_in' PROVE data_in'[i].hi - data_in'[i].lo \in 0 .. Chunk
  <2>1. i \in 1 .. Len(data_in')
    BY <1>b, LenProperties
  <2>2. CASE i \in 1 .. Len(data_in)
    BY <1>1, <1>6, <2>2 DEF ChannelOK
  <2>3. CASE i \in Len(data_in) + 1 .. Len(data_in')
    <3>1. PICK g \in G : data_in'[i] = TcpClose(g)
      BY <1>8, <2>3
    <3>2. data_in'[i].hi = 0 /\ data_in'[i].lo = 0
      BY <3>1, TcpCloseType
    <3> QED BY <3>2, Constants
  <2> QED BY <1>1, <1>b, <2>1, <2>2, <2>3
<1>10. ChannelOK(data_in')
  BY <1>b, <1>9 DEF ChannelOK
<1> QED BY <1>1, <1>b, <1>6, <1>8, <1>10 DEF ClosesAdded

LEMMA AddedNone == ASSUME ChannelOK(data_in), data_in' = data_in, NEW G PROVE ClosesAdded(G)
<1>1. Len(data_in) \in Nat
  BY LenProperties DEF ChannelOK
<1>2. ChannelOK(data_in')
  BY DEF ChannelOK
<1> QED BY <1>1, <1>2 DEF ClosesAdded

LEMMA AddedOne ==
    ASSUME ChannelOK(data_in), Len(data_in) < CHANNEL, NEW g \in Flows,
           data_in' = Append(data_in, TcpClose(g))
    PROVE  ClosesAdded({g})
<1>1. data_in \in Seq(Msg) /\ Len(data_in) \in Nat
  BY LenProperties DEF ChannelOK
<1>2. PICK t : t = [i \in 1 .. 1 |-> g]
  OBVIOUS
<1>3. t \in [1 .. 1 -> {g}] /\ t[1] = g
  BY <1>2
<1>4. [i \in 1 .. 1 |-> TcpClose(t[i])] = <<TcpClose(g)>>
  BY <1>3
<1>5. data_in' = data_in \o [i \in 1 .. 1 |-> TcpClose(t[i])]
  BY <1>1, <1>4, TcpCloseType, AppendIsConcat
<1>6. {g} \in SUBSET Flows /\ Len(data_in) + 1 <= CHANNEL
  BY <1>1, Constants
<1> QED BY <1>3, <1>5, <1>6, AddedConcat

LEMMA AddedDrop ==
    ASSUME ChannelOK(data_in), NEW g \in Flows, data_in' = dropConn(data_in, g)
    PROVE  ClosesAdded({g})
  BY AddedNone, AddedOne DEF dropConn

\* The chunks stay where they are, and new messages come behind them.
LEMMA AddedFacts ==
    ASSUME NEW G \in SUBSET Flows, ChannelOK(data_in), ClosesAdded(G), NEW f \in Flows
    PROVE  /\ Chunks(f)' = Chunks(f)
           /\ \A i \in Chunks(f) : data_in'[i] = data_in[i]
           /\ \A i \in Closes(f)' : i \in Closes(f) \/ (f \in G /\ \A j \in Chunks(f) : j < i)
<1>1. /\ DOMAIN data_in = 1 .. Len(data_in) /\ DOMAIN data_in' = 1 .. Len(data_in')
      /\ Len(data_in) \in Nat /\ Len(data_in') \in Nat
  BY LenProperties DEF ChannelOK, ClosesAdded
<1>2. DOMAIN data_in \subseteq DOMAIN data_in'
  BY <1>1 DEF ClosesAdded
<1>3. \A i \in DOMAIN data_in : data_in'[i] = data_in[i]
  BY <1>1 DEF ClosesAdded
<1>4. ASSUME NEW i \in DOMAIN data_in', i \notin DOMAIN data_in
      PROVE  /\ data_in'[i].lo = data_in'[i].hi /\ data_in'[i].id \in G
             /\ \A j \in DOMAIN data_in : j < i
  <2>1. i \in Len(data_in) + 1 .. Len(data_in')
    BY <1>1, <1>4
  <2>2. PICK g \in G : data_in'[i] = TcpClose(g)
    BY <2>1 DEF ClosesAdded
  <2>3. data_in'[i].lo = data_in'[i].hi /\ data_in'[i].id \in G
    BY <2>2, TcpCloseType
  <2>4. \A j \in DOMAIN data_in : j < i
    BY <1>1, <2>1
  <2> QED BY <2>3, <2>4
<1>6. \A i \in DOMAIN data_in' : data_in'[i].lo \in Nat /\ data_in'[i].hi \in Nat
  BY ChannelElements DEF ClosesAdded
<1>7. Chunks(f)' = Chunks(f)
  <2>1. \A i \in DOMAIN data_in' : data_in'[i].lo < data_in'[i].hi => i \in DOMAIN data_in
    <3> SUFFICES ASSUME NEW i \in DOMAIN data_in', i \notin DOMAIN data_in
                 PROVE  ~(data_in'[i].lo < data_in'[i].hi)
      OBVIOUS
    <3>1. data_in'[i].lo = data_in'[i].hi /\ data_in'[i].lo \in Nat
      BY <1>4, <1>6
    <3> QED BY <3>1
  <2> QED BY <1>2, <1>3, <2>1 DEF Chunks
<1>8. Chunks(f) \subseteq DOMAIN data_in
  BY DEF Chunks
<1>9. ASSUME NEW i \in Closes(f)' PROVE i \in Closes(f) \/ (f \in G /\ \A j \in Chunks(f) : j < i)
  <2>1. i \in DOMAIN data_in' /\ data_in'[i].id = f /\ data_in'[i].lo = data_in'[i].hi
    BY <1>9 DEF Closes
  <2>2. CASE i \in DOMAIN data_in
    BY <1>3, <2>1, <2>2 DEF Closes
  <2>3. CASE i \notin DOMAIN data_in
    BY <1>4, <1>8, <2>1, <2>3
  <2> QED BY <2>2, <2>3
<1> QED BY <1>3, <1>7, <1>8, <1>9

-----------------------------------------------------------------------------
(* Steps that leave the upload of a flow alone. *)

LEMMA TypeParts ==
    ASSUME StackTypeOK
    PROVE  /\ \A f \in Flows : conn[f] \in ConnType /\ relay[f] \in RelayType /\ aux[f] \in AuxType
           /\ ChannelOK(data_in)
           /\ \A f \in Flows : backlog.data[f] \in Seq(Nat)
           /\ backlog.data \in [Flows -> Seq(Nat)] /\ backlog.close \in SUBSET Flows
           /\ backlog.blocked \in SUBSET Flows /\ backlog.bytes \in Nat
<1>1. backlog \in BacklogType
  BY DEF StackTypeOK
<1>2. /\ backlog.data \in [Flows -> Seq(Nat)] /\ backlog.close \in SUBSET Flows
      /\ backlog.blocked \in SUBSET Flows /\ backlog.bytes \in Nat
  BY <1>1 DEF BacklogType
<1>3. ChannelOK(data_in)
  BY DEF StackTypeOK, ChannelOK, Msg
<1> QED BY <1>2, <1>3 DEF StackTypeOK

LEMMA BufferKept ==
    ASSUME NEW f, BufferInv(f), conn'[f].pending = conn[f].pending,
           conn'[f].accepted_total = conn[f].accepted_total, backlog'.data[f] = backlog.data[f]
    PROVE  BufferInv(f)' /\ Reached(f)' = Reached(f)
  BY DEF BufferInv, Reached

LEMMA ChainKept ==
    ASSUME NEW f, ChainInv(f), Reached(f)' = Reached(f), Chunks(f)' = Chunks(f),
           \A i \in Chunks(f) : data_in'[i] = data_in[i] /\ data_in[i].hi \in Nat,
           Reached(f) \in Int, Given(f) \in Int, Given(f)' \in Int,
           Given(f) <= Given(f)',
           relay'[f].up # "off" => relay[f].up # "off" /\ Given(f)' = Given(f)
    PROVE  ChainInv(f)'
<1>1. Reached(f)' <= Given(f)'
  BY DEF ChainInv
<1>2. ASSUME NEW i \in Chunks(f)'
      PROVE  /\ Reached(f)' <= data_in'[i].lo /\ data_in'[i].hi <= Given(f)'
             /\ data_in'[i].lo = Reached(f)' \/ \E j \in Chunks(f)' : j < i /\ data_in'[j].hi = data_in'[i].lo
             /\ \A j \in Chunks(f)' : i < j => data_in'[i].hi <= data_in'[j].lo
  <2>1. i \in Chunks(f) /\ data_in'[i] = data_in[i] /\ data_in[i].hi \in Nat
    OBVIOUS
  <2>2. data_in[i].hi <= Given(f) /\ Reached(f) <= data_in[i].lo
    BY <2>1 DEF ChainInv
  <2>3. data_in[i].hi <= Given(f)'
    BY <2>1, <2>2
  <2>4. data_in[i].lo = Reached(f) \/ \E j \in Chunks(f) : j < i /\ data_in[j].hi = data_in[i].lo
    BY <2>1 DEF ChainInv
  <2>5. \A j \in Chunks(f) : i < j => data_in[i].hi <= data_in[j].lo
    BY <2>1 DEF ChainInv
  <2> QED BY <2>1, <2>2, <2>3, <2>4, <2>5
<1>3. relay'[f].up # "off" => Given(f)' = Reached(f)' \/ \E i \in Chunks(f)' : data_in'[i].hi = Given(f)'
  BY DEF ChainInv
<1> QED BY <1>1, <1>2, <1>3 DEF ChainInv

\* The numbers of a flow are numbers.
LEMMA FlowNumbers ==
    ASSUME StackTypeOK, NEW f \in Flows
    PROVE  /\ conn[f].sent \in Nat /\ conn[f].acked \in Nat /\ conn[f].accepted_total \in Nat
           /\ conn[f].queue \in 0 .. TX_BUF
           /\ conn[f].pending \in Seq(Nat) /\ Len(conn[f].pending) \in Nat
           /\ Len(conn[f].pending) <= max_tcp_pending
           /\ backlog.data[f] \in Seq(Nat) /\ Len(backlog.data[f]) \in Nat
           /\ Reached(f) \in Nat /\ InRelay(f) \in Nat /\ Given(f) \in Int
<1>1. conn[f] \in ConnType /\ relay[f] \in RelayType /\ backlog.data[f] \in Seq(Nat)
  BY TypeParts
<1>2. /\ conn[f].sent \in Nat /\ conn[f].acked \in Nat /\ conn[f].accepted_total \in Nat
      /\ conn[f].queue \in 0 .. TX_BUF /\ conn[f].pending \in Upto(Nat, max_tcp_pending)
  BY <1>1 DEF ConnType
<1>3. conn[f].pending \in Seq(Nat) /\ Len(conn[f].pending) <= max_tcp_pending
  BY <1>2 DEF Upto
<1>4. Len(conn[f].pending) \in Nat /\ Len(backlog.data[f]) \in Nat
  BY <1>1, <1>3, LenProperties
<1>5. relay[f].len \in 0 .. Chunk
  BY <1>1 DEF RelayType
<1>6. InRelay(f) \in Nat
  BY <1>5, Constants DEF InRelay
<1>7. Reached(f) \in Nat
  <2>1. \A i, j, k \in Nat : i + j + k \in Nat
    OBVIOUS
  <2> QED BY <1>2, <1>4, <2>1 DEF Reached
<1>8. Given(f) \in Int
  BY <1>2, <1>6 DEF Given
<1> QED BY <1>1, <1>2, <1>3, <1>4, <1>6, <1>7, <1>8

SameUpload(f) ==
    /\ conn'[f].live = conn[f].live /\ conn'[f].closed = conn[f].closed
    /\ conn'[f].half_closed = conn[f].half_closed /\ conn'[f].pending = conn[f].pending
    /\ conn'[f].accepted_total = conn[f].accepted_total
    /\ conn'[f].sent = conn[f].sent /\ conn'[f].acked = conn[f].acked

LEMMA UploadKept ==
    ASSUME StackTypeOK, NEW G \in SUBSET Flows, ClosesAdded(G), NEW f \in Flows, FlowInv(f),
           SameUpload(f), backlog' = backlog, aux'[f].forced = aux[f].forced,
           relay[f].up = "off" => relay'[f].up = "off",
           InRelay(f)' = InRelay(f) \/ (InRelay(f)' = 0 /\ relay'[f].up = "off"),
           relay[f].up \in {"ended", "off"} \/ f \in G => relay'[f].up \in {"ended", "off"}
    PROVE  /\ Sound(conn'[f]) => BufferInv(f)' /\ ChainInv(f)'
           /\ CreditInv(f)' /\ CloseInv(f)'
<1>1. /\ Chunks(f)' = Chunks(f)
      /\ \A i \in Chunks(f) : data_in'[i] = data_in[i]
      /\ \A i \in Closes(f)' : i \in Closes(f) \/ (f \in G /\ \A j \in Chunks(f) : j < i)
  BY TypeParts, AddedFacts
<1>2. /\ \A i \in Chunks(f) : data_in[i].hi \in Nat
      /\ Reached(f) \in Nat /\ InRelay(f) \in Nat /\ Given(f) \in Int /\ conn[f].sent \in Nat
  BY TypeParts, ChannelElements, FlowNumbers DEF Chunks
<1>3. Given(f)' = conn[f].sent - InRelay(f)'
  BY DEF Given, SameUpload
<1>4. /\ Given(f)' \in Int /\ Given(f) <= Given(f)'
      /\ relay'[f].up # "off" => relay[f].up # "off" /\ Given(f)' = Given(f)
  BY <1>2, <1>3 DEF Given
<1>5. ASSUME Sound(conn'[f]) PROVE BufferInv(f)' /\ ChainInv(f)'
  <2>1. BufferInv(f) /\ ChainInv(f)
    BY <1>5 DEF SameUpload, Sound, FlowInv
  <2>2. BufferInv(f)' /\ Reached(f)' = Reached(f)
    BY <2>1, BufferKept DEF SameUpload
  <2>3. ChainInv(f)'
    BY <1>1, <1>2, <1>4, <2>1, <2>2, ChainKept
  <2> QED BY <2>2, <2>3
<1>6. CreditInv(f)'
  BY DEF FlowInv, CreditInv, SameUpload
<1>7. CloseInv(f)'
  <2>1. CloseInv(f)
    BY DEF FlowInv
  <2>2. Closes(f)' # {} \/ f \in backlog'.close \/ conn'[f].half_closed => relay'[f].up \in {"ended", "off"}
    BY <1>1, <2>1 DEF CloseInv, SameUpload
  <2>3. \A i \in Closes(f)', j \in Chunks(f)' : j < i
    BY <1>1, <2>1 DEF CloseInv
  <2> QED BY <1>1, <2>1, <2>2, <2>3 DEF CloseInv, SameUpload
<1> QED BY <1>5, <1>6, <1>7

LEMMA FrameFlow ==
    ASSUME StackTypeOK, NEW G \in SUBSET Flows, ClosesAdded(G), NEW f \in Flows, FlowInv(f), f \notin G,
           conn'[f] = conn[f], relay'[f] = relay[f], aux'[f] = aux[f], backlog' = backlog, ticked' = ticked
    PROVE  FlowInv(f)'
<1>1. SameUpload(f) /\ InRelay(f)' = InRelay(f)
  BY DEF SameUpload, InRelay
<1>2. /\ Sound(conn'[f]) => BufferInv(f)' /\ ChainInv(f)'
      /\ CreditInv(f)' /\ CloseInv(f)'
  <2>1. /\ aux'[f].forced = aux[f].forced
        /\ relay[f].up = "off" => relay'[f].up = "off"
        /\ relay[f].up \in {"ended", "off"} \/ f \in G => relay'[f].up \in {"ended", "off"}
    OBVIOUS
  <2> QED BY <1>1, <2>1, UploadKept
<1>3. Chunks(f)' = Chunks(f) /\ \A i \in Closes(f)' : i \in Closes(f)
  BY TypeParts, AddedFacts
<1>4. LinkInv(f)'
  BY <1>3 DEF FlowInv, LinkInv
<1>5. NumbersInv(conn'[f]) /\ FinInv(conn'[f]) /\ Ages(conn'[f], aux'[f].silent, ticked')
  BY DEF FlowInv
<1> QED BY <1>2, <1>4, <1>5 DEF FlowInv

LEMMA BacklogKept ==
    ASSUME BacklogInv, StackTypeOK, backlog' = backlog,
           \A g \in Flows : (conn[g].closed => conn'[g].closed) /\ (aux[g].forced => aux'[g].forced)
    PROVE  BacklogInv'
<1>1. backlog.blocked \subseteq Flows
  BY TypeParts
<1> QED BY <1>1 DEF BacklogInv

-----------------------------------------------------------------------------
(* The peer and the clock. *)

\* A step that changes one flow, and its relay, only.
OneFlow(f, c, r, a) ==
    /\ conn' = [conn EXCEPT ![f] = c] /\ relay' = [relay EXCEPT ![f] = r] /\ aux' = [aux EXCEPT ![f] = a]
    /\ UNCHANGED <<backlog, ticked>> /\ phase' \in {"poll", "queues"} /\ moved' \in BOOLEAN

LEMMA OneFlowStep ==
    ASSUME StackInv, NEW f \in Flows, NEW c \in ConnType, NEW r \in RelayType, NEW a \in AuxType,
           OneFlow(f, c, r, a), ClosesAdded({f}) \/ ClosesAdded({}),
           conn[f].closed => c.closed, aux[f].forced => a.forced,
           FlowInv(f)'
    PROVE  StackInv'
<1>1. conn \in [Flows -> ConnType] /\ relay \in [Flows -> RelayType] /\ aux \in [Flows -> AuxType]
  BY DEF StackInv, StackTypeOK
<1>2. conn' \in [Flows -> ConnType] /\ relay' \in [Flows -> RelayType] /\ aux' \in [Flows -> AuxType]
  BY <1>1 DEF OneFlow
<1>3. \A g \in Flows \ {f} : conn'[g] = conn[g] /\ relay'[g] = relay[g] /\ aux'[g] = aux[g]
  BY <1>1 DEF OneFlow
<1>4. conn'[f] = c /\ relay'[f] = r /\ aux'[f] = a /\ backlog' = backlog /\ ticked' = ticked
  BY <1>1 DEF OneFlow
<1>5. StackTypeOK'
  <2>1. ChannelOK(data_in')
    BY DEF ClosesAdded
  <2>2. backlog' \in BacklogType /\ ticked' \in BOOLEAN
    BY <1>4 DEF StackInv, StackTypeOK
  <2>3. /\ data_in' \in Seq([id : Flows, lo : Nat, hi : Nat]) /\ Len(data_in') <= CHANNEL
        /\ \A i \in DOMAIN data_in' : data_in'[i].hi - data_in'[i].lo \in 0 .. Chunk
    BY <2>1 DEF ChannelOK, Msg
  <2>4. phase' \in {"poll", "queues"} /\ moved' \in BOOLEAN
    BY DEF OneFlow
  <2> QED BY <1>2, <2>2, <2>3, <2>4 DEF StackTypeOK
<1>6. BacklogInv'
  <2>1. \A g \in Flows : (conn[g].closed => conn'[g].closed) /\ (aux[g].forced => aux'[g].forced)
    BY <1>3, <1>4
  <2> QED BY <1>4, <2>1, BacklogKept DEF StackInv
<1>7. ASSUME NEW g \in Flows PROVE FlowInv(g)'
  <2>1. CASE g = f
    BY <2>1
  <2>2. CASE g # f
    <3>1. conn'[g] = conn[g] /\ relay'[g] = relay[g] /\ aux'[g] = aux[g] /\ FlowInv(g) /\ StackTypeOK
      BY <1>3, <2>2 DEF StackInv
    <3>2. PICK G \in SUBSET Flows : ClosesAdded(G) /\ g \notin G
      BY <2>2
    <3> QED BY <1>4, <3>1, <3>2, FrameFlow
  <2> QED BY <2>1, <2>2
<1> QED BY <1>5, <1>6, <1>7 DEF StackInv

\* What the peer cannot touch.
Distinct(c, x) ==
    /\ x.live = c.live /\ x.established = c.established /\ x.half_closed = c.half_closed
    /\ x.aborted = c.aborted /\ x.closed = c.closed /\ x.listening = c.listening
    /\ x.resp = c.resp /\ x.sent = c.sent /\ x.acked = c.acked /\ x.pending = c.pending
    /\ x.accepted_total = c.accepted_total /\ x.acked_high = c.acked_high
    /\ x.drainAge = c.drainAge /\ x.progressAge = c.progressAge

LEMMA PeerStep ==
    ASSUME StackInv, NEW f \in Flows, NEW c \in ConnType, NEW a \in AuxType, Socket(f, c),
           aux' = [aux EXCEPT ![f] = a], a.forced = aux[f].forced,
           Distinct(conn[f], c), NumbersInv(c), c.state \in Fins => conn[f].state \in Fins,
           Ages(c, a.silent, ticked)
    PROVE  StackInv'
<1>1. StackTypeOK /\ FlowInv(f) /\ conn[f].live
  BY DEF StackInv, Socket
<1>2. /\ relay[f] \in RelayType /\ relay \in [Flows -> RelayType] /\ conn \in [Flows -> ConnType]
      /\ aux \in [Flows -> AuxType] /\ phase \in {"poll", "queues"} /\ moved \in BOOLEAN
  BY <1>1 DEF StackTypeOK
<1>3. ClosesAdded({})
  BY <1>1, TypeParts, AddedNone DEF Socket
<1>4. OneFlow(f, c, relay[f], a)
  BY <1>2 DEF Socket, OneFlow
<1>5. conn'[f] = c /\ relay'[f] = relay[f] /\ aux'[f] = a /\ backlog' = backlog /\ ticked' = ticked
  BY <1>2 DEF Socket
<1>6. SameUpload(f)
  BY <1>5 DEF Distinct, SameUpload
<1>7. /\ Sound(conn'[f]) => BufferInv(f)' /\ ChainInv(f)'
      /\ CreditInv(f)' /\ CloseInv(f)'
  <2>1. /\ aux'[f].forced = aux[f].forced /\ InRelay(f)' = InRelay(f)
        /\ relay[f].up = "off" => relay'[f].up = "off"
        /\ relay[f].up \in {"ended", "off"} \/ f \in {} => relay'[f].up \in {"ended", "off"}
    BY <1>5 DEF InRelay
  <2> QED BY <1>1, <1>3, <1>5, <1>6, <2>1, UploadKept
<1>8. LinkInv(f)'
  <2>1. Chunks(f)' = Chunks(f) /\ \A i \in Closes(f)' : i \in Closes(f)
    BY <1>1, <1>3, TypeParts, AddedFacts
  <2>2. relay[f].up # "idle"
    <3>1. Blank.live = FALSE
      BY DEF Blank
    <3> QED BY <1>1, <3>1 DEF FlowInv, LinkInv
  <2> QED BY <1>1, <1>5, <2>1, <2>2 DEF FlowInv, LinkInv, Linked, Distinct
<1>9. FinInv(c)
  <2>1. FinInv(conn[f])
    BY <1>1 DEF FlowInv
  <2> QED BY <2>1 DEF FinInv, Sound, Distinct
<1>10. FlowInv(f)'
  BY <1>5, <1>7, <1>8, <1>9 DEF FlowInv
<1>11. conn[f].closed => c.closed
  BY DEF Distinct
<1> QED BY <1>2, <1>3, <1>4, <1>10, <1>11, OneFlowStep

\* What a socket step does to the clocks of its flow.
LEMMA SameAges ==
    ASSUME NEW c, NEW x, NEW silent, NEW late, Ages(c, silent, late), Distinct(c, x), x.queue = c.queue
    PROVE  Ages(x, silent, late)
  BY DEF Ages, Distinct, Sound, acked

LEMMA SameNumbers ==
    ASSUME NEW c, NEW x, NumbersInv(c), Distinct(c, x), x.queue = c.queue
    PROVE  NumbersInv(x)
  BY DEF NumbersInv, Distinct

LEMMA StateSet ==
    ASSUME NEW c \in ConnType, NEW st \in States
    PROVE  LET x == [c EXCEPT !.state = st] IN
           x \in ConnType /\ Distinct(c, x) /\ x.queue = c.queue /\ x.state = st
<1>1. PICK x : x = [c EXCEPT !.state = st]
  OBVIOUS
<1>2. x \in ConnType
  BY <1>1 DEF ConnType
<1>3. Distinct(c, x) /\ x.queue = c.queue /\ x.state = st
  BY <1>1 DEF ConnType, Distinct
<1> QED BY <1>1, <1>2, <1>3

\* A socket that only changes its state.
LEMMA StateStep ==
    ASSUME StackInv, NEW f \in Flows, NEW st \in States, NEW a \in AuxType,
           Socket(f, [conn[f] EXCEPT !.state = st]), aux' = [aux EXCEPT ![f] = a],
           a.forced = aux[f].forced, a.silent = aux[f].silent,
           st \in Fins => conn[f].state \in Fins
    PROVE  StackInv'
<1>1. conn[f] \in ConnType /\ FlowInv(f)
  BY TypeParts DEF StackInv
<1>2. PICK x : x = [conn[f] EXCEPT !.state = st]
  OBVIOUS
<1>3. x \in ConnType /\ Distinct(conn[f], x) /\ x.queue = conn[f].queue /\ x.state = st
  BY <1>1, <1>2, StateSet
<1>4. NumbersInv(x) /\ Ages(x, a.silent, ticked)
  BY <1>1, <1>3, SameAges, SameNumbers DEF FlowInv
<1> QED BY <1>2, <1>3, <1>4, PeerStep

LEMMA AuxSame ==
    ASSUME StackInv, NEW f \in Flows, UNCHANGED aux
    PROVE  aux' = [aux EXCEPT ![f] = aux[f]] /\ aux[f] \in AuxType
  BY DEF StackInv, StackTypeOK

LEMMA AuxField ==
    ASSUME StackInv, NEW f \in Flows
    PROVE  /\ aux[f] \in AuxType
           /\ [aux[f] EXCEPT !.silent = 0] \in AuxType
           /\ [aux[f] EXCEPT !.reset = TRUE] \in AuxType
           /\ [aux[f] EXCEPT !.ended = TRUE] \in AuxType
           /\ [aux[f] EXCEPT !.down = @ + 1] \in AuxType
<1>1. aux[f] \in AuxType
  BY DEF StackInv, StackTypeOK
<1>2. 0 \in 0 .. TCP_DRAIN_STALL_TIMEOUT
  BY Durations
<1>3. aux[f].down + 1 \in Nat
  <2>1. aux[f].down \in Nat
    BY <1>1 DEF AuxType
  <2> QED BY <2>1
<1> QED BY <1>1, <1>2, <1>3 DEF AuxType

LEMMA PeerAcceptsInv == ASSUME StackInv, NEW f \in Flows, PeerAccepts(f) PROVE StackInv'
<1>1. Socket(f, [conn[f] EXCEPT !.state = "Established"]) /\ UNCHANGED aux
  BY DEF PeerAccepts
<1>2. "Established" \in States /\ "Established" \notin Fins
  BY DEF States, Fins
<1> QED BY <1>1, <1>2, AuxSame, StateStep

LEMMA PeerAcksFinInv == ASSUME StackInv, NEW f \in Flows, PeerAcksFin(f) PROVE StackInv'
<1>1. PICK st : st = (CASE conn[f].state = "FinWait1" -> "FinWait2"
                        [] conn[f].state = "Closing" -> "TimeWait"
                        [] conn[f].state = "LastAck" -> "Closed")
  OBVIOUS
<1>2. Socket(f, [conn[f] EXCEPT !.state = st]) /\ UNCHANGED aux
  BY <1>1 DEF PeerAcksFin
<1>3. conn[f].state \in {"FinWait1", "Closing", "LastAck"}
  BY DEF PeerAcksFin
<1>4. st \in States /\ (st \in Fins => conn[f].state \in Fins)
  BY <1>1, <1>3 DEF States, Fins
<1> QED BY <1>2, <1>4, AuxSame, StateStep

LEMMA PeerClosesInv == ASSUME StackInv, NEW f \in Flows, PeerCloses(f) PROVE StackInv'
<1>1. PICK st : st = (CASE conn[f].state = "Established" -> "CloseWait"
                        [] conn[f].state = "FinWait1" -> "Closing"
                        [] conn[f].state = "FinWait2" -> "TimeWait")
  OBVIOUS
<1>2. Socket(f, [conn[f] EXCEPT !.state = st]) /\ UNCHANGED aux
  BY <1>1 DEF PeerCloses
<1>3. conn[f].state \in {"Established", "FinWait1", "FinWait2"}
  BY DEF PeerCloses
<1>4. st \in States /\ (st \in Fins => conn[f].state \in Fins)
  BY <1>1, <1>3 DEF States, Fins
<1> QED BY <1>2, <1>4, AuxSame, StateStep

LEMMA PeerResetsInv == ASSUME StackInv, NEW f \in Flows, PeerResets(f) PROVE StackInv'
<1>1. PICK a : a = [aux[f] EXCEPT !.reset = TRUE]
  OBVIOUS
<1>2. Socket(f, [conn[f] EXCEPT !.state = "Closed"]) /\ aux' = [aux EXCEPT ![f] = a]
  BY <1>1 DEF PeerResets, Abort
<1>3. a \in AuxType
  BY <1>1, AuxField
<1>4. a.forced = aux[f].forced
  BY <1>1, AuxField DEF AuxType
<1>5. a.silent = aux[f].silent
  BY <1>1, AuxField DEF AuxType
<1>6. "Closed" \in States /\ "Closed" \notin Fins
  BY DEF States, Fins
<1> QED BY <1>2, <1>3, <1>4, <1>5, <1>6, StateStep

LEMMA PeerSendsInv == ASSUME StackInv, NEW f \in Flows, PeerSends(f) PROVE StackInv'
<1>1. PICK a : a = [aux[f] EXCEPT !.down = @ + 1]
  OBVIOUS
<1>2. PICK x : x = [conn[f] EXCEPT !.rx = @ + 1]
  OBVIOUS
<1>3. Socket(f, x) /\ aux' = [aux EXCEPT ![f] = a]
  BY <1>1, <1>2 DEF PeerSends
<1>4. a \in AuxType
  BY <1>1, AuxField
<1>5. a.forced = aux[f].forced
  BY <1>1, AuxField DEF AuxType
<1>6. a.silent = aux[f].silent
  BY <1>1, AuxField DEF AuxType
<1>7. conn[f] \in ConnType /\ FlowInv(f)
  BY TypeParts DEF StackInv
<1>8. conn[f].rx + 1 \in 0 .. RX_BUF
  <2>1. conn[f].rx \in 0 .. RX_BUF
    BY <1>7 DEF ConnType
  <2> QED BY <2>1, Constants DEF PeerSends
<1>9. x \in ConnType
  BY <1>2, <1>7, <1>8 DEF ConnType
<1>10. Distinct(conn[f], x) /\ x.queue = conn[f].queue /\ x.state = conn[f].state
  BY <1>2, <1>7 DEF ConnType, Distinct
<1>11. NumbersInv(x) /\ Ages(x, a.silent, ticked)
  BY <1>6, <1>7, <1>10, SameAges, SameNumbers DEF FlowInv
<1> QED BY <1>3, <1>4, <1>5, <1>9, <1>10, <1>11, PeerStep

LEMMA PeerAcksInv == ASSUME StackInv, NEW f \in Flows, PeerAcks(f) PROVE StackInv'
<1>1. PICK n \in 1 .. conn[f].queue : Socket(f, [conn[f] EXCEPT !.queue = @ - n])
  BY DEF PeerAcks
<1>2. PICK a : a = [aux[f] EXCEPT !.silent = 0]
  OBVIOUS
<1>3. PICK x : x = [conn[f] EXCEPT !.queue = @ - n]
  OBVIOUS
<1>4. Socket(f, x) /\ aux' = [aux EXCEPT ![f] = a]
  BY <1>1, <1>2, <1>3 DEF PeerAcks
<1>5. a \in AuxType
  BY <1>2, AuxField
<1>6. a.forced = aux[f].forced
  BY <1>2, AuxField DEF AuxType
<1>7. conn[f] \in ConnType /\ FlowInv(f)
  BY TypeParts DEF StackInv
<1>8. /\ conn[f].queue \in 0 .. TX_BUF /\ conn[f].accepted_total \in Nat /\ conn[f].acked \in Nat
      /\ conn[f].acked_high \in Nat
  BY <1>7 DEF ConnType
<1>9. n \in Nat /\ n >= 1 /\ conn[f].queue - n \in 0 .. TX_BUF /\ conn[f].queue \in Nat
  BY <1>8, Constants
<1>10. x \in ConnType
  BY <1>3, <1>7, <1>9 DEF ConnType
<1>11. Distinct(conn[f], x) /\ x.state = conn[f].state
  BY <1>3, <1>7 DEF ConnType, Distinct
<1>12. x.queue = conn[f].queue - n
  BY <1>3, <1>7 DEF ConnType
<1>13. /\ x.accepted_total = conn[f].accepted_total /\ x.acked = conn[f].acked
       /\ x.acked_high = conn[f].acked_high
  BY <1>11 DEF Distinct
<1>14. NumbersInv(conn[f])
  BY <1>7 DEF FlowInv
<1>15. NumbersInv(x) /\ acked(x) # x.acked_high
  BY <1>8, <1>9, <1>12, <1>13, <1>14 DEF NumbersInv, acked
<1>16. ~(x.queue >= TX_BUF)
  BY <1>8, <1>9, <1>12, Constants
<1>17. Ages(x, a.silent, ticked)
  BY <1>15, <1>16 DEF Ages
<1> QED BY <1>4, <1>5, <1>6, <1>10, <1>11, <1>15, <1>17, PeerStep

LEMMA AgedFacts ==
    ASSUME NEW limit \in Nat, NEW age \in 0 .. limit
    PROVE  /\ Aged(age, limit) = Smaller(age + 1, limit) /\ Aged(age, limit) \in 0 .. limit
           /\ 0 \in 0 .. limit
  BY DEF Aged, Smaller, Never

LEMMA OrphanAged ==
    ASSUME NEW limit \in Nat, NEW age \in Never .. limit
    PROVE  Aged(age, limit) \in Never .. limit
  BY DEF Aged, Smaller, Never

LEMMA OlderFacts ==
    ASSUME NEW c \in ConnType, NEW x, x = Older(c), c.live
    PROVE  /\ x \in ConnType
           /\ x.live = c.live /\ x.established = c.established /\ x.half_closed = c.half_closed
           /\ x.aborted = c.aborted /\ x.closed = c.closed /\ x.listening = c.listening
           /\ x.resp = c.resp /\ x.sent = c.sent /\ x.acked = c.acked /\ x.pending = c.pending
           /\ x.accepted_total = c.accepted_total /\ x.acked_high = c.acked_high
           /\ x.queue = c.queue /\ x.state = c.state
           /\ x.drainAge = Smaller(c.drainAge + 1, TCP_DRAIN_STALL_TIMEOUT)
           /\ x.progressAge = Smaller(c.progressAge + 1, TCP_WEDGE_TIMEOUT)
<1>1. /\ c.connectAge \in 0 .. CONNECT /\ c.orphanAge \in Never .. ORPHAN_LINGER
      /\ c.progressAge \in 0 .. TCP_WEDGE_TIMEOUT /\ c.drainAge \in 0 .. TCP_DRAIN_STALL_TIMEOUT
      /\ c.stallAge \in 0 .. STALL_FLAP_WINDOW
  BY DEF ConnType
<1>2. PICK ca : ca = IF c.established THEN c.connectAge ELSE Aged(c.connectAge, CONNECT)
  OBVIOUS
<1>3. PICK oa, pa, da, sa : /\ oa = Aged(c.orphanAge, ORPHAN_LINGER) /\ pa = Aged(c.progressAge, TCP_WEDGE_TIMEOUT)
                            /\ da = Aged(c.drainAge, TCP_DRAIN_STALL_TIMEOUT)
                            /\ sa = Aged(c.stallAge, STALL_FLAP_WINDOW)
  OBVIOUS
<1>4. ca \in 0 .. CONNECT
  BY <1>1, <1>2, AgedFacts, Durations
<1>5. /\ oa \in Never .. ORPHAN_LINGER /\ pa \in 0 .. TCP_WEDGE_TIMEOUT
      /\ da \in 0 .. TCP_DRAIN_STALL_TIMEOUT /\ sa \in 0 .. STALL_FLAP_WINDOW
      /\ da = Smaller(c.drainAge + 1, TCP_DRAIN_STALL_TIMEOUT)
      /\ pa = Smaller(c.progressAge + 1, TCP_WEDGE_TIMEOUT)
  <2>1. oa \in Never .. ORPHAN_LINGER
    BY <1>1, <1>3, OrphanAged, Durations
  <2>2. pa \in 0 .. TCP_WEDGE_TIMEOUT /\ pa = Smaller(c.progressAge + 1, TCP_WEDGE_TIMEOUT)
    BY <1>1, <1>3, AgedFacts, Durations
  <2>3. da \in 0 .. TCP_DRAIN_STALL_TIMEOUT /\ da = Smaller(c.drainAge + 1, TCP_DRAIN_STALL_TIMEOUT)
    BY <1>1, <1>3, AgedFacts, Durations
  <2>4. sa \in 0 .. STALL_FLAP_WINDOW
    BY <1>1, <1>3, AgedFacts, Durations
  <2> QED BY <2>1, <2>2, <2>3, <2>4
<1>6. x = [c EXCEPT !.connectAge = ca, !.orphanAge = oa, !.progressAge = pa, !.drainAge = da, !.stallAge = sa]
  BY <1>2, <1>3 DEF Older
<1>7. x \in ConnType
  <2>1. /\ oa \in Never .. ORPHAN_LINGER /\ pa \in 0 .. TCP_WEDGE_TIMEOUT
        /\ da \in 0 .. TCP_DRAIN_STALL_TIMEOUT /\ sa \in 0 .. STALL_FLAP_WINDOW
    BY <1>5
  <2>2. PICK y : y = [c EXCEPT !.connectAge = ca, !.orphanAge = oa]
    OBVIOUS
  <2>3. y \in ConnType
    BY <1>4, <2>1, <2>2 DEF ConnType
  <2>4. x = [y EXCEPT !.progressAge = pa, !.drainAge = da, !.stallAge = sa]
    BY <1>6, <2>2 DEF ConnType
  <2> QED BY <2>1, <2>3, <2>4, ZenonT(120) DEF ConnType
<1>8. /\ x.live = c.live /\ x.established = c.established /\ x.half_closed = c.half_closed
      /\ x.aborted = c.aborted /\ x.closed = c.closed /\ x.listening = c.listening
      /\ x.resp = c.resp /\ x.pending = c.pending /\ x.state = c.state
  BY <1>6 DEF ConnType
<1>9. /\ x.sent = c.sent /\ x.acked = c.acked
      /\ x.accepted_total = c.accepted_total /\ x.acked_high = c.acked_high
      /\ x.queue = c.queue /\ x.drainAge = da /\ x.progressAge = pa
  BY <1>6 DEF ConnType
<1> QED BY <1>5, <1>7, <1>8, <1>9

\* The clocks of a flow and of its peer go on together.
LEMMA OlderAges ==
    ASSUME NEW c \in ConnType, c.live, NEW x, x = Older(c), NEW silent \in 0 .. TCP_DRAIN_STALL_TIMEOUT,
           NEW later, later = (IF c.queue > 0 THEN Smaller(silent + 1, TCP_DRAIN_STALL_TIMEOUT) ELSE 0),
           Ages(c, silent, FALSE)
    PROVE  Ages(x, later, TRUE)
<1>1. /\ x.live = c.live /\ x.established = c.established /\ x.closed = c.closed
      /\ x.accepted_total = c.accepted_total /\ x.acked_high = c.acked_high /\ x.queue = c.queue
      /\ x.drainAge = Smaller(c.drainAge + 1, TCP_DRAIN_STALL_TIMEOUT)
      /\ x.progressAge = Smaller(c.progressAge + 1, TCP_WEDGE_TIMEOUT)
  BY OlderFacts, ZenonT(120)
<1>2. acked(x) = acked(c) /\ (Sound(x) <=> Sound(c))
  BY <1>1 DEF acked, Sound
<1>3. c.drainAge \in 0 .. TCP_DRAIN_STALL_TIMEOUT /\ c.progressAge \in 0 .. TCP_WEDGE_TIMEOUT /\ c.queue \in 0 .. TX_BUF
  BY DEF ConnType
<1>4. c.drainAge \in Nat /\ c.progressAge \in Nat /\ c.queue \in Nat /\ silent \in Nat /\ later \in Nat
  BY <1>3, Constants, Durations DEF Smaller
<1>5. ASSUME Sound(c), c.established
      PROVE  /\ acked(c) = c.acked_high => x.drainAge <= (IF c.queue > 0 THEN later ELSE 0) + 1
             /\ c.queue >= TX_BUF => x.progressAge <= later + 1 \/ later >= TCP_DRAIN_STALL_TIMEOUT
  <2>1. /\ acked(c) = c.acked_high => c.drainAge <= (IF c.queue > 0 THEN silent ELSE 0) + 1
        /\ acked(c) = c.acked_high /\ c.queue = 0 => c.drainAge = 0
        /\ c.queue >= TX_BUF => c.progressAge <= silent + 1 \/ silent >= TCP_DRAIN_STALL_TIMEOUT
    BY <1>5 DEF Ages
  <2>2. acked(c) = c.acked_high => x.drainAge <= (IF c.queue > 0 THEN later ELSE 0) + 1
    <3>1. CASE c.queue > 0
      BY <1>1, <1>4, <2>1, <3>1, Durations DEF Smaller
    <3>2. CASE c.queue = 0
      BY <1>1, <1>4, <2>1, <3>2, Durations DEF Smaller
    <3> QED BY <1>4, <3>1, <3>2
  <2>3. c.queue >= TX_BUF => x.progressAge <= later + 1 \/ later >= TCP_DRAIN_STALL_TIMEOUT
    BY <1>1, <1>4, <2>1, Constants, Durations DEF Smaller
  <2> QED BY <2>2, <2>3
<1> QED BY <1>1, <1>2, <1>5 DEF Ages

LEMMA TickInv == ASSUME StackInv, Tick PROVE StackInv'
<1>0. /\ StackTypeOK /\ BacklogInv /\ \A f \in Flows : FlowInv(f) /\ conn[f] \in ConnType
                                       /\ relay[f] \in RelayType /\ aux[f] \in AuxType
      /\ ticked = FALSE /\ ticked' = TRUE
      /\ data_in' = data_in /\ backlog' = backlog /\ phase' = phase /\ moved' = moved
  BY TypeParts DEF StackInv, Tick, StackTypeOK
<1>1. ClosesAdded({})
  BY <1>0, TypeParts, AddedNone
<1>2. ASSUME NEW f \in Flows
      PROVE  conn'[f] = Older(conn[f])
  BY DEF Tick
<1>3. ASSUME NEW f \in Flows
      PROVE  relay'[f] \in RelayType /\ relay'[f].up = relay[f].up /\ relay'[f].len = relay[f].len
  <2>1. PICK w, q : /\ w = IF relay[f].up = "reserving" THEN Aged(relay[f].waited, CREDIT_WAIT_MAX) ELSE 0
                    /\ q = IF relay[f].up = "ended" THEN Aged(relay[f].quiet, HALF_CLOSE_LINGER) ELSE 0
    OBVIOUS
  <2>2. relay[f] \in RelayType
    BY <1>0
  <2>3. relay[f].waited \in 0 .. CREDIT_WAIT_MAX /\ relay[f].quiet \in 0 .. HALF_CLOSE_LINGER
    BY <2>2 DEF RelayType
  <2>a. Aged(relay[f].waited, CREDIT_WAIT_MAX) \in 0 .. CREDIT_WAIT_MAX /\ 0 \in 0 .. CREDIT_WAIT_MAX
    BY <2>3, AgedFacts, Durations
  <2>b. Aged(relay[f].quiet, HALF_CLOSE_LINGER) \in 0 .. HALF_CLOSE_LINGER /\ 0 \in 0 .. HALF_CLOSE_LINGER
    BY <2>3, AgedFacts, Durations
  <2>4. w \in 0 .. CREDIT_WAIT_MAX /\ q \in 0 .. HALF_CLOSE_LINGER
    BY <2>1, <2>a, <2>b
  <2>5. relay'[f] = [relay[f] EXCEPT !.waited = w, !.quiet = q]
    BY <2>1 DEF Tick
  <2> QED BY <2>2, <2>4, <2>5 DEF RelayType
<1>4. ASSUME NEW f \in Flows
      PROVE  /\ aux'[f] \in AuxType
             /\ aux'[f].forced = aux[f].forced
             /\ aux'[f].silent = IF conn[f].live /\ conn[f].queue > 0
                                 THEN Smaller(aux[f].silent + 1, TCP_DRAIN_STALL_TIMEOUT) ELSE 0
  <2>1. PICK q : q = IF conn[f].live /\ conn[f].queue > 0 THEN Aged(aux[f].silent, TCP_DRAIN_STALL_TIMEOUT) ELSE 0
    OBVIOUS
  <2>2. aux[f] \in AuxType
    BY <1>0
  <2>3. aux[f].silent \in 0 .. TCP_DRAIN_STALL_TIMEOUT
    BY <2>2 DEF AuxType
  <2>a. /\ Aged(aux[f].silent, TCP_DRAIN_STALL_TIMEOUT) \in 0 .. TCP_DRAIN_STALL_TIMEOUT
        /\ Aged(aux[f].silent, TCP_DRAIN_STALL_TIMEOUT) = Smaller(aux[f].silent + 1, TCP_DRAIN_STALL_TIMEOUT)
        /\ 0 \in 0 .. TCP_DRAIN_STALL_TIMEOUT
    BY <2>3, AgedFacts, Durations
  <2>4. /\ q \in 0 .. TCP_DRAIN_STALL_TIMEOUT
        /\ q = IF conn[f].live /\ conn[f].queue > 0 THEN Smaller(aux[f].silent + 1, TCP_DRAIN_STALL_TIMEOUT) ELSE 0
    BY <2>1, <2>a
  <2>5. aux'[f] = [aux[f] EXCEPT !.silent = q]
    BY <2>1 DEF Tick
  <2>6. aux'[f] \in AuxType
    BY <2>2, <2>4, <2>5 DEF AuxType
  <2>7. aux'[f].forced = aux[f].forced
    BY <2>2, <2>5 DEF AuxType
  <2>8. aux'[f].silent = q
    BY <2>2, <2>5 DEF AuxType
  <2> QED BY <2>4, <2>6, <2>7, <2>8
<1>5. ASSUME NEW f \in Flows
      PROVE  conn'[f] \in ConnType /\ conn'[f].closed = conn[f].closed /\ FlowInv(f)'
  <2>1. FlowInv(f) /\ conn[f] \in ConnType /\ aux[f] \in AuxType
    BY <1>0
  <2>2. PICK x : x = conn'[f]
    OBVIOUS
  <2>3. x = Older(conn[f])
    BY <1>2, <2>2
  <2>4. ~conn[f].live => x = conn[f]
    BY <2>3 DEF Older
  <2>5. /\ x \in ConnType
        /\ x.live = conn[f].live /\ x.established = conn[f].established /\ x.half_closed = conn[f].half_closed
        /\ x.aborted = conn[f].aborted /\ x.closed = conn[f].closed /\ x.listening = conn[f].listening
        /\ x.resp = conn[f].resp /\ x.sent = conn[f].sent /\ x.acked = conn[f].acked /\ x.pending = conn[f].pending
        /\ x.accepted_total = conn[f].accepted_total /\ x.acked_high = conn[f].acked_high
        /\ x.queue = conn[f].queue /\ x.state = conn[f].state
    BY <2>1, <2>3, <2>4, OlderFacts
  <2>6. SameUpload(f)
    BY <2>2, <2>5 DEF SameUpload
  <2>7. /\ Sound(conn'[f]) => BufferInv(f)' /\ ChainInv(f)'
        /\ CreditInv(f)' /\ CloseInv(f)'
    <3>1. InRelay(f)' = InRelay(f)
      BY <1>3 DEF InRelay
    <3>2. /\ relay[f].up = "off" => relay'[f].up = "off"
          /\ relay[f].up \in {"ended", "off"} \/ f \in {} => relay'[f].up \in {"ended", "off"}
      BY <1>3
    <3> QED BY <1>0, <1>1, <1>4, <2>1, <2>6, <3>1, <3>2, UploadKept
  <2>8. LinkInv(f)'
    <3>1. Chunks(f)' = Chunks(f) /\ \A i \in Closes(f)' : i \in Closes(f)
      BY <1>0, <1>1, TypeParts, AddedFacts
    <3>2. relay[f].up = "idle" => x = conn[f]
      <4>1. Blank.live = FALSE
        BY DEF Blank
      <4> QED BY <2>1, <2>4, <4>1 DEF FlowInv, LinkInv
    <3>3. LinkInv(f)
      BY <2>1 DEF FlowInv
    <3> QED BY <1>0, <1>3, <2>2, <2>5, <3>1, <3>2, <3>3 DEF LinkInv, Linked
  <2>9. NumbersInv(x) /\ FinInv(x)
    <3>1. NumbersInv(conn[f]) /\ FinInv(conn[f])
      BY <2>1 DEF FlowInv
    <3>2. NumbersInv(x)
      BY <2>5, <3>1 DEF NumbersInv
    <3> QED BY <2>5, <3>1, <3>2 DEF FinInv, Sound
  <2>10. Ages(x, aux'[f].silent, TRUE)
    <3>1. CASE conn[f].live
      <4>1. Ages(conn[f], aux[f].silent, FALSE)
        BY <1>0, <2>1 DEF FlowInv
      <4>2. aux[f].silent \in 0 .. TCP_DRAIN_STALL_TIMEOUT
        BY <2>1 DEF AuxType
      <4>3. aux'[f].silent = IF conn[f].queue > 0 THEN Smaller(aux[f].silent + 1, TCP_DRAIN_STALL_TIMEOUT) ELSE 0
        BY <1>4, <3>1
      <4> QED BY <2>1, <2>3, <3>1, <4>1, <4>2, <4>3, OlderAges
    <3>2. CASE ~conn[f].live
      BY <2>4, <3>2 DEF Ages, Sound
    <3> QED BY <3>1, <3>2
  <2>11. FlowInv(f)'
    BY <1>0, <2>2, <2>7, <2>8, <2>9, <2>10 DEF FlowInv
  <2> QED BY <2>2, <2>5, <2>11
<1>6. conn' \in [Flows -> ConnType] /\ relay' \in [Flows -> RelayType] /\ aux' \in [Flows -> AuxType]
  <2>1. conn' \in [Flows -> ConnType]
    BY <1>5 DEF Tick
  <2>2. relay' \in [Flows -> RelayType]
    BY <1>3 DEF Tick
  <2>3. aux' \in [Flows -> AuxType]
    BY <1>4 DEF Tick
  <2> QED BY <2>1, <2>2, <2>3
<1>7. StackTypeOK'
  BY <1>0, <1>6 DEF StackTypeOK
<1>8. BacklogInv'
  BY <1>0, <1>4, <1>5, BacklogKept
<1> QED BY <1>5, <1>7, <1>8 DEF StackInv

-----------------------------------------------------------------------------
(* The relay. *)

\* What a relay step that sends no data leaves alone.
Sends0(c, x) ==
    /\ x.live = c.live /\ x.established = c.established /\ x.half_closed = c.half_closed
    /\ x.aborted = c.aborted /\ x.closed = c.closed /\ x.sent = c.sent /\ x.acked = c.acked
    /\ x.pending = c.pending /\ x.accepted_total = c.accepted_total /\ x.acked_high = c.acked_high
    /\ x.drainAge = c.drainAge /\ x.progressAge = c.progressAge /\ x.queue = c.queue /\ x.state = c.state
    /\ x.listening => c.listening

LEMMA RelayStep ==
    ASSUME StackInv, NEW f \in Flows, NEW c \in ConnType, NEW r \in RelayType, NEW a \in AuxType,
           OneFlow(f, c, r, a), NEW G \in {{f}, {}}, ClosesAdded(G),
           Sends0(conn[f], c), Linked(c, r), r.up # "idle",
           a.forced = aux[f].forced, a.silent = aux[f].silent,
           relay[f].up = "off" => r.up = "off",
           r.up = "off" \/ (r.up = relay[f].up /\ r.len = relay[f].len)
               \/ (relay[f].up # "sending" /\ r.up # "sending"),
           relay[f].up \in {"ended", "off"} \/ f \in G => r.up \in {"ended", "off"}
    PROVE  StackInv'
<1>1. StackTypeOK /\ FlowInv(f) /\ G \in SUBSET Flows
  BY DEF StackInv
<1>2. conn \in [Flows -> ConnType] /\ relay \in [Flows -> RelayType] /\ aux \in [Flows -> AuxType]
  BY <1>1 DEF StackTypeOK
<1>3. conn'[f] = c /\ relay'[f] = r /\ aux'[f] = a /\ backlog' = backlog /\ ticked' = ticked
  BY <1>2 DEF OneFlow
<1>4. SameUpload(f)
  BY <1>3 DEF Sends0, SameUpload
<1>5. InRelay(f)' = InRelay(f) \/ (InRelay(f)' = 0 /\ relay'[f].up = "off")
  BY <1>3 DEF InRelay
<1>6. /\ Sound(conn'[f]) => BufferInv(f)' /\ ChainInv(f)'
      /\ CreditInv(f)' /\ CloseInv(f)'
  BY <1>1, <1>3, <1>4, <1>5, UploadKept
<1>7. LinkInv(f)'
  BY <1>3 DEF LinkInv
<1>8. NumbersInv(c) /\ FinInv(c) /\ Ages(c, a.silent, ticked)
  <2>1. NumbersInv(conn[f]) /\ FinInv(conn[f]) /\ Ages(conn[f], a.silent, ticked)
    BY <1>1 DEF FlowInv
  <2>2. NumbersInv(c)
    BY <2>1 DEF NumbersInv, Sends0
  <2>3. FinInv(c)
    BY <2>1 DEF FinInv, Sound, Sends0
  <2>4. Ages(c, a.silent, ticked)
    BY <2>1 DEF Ages, Sound, acked, Sends0
  <2> QED BY <2>2, <2>3, <2>4
<1>9. FlowInv(f)'
  BY <1>3, <1>6, <1>7, <1>8 DEF FlowInv
<1>10. conn[f].closed => c.closed
  BY DEF Sends0
<1> QED BY <1>9, <1>10, OneFlowStep

\* The parts of the state that a relay step reads.
LEMMA RelayParts ==
    ASSUME StackInv, NEW f \in Flows
    PROVE  /\ conn[f] \in ConnType /\ relay[f] \in RelayType /\ aux[f] \in AuxType
           /\ conn \in [Flows -> ConnType] /\ relay \in [Flows -> RelayType] /\ aux \in [Flows -> AuxType]
           /\ phase \in {"poll", "queues"} /\ moved \in BOOLEAN
           /\ ChannelOK(data_in) /\ FlowInv(f) /\ LinkInv(f) /\ Linked(conn[f], relay[f])
  BY TypeParts DEF StackInv, StackTypeOK, FlowInv, LinkInv

LEMMA StepIsOneFlow ==
    ASSUME StackInv, NEW f \in Flows, NEW r, Step(f, r), NEW c, conn' = [conn EXCEPT ![f] = c],
           NEW a, aux' = [aux EXCEPT ![f] = a]
    PROVE  OneFlow(f, c, r, a)
  BY RelayParts DEF Step, OneFlow

LEMMA NoChange ==
    ASSUME StackInv, NEW f \in Flows
    PROVE  /\ conn = [conn EXCEPT ![f] = conn[f]] /\ aux = [aux EXCEPT ![f] = aux[f]]
           /\ Sends0(conn[f], conn[f])
  BY RelayParts DEF Sends0

\* A step of the relay alone.
LEMMA RelayAlone ==
    ASSUME StackInv, NEW f \in Flows, NEW r \in RelayType, Step(f, r), UNCHANGED <<conn, aux>>,
           NEW G \in {{f}, {}}, ClosesAdded(G), Linked(conn[f], r), r.up # "idle",
           relay[f].up \notin {"off", "ended", "sending"}, r.up # "sending",
           f \in G => r.up \in {"ended", "off"}
    PROVE  StackInv'
<1>1. conn' = [conn EXCEPT ![f] = conn[f]] /\ aux' = [aux EXCEPT ![f] = aux[f]] /\ Sends0(conn[f], conn[f])
  BY NoChange
<1>2. OneFlow(f, conn[f], r, aux[f])
  BY <1>1, StepIsOneFlow
<1>3. conn[f] \in ConnType /\ aux[f] \in AuxType
  BY RelayParts
<1> QED BY <1>1, <1>2, <1>3, RelayStep

LEMMA RelaySets ==
    ASSUME NEW r \in RelayType
    PROVE  /\ \A up \in {"idle", "connecting", "off"} \cup Running :
                /\ [r EXCEPT !.up = up] \in RelayType
                /\ [r EXCEPT !.up = up].up = up /\ [r EXCEPT !.up = up].len = r.len
                /\ [r EXCEPT !.up = up, !.quiet = 0] \in RelayType
                /\ [r EXCEPT !.up = up, !.quiet = 0].up = up
                /\ [r EXCEPT !.up = up, !.quiet = 0].len = r.len
           /\ [r EXCEPT !.quiet = 0] \in RelayType
           /\ [r EXCEPT !.quiet = 0].up = r.up /\ [r EXCEPT !.quiet = 0].len = r.len
<1>1. 0 \in 0 .. HALF_CLOSE_LINGER
  BY Durations
<1> QED BY <1>1 DEF RelayType

LEMMA ConnectsInv == ASSUME StackInv, NEW f \in Flows, Connects(f) PROVE StackInv'
<1>1. PICK up : up = IF conn[f].resp = "ok" THEN "reading" ELSE "off"
  OBVIOUS
<1>2. PICK r : r = [relay[f] EXCEPT !.up = up]
  OBVIOUS
<1>3. Step(f, r) /\ UNCHANGED <<conn, data_in, aux>> /\ relay[f].up = "connecting" /\ conn[f].resp \in {"ok", "err"}
  BY <1>1, <1>2 DEF Connects
<1>4. up \in {"reading", "off"} /\ up \in {"idle", "connecting", "off"} \cup Running
  BY <1>1 DEF Running
<1>5. r \in RelayType /\ r.up = up
  <2>1. relay[f] \in RelayType
    BY RelayParts
  <2> QED BY <1>2, <1>4, <2>1 DEF RelayType
<1>6. Linked(conn[f], r)
  <2>1. Linked(conn[f], relay[f])
    BY RelayParts
  <2> QED BY <1>1, <1>3, <1>4, <1>5, <2>1 DEF Linked
<1>7. ClosesAdded({})
  BY <1>3, RelayParts, AddedNone
<1> QED BY <1>3, <1>4, <1>5, <1>6, <1>7, RelayAlone

LEMMA ReadsInv == ASSUME StackInv, NEW f \in Flows, Reads(f) PROVE StackInv'
<1>1. PICK r : r = [relay[f] EXCEPT !.up = "reserving", !.len = Chunk, !.waited = 0]
  OBVIOUS
<1>2. Step(f, r) /\ UNCHANGED <<conn, data_in, aux>> /\ relay[f].up = "reading"
  BY <1>1 DEF Reads
<1>3. Chunk \in 0 .. Chunk /\ 0 \in 0 .. CREDIT_WAIT_MAX
  BY Constants, Durations
<1>4. relay[f] \in RelayType /\ Linked(conn[f], relay[f])
  BY RelayParts
<1>5. r \in RelayType /\ r.up = "reserving" /\ r.len = Chunk
  BY <1>1, <1>3, <1>4 DEF RelayType, Running
<1>6. Linked(conn[f], r)
  BY <1>2, <1>4, <1>5 DEF Linked
<1>7. ClosesAdded({})
  BY <1>2, RelayParts, AddedNone
<1> QED BY <1>2, <1>5, <1>6, <1>7, RelayAlone

LEMMA ReadsEndInv == ASSUME StackInv, NEW f \in Flows, ReadsEnd(f) PROVE StackInv'
<1>1. PICK r : r = [relay[f] EXCEPT !.up = "closing"]
  OBVIOUS
<1>2. Step(f, r) /\ UNCHANGED <<conn, data_in, aux>> /\ relay[f].up = "reading"
  BY <1>1 DEF ReadsEnd
<1>3. relay[f] \in RelayType /\ Linked(conn[f], relay[f])
  BY RelayParts
<1>4. r \in RelayType /\ r.up = "closing"
  BY <1>1, <1>3, RelaySets DEF Running
<1>5. Linked(conn[f], r)
  BY <1>2, <1>3, <1>4 DEF Linked
<1>6. ClosesAdded({})
  BY <1>2, RelayParts, AddedNone
<1> QED BY <1>2, <1>4, <1>5, <1>6, RelayAlone

LEMMA CloseInvStep == ASSUME StackInv, NEW f \in Flows, close(f) PROVE StackInv'
<1>1. PICK r : r = [relay[f] EXCEPT !.up = "ended", !.quiet = 0]
  OBVIOUS
<1>2. /\ Step(f, r) /\ UNCHANGED <<conn, aux>> /\ relay[f].up = "closing"
      /\ Len(data_in) < CHANNEL /\ data_in' = Append(data_in, TcpClose(f))
  BY <1>1 DEF close
<1>3. relay[f] \in RelayType /\ Linked(conn[f], relay[f])
  BY RelayParts
<1>4. r \in RelayType /\ r.up = "ended"
  BY <1>1, <1>3, RelaySets DEF Running
<1>5. Linked(conn[f], r)
  BY <1>2, <1>3, <1>4 DEF Linked
<1>6. ClosesAdded({f})
  BY <1>2, RelayParts, AddedOne
<1> QED BY <1>2, <1>4, <1>5, <1>6, RelayAlone

LEMMA EmptyChunks == <<>> \in Upto(1 .. RX_BUF, APP_QUEUE)
  BY Constants DEF Upto

LEMMA GivesUpInv == ASSUME StackInv, NEW f \in Flows, GivesUp(f) PROVE StackInv'
<1>1. PICK r : r = [relay[f] EXCEPT !.up = "off"]
  OBVIOUS
<1>2. PICK c : c = [conn[f] EXCEPT !.resp = "given up", !.listening = FALSE, !.toApp = <<>>]
  OBVIOUS
<1>3. Step(f, r) /\ UNCHANGED aux /\ relay[f].up = "connecting" /\ conn[f].resp \in {"waiting", "ok"}
  BY <1>1 DEF GivesUp
<1>4. conn[f] \in ConnType /\ relay[f] \in RelayType /\ Linked(conn[f], relay[f]) /\ aux[f] \in AuxType
  BY RelayParts
<1>5. conn' = [conn EXCEPT ![f] = c]
  BY <1>2, RelayParts DEF GivesUp
<1>6. c \in ConnType
  BY <1>2, <1>4, EmptyChunks DEF ConnType
<1>7. Sends0(conn[f], c) /\ c.resp = "given up"
  BY <1>2, <1>4 DEF ConnType, Sends0
<1>8. ~c.listening
  BY <1>2, <1>4 DEF ConnType
<1>9. r \in RelayType /\ r.up = "off"
  BY <1>1, <1>4, RelaySets DEF Running
<1>10. Linked(c, r)
  BY <1>3, <1>4, <1>7, <1>8, <1>9 DEF Linked, Sends0
<1>11. ClosesAdded({f})
  BY RelayParts, AddedNone, AddedDrop DEF GivesUp
<1>12. aux' = [aux EXCEPT ![f] = aux[f]]
  BY <1>3, NoChange
<1>13. OneFlow(f, c, r, aux[f])
  BY <1>3, <1>5, <1>12, StepIsOneFlow
<1> QED BY <1>4, <1>6, <1>7, <1>9, <1>10, <1>11, <1>13, RelayStep

LEMMA WritesInv == ASSUME StackInv, NEW f \in Flows, Writes(f) PROVE StackInv'
<1>1. PICK r : r = [relay[f] EXCEPT !.quiet = 0]
  OBVIOUS
<1>2. PICK c : c = [conn[f] EXCEPT !.toApp = Tail(@)]
  OBVIOUS
<1>3. PICK a : a = [aux[f] EXCEPT !.got = @ + Head(conn[f].toApp)]
  OBVIOUS
<1>4. /\ Step(f, r) /\ UNCHANGED data_in /\ relay[f].up \in Running /\ conn[f].toApp # <<>>
      /\ conn' = [conn EXCEPT ![f] = c] /\ aux' = [aux EXCEPT ![f] = a]
  <2>1. Step(f, r) /\ UNCHANGED data_in /\ relay[f].up \in Running /\ conn[f].toApp # <<>>
    BY <1>1 DEF Writes
  <2>2. conn' = [conn EXCEPT ![f] = c]
    BY <1>2, RelayParts DEF Writes
  <2>3. aux' = [aux EXCEPT ![f] = a]
    BY <1>3, RelayParts DEF Writes
  <2> QED BY <2>1, <2>2, <2>3
<1>5. conn[f] \in ConnType /\ relay[f] \in RelayType /\ Linked(conn[f], relay[f]) /\ aux[f] \in AuxType
  BY RelayParts
<1>6. Tail(conn[f].toApp) \in Upto(1 .. RX_BUF, APP_QUEUE) /\ Head(conn[f].toApp) \in 1 .. RX_BUF
  <2>1. PICK q : q = conn[f].toApp
    OBVIOUS
  <2>2. q \in Upto(1 .. RX_BUF, APP_QUEUE)
    BY <1>5, <2>1 DEF ConnType
  <2>3. q \in Seq(1 .. RX_BUF) /\ Len(q) <= APP_QUEUE /\ q # <<>>
    BY <1>4, <2>1, <2>2 DEF Upto
  <2>4. Tail(q) \in Seq(1 .. RX_BUF) /\ Len(Tail(q)) = Len(q) - 1 /\ Head(q) \in 1 .. RX_BUF /\ Len(q) \in Nat
    BY <2>3, HeadTailProperties, LenProperties
  <2>5. Len(Tail(q)) <= APP_QUEUE
    BY <2>3, <2>4, Constants
  <2> QED BY <2>1, <2>4, <2>5 DEF Upto
<1>7. c \in ConnType
  BY <1>2, <1>5, <1>6 DEF ConnType
<1>8. Sends0(conn[f], c) /\ c.resp = conn[f].resp /\ c.listening = conn[f].listening
  BY <1>2, <1>5 DEF ConnType, Sends0
<1>9. a \in AuxType
  <2>1. aux[f].got \in Nat
    BY <1>5 DEF AuxType
  <2>2. aux[f].got + Head(conn[f].toApp) \in Nat
    BY <1>6, <2>1, Constants
  <2> QED BY <1>3, <1>5, <2>2 DEF AuxType
<1>10. a.forced = aux[f].forced
  BY <1>3, <1>5 DEF AuxType
<1>11. a.silent = aux[f].silent
  BY <1>3, <1>5 DEF AuxType
<1>12. r \in RelayType /\ r.up = relay[f].up /\ r.len = relay[f].len
  BY <1>1, <1>5, RelaySets
<1>13. Linked(c, r)
  BY <1>5, <1>8, <1>12 DEF Linked, Sends0
<1>14. ClosesAdded({})
  BY <1>4, RelayParts, AddedNone
<1>15. OneFlow(f, c, r, a)
  BY <1>4, StepIsOneFlow
<1>16. r.up # "idle"
  BY <1>4, <1>12 DEF Running
<1> QED BY <1>7, <1>8, <1>9, <1>10, <1>11, <1>12, <1>13, <1>14, <1>15, <1>16, RelayStep

LEMMA ReturnsInv ==
    ASSUME StackInv, NEW f \in Flows, Returns(f), NEW a \in AuxType, aux' = [aux EXCEPT ![f] = a],
           a.forced = aux[f].forced, a.silent = aux[f].silent
    PROVE  StackInv'
<1>1. PICK r : r = [Idle EXCEPT !.up = "off"]
  OBVIOUS
<1>2. PICK c : c = [conn[f] EXCEPT !.listening = FALSE, !.toApp = <<>>]
  OBVIOUS
<1>3. Step(f, r) /\ relay[f].up \in Running /\ data_in' = dropConn(data_in, f)
  BY <1>1 DEF Returns
<1>4. conn[f] \in ConnType /\ relay[f] \in RelayType /\ Linked(conn[f], relay[f]) /\ aux[f] \in AuxType
  BY RelayParts
<1>5. conn' = [conn EXCEPT ![f] = c]
  BY <1>2, RelayParts DEF Returns
<1>6. c \in ConnType
  BY <1>2, <1>4, EmptyChunks DEF ConnType
<1>7. Sends0(conn[f], c) /\ c.resp = conn[f].resp
  BY <1>2, <1>4 DEF ConnType, Sends0
<1>8. ~c.listening
  BY <1>2, <1>4 DEF ConnType
<1>9. r \in RelayType /\ r.up = "off"
  <2>1. 0 \in 0 .. Chunk /\ 0 \in 0 .. CREDIT_WAIT_MAX /\ 0 \in 0 .. HALF_CLOSE_LINGER
    BY Constants, Durations
  <2> QED BY <1>1, <2>1 DEF Idle, RelayType
<1>10. relay[f].up \notin {"connecting", "off", "idle"}
  BY <1>3 DEF Running
<1>11. Linked(c, r)
  BY <1>4, <1>7, <1>8, <1>9, <1>10 DEF Linked, Sends0
<1>12. ClosesAdded({f})
  BY <1>3, RelayParts, AddedDrop
<1>13. OneFlow(f, c, r, a)
  BY <1>3, <1>5, StepIsOneFlow
<1> QED BY <1>6, <1>7, <1>9, <1>10, <1>11, <1>12, <1>13, RelayStep

LEMMA EndsInv ==
    ASSUME StackInv, NEW f \in Flows, DownloadEnds(f) \/ ClientGone(f) \/ LingerEnds(f)
    PROVE  StackInv'
<1>1. aux[f] \in AuxType /\ [aux[f] EXCEPT !.ended = TRUE] \in AuxType
  BY AuxField
<1>2. CASE DownloadEnds(f)
  <2>1. PICK a : a = [aux[f] EXCEPT !.ended = TRUE]
    OBVIOUS
  <2>2. Returns(f) /\ aux' = [aux EXCEPT ![f] = a]
    BY <1>2, <2>1 DEF DownloadEnds
  <2>3. a.forced = aux[f].forced
    BY <1>1, <2>1 DEF AuxType
  <2>4. a.silent = aux[f].silent
    BY <1>1, <2>1 DEF AuxType
  <2> QED BY <1>1, <2>1, <2>2, <2>3, <2>4, ReturnsInv
<1>3. CASE ClientGone(f) \/ LingerEnds(f)
  <2>1. Returns(f) /\ UNCHANGED aux
    BY <1>3 DEF ClientGone, LingerEnds
  <2>2. aux' = [aux EXCEPT ![f] = aux[f]]
    BY <2>1, NoChange
  <2> QED BY <1>1, <2>1, <2>2, ReturnsInv
<1> QED BY <1>2, <1>3

LEMMA EndOfPassInv == ASSUME StackInv, EndOfPass PROVE StackInv'
<1>1. /\ conn' = conn /\ relay' = relay /\ data_in' = data_in /\ backlog' = backlog /\ moved' = moved
      /\ ticked' = ticked /\ aux' = aux /\ phase' \in {"poll", "queues"}
  BY DEF EndOfPass
<1>2. StackTypeOK'
  BY <1>1 DEF StackInv, StackTypeOK
<1>3. BacklogInv'
  BY <1>1 DEF StackInv, BacklogInv
<1>4. ASSUME NEW f \in Flows PROVE FlowInv(f)'
  <2>1. ClosesAdded({})
    BY <1>1, RelayParts, AddedNone
  <2> QED BY <1>1, <2>1, FrameFlow DEF StackInv
<1> QED BY <1>2, <1>3, <1>4 DEF StackInv

\* A relay that has not begun has left nothing behind.
LEMMA OpenTcpInv == ASSUME StackInv, NEW f \in Flows, OpenTcp(f) PROVE StackInv'
<1>1. /\ relay[f].up = "idle" /\ UNCHANGED <<data_in, backlog, phase, moved, ticked, aux>>
      /\ relay \in [Flows -> RelayType] /\ relay[f] \in RelayType /\ aux[f] \in AuxType /\ conn[f] \in ConnType
      /\ conn[f] = Blank /\ f \notin backlog.blocked /\ Chunks(f) = {} /\ Closes(f) = {}
      /\ StackTypeOK /\ BacklogInv
  BY RelayParts DEF OpenTcp, LinkInv, StackInv
<1>2. ClosesAdded({})
  BY <1>1, RelayParts, AddedNone
<1>3. aux' = [aux EXCEPT ![f] = aux[f]]
  BY <1>1, NoChange
<1>4. CASE relay' = [relay EXCEPT ![f].up = "off"] /\ UNCHANGED conn
  <2>1. PICK r : r = [relay[f] EXCEPT !.up = "off"]
    OBVIOUS
  <2>2. r \in RelayType /\ r.up = "off"
    BY <1>1, <2>1, RelaySets DEF Running
  <2>3. Step(f, r)
    BY <1>1, <1>4, <2>1 DEF Step
  <2>4. Linked(conn[f], r)
    <3>1. Linked(conn[f], relay[f])
      BY RelayParts
    <3> QED BY <1>1, <2>2, <3>1 DEF Linked
  <2> QED BY <1>1, <1>2, <1>4, <2>2, <2>3, <2>4, RelayAlone
<1>5. CASE /\ conn' = [conn EXCEPT ![f] = [Blank EXCEPT !.live = TRUE, !.state = "SynSent", !.resp = "waiting"]]
           /\ relay' = [relay EXCEPT ![f].up = "connecting"]
  <2>1. PICK r : r = [relay[f] EXCEPT !.up = "connecting"]
    OBVIOUS
  <2>2. PICK c : c = [Blank EXCEPT !.live = TRUE, !.state = "SynSent", !.resp = "waiting"]
    OBVIOUS
  <2>3. r \in RelayType /\ r.up = "connecting"
    BY <1>1, <2>1, RelaySets DEF Running
  <2>4. c \in ConnType
    BY <2>2, BlankType DEF ConnType, States
  <2>5. /\ c.pending = <<>> /\ c.accepted_total = 0 /\ c.queue = 0 /\ c.sent = 0 /\ c.acked = 0
        /\ c.acked_high = 0 /\ c.resp = "waiting" /\ c.state = "SynSent"
    BY <2>2 DEF Blank
  <2>6. c.live /\ ~c.established /\ ~c.half_closed /\ ~c.closed /\ ~c.listening /\ ~c.aborted
    BY <2>2 DEF Blank
  <2>7. Linked(c, r) /\ NumbersInv(c) /\ FinInv(c) /\ Ages(c, aux[f].silent, ticked)
    BY <2>3, <2>5, <2>6 DEF Linked, NumbersInv, FinInv, Fins, Ages
  <2>8. OneFlow(f, c, r, aux[f])
    <3>1. relay' = [relay EXCEPT ![f] = r]
      BY <1>5, <2>1
    <3>2. conn' = [conn EXCEPT ![f] = c]
      BY <1>5, <2>2
    <3>3. phase' \in {"poll", "queues"} /\ moved' \in BOOLEAN
      BY <1>1, RelayParts
    <3> QED BY <1>1, <1>3, <3>1, <3>2, <3>3 DEF OneFlow
  <2>9. conn'[f] = c /\ relay'[f] = r /\ aux'[f] = aux[f] /\ backlog' = backlog /\ ticked' = ticked
    BY <1>1, <1>5, <2>1, <2>2, RelayParts
  <2>10. Chunks(f)' = {} /\ Closes(f)' = {}
    BY <1>1 DEF Chunks, Closes
  <2>11. backlog.data[f] = <<>> /\ f \notin backlog.close
    BY <1>1 DEF BacklogInv
  <2>12. Reached(f)' = 0 /\ Given(f)' = 0
    <3>1. InRelay(f)' = 0
      BY <2>3, <2>9 DEF InRelay
    <3>2. Reached(f)' = 0 + Len(<<>>) + Len(<<>>)
      BY <2>5, <2>9, <2>11 DEF Reached
    <3> QED BY <2>5, <2>9, <3>1, <3>2 DEF Given
  <2>13. BufferInv(f)'
    BY <2>5, <2>9, <2>11 DEF BufferInv, Runs
  <2>14. ChainInv(f)'
    BY <2>10, <2>12 DEF ChainInv
  <2>15. CreditInv(f)'
    BY <2>5, <2>9, Capacities DEF CreditInv
  <2>16. CloseInv(f)'
    BY <1>1, <2>6, <2>9, <2>10, <2>11 DEF CloseInv
  <2>17. LinkInv(f)'
    BY <2>3, <2>7, <2>9 DEF LinkInv
  <2>18. FlowInv(f)'
    BY <2>7, <2>9, <2>13, <2>14, <2>15, <2>16, <2>17 DEF FlowInv
  <2>19. ~conn[f].closed
    BY <1>1 DEF Blank
  <2> QED BY <1>1, <1>2, <2>3, <2>4, <2>8, <2>18, <2>19, OneFlowStep
<1> QED BY <1>4, <1>5 DEF OpenTcp

\* A flow that the step does not concern.
LEMMA FrameQuiet ==
    ASSUME StackTypeOK, NEW f \in Flows, FlowInv(f),
           Chunks(f)' = Chunks(f), \A i \in Chunks(f) : data_in'[i] = data_in[i], Closes(f)' \subseteq Closes(f),
           conn'[f] = conn[f], relay'[f] = relay[f], aux'[f] = aux[f], backlog' = backlog, ticked' = ticked
    PROVE  FlowInv(f)'
<1>1. Given(f)' = Given(f) /\ Reached(f)' = Reached(f)
  BY DEF Given, InRelay, Reached
<1>2. /\ \A i \in Chunks(f) : data_in[i].hi \in Nat
      /\ Reached(f) \in Nat /\ Given(f) \in Int
  BY TypeParts, ChannelElements, FlowNumbers DEF Chunks
<1>3. Sound(conn'[f]) => BufferInv(f)' /\ ChainInv(f)'
  <2>1. ASSUME Sound(conn'[f]) PROVE BufferInv(f)' /\ ChainInv(f)'
    <3>1. BufferInv(f) /\ ChainInv(f)
      BY <2>1 DEF FlowInv
    <3>2. Given(f) <= Given(f)'
      BY <1>1, <1>2
    <3> QED BY <1>1, <1>2, <3>1, <3>2, BufferKept, ChainKept
  <2> QED BY <2>1
<1>4. CreditInv(f)' /\ LinkInv(f)'
  BY DEF FlowInv, CreditInv, LinkInv
<1>5. CloseInv(f)'
  BY DEF FlowInv, CloseInv
<1>6. NumbersInv(conn'[f]) /\ FinInv(conn'[f]) /\ Ages(conn'[f], aux'[f].silent, ticked')
  BY DEF FlowInv
<1> QED BY <1>3, <1>4, <1>5, <1>6 DEF FlowInv

LEMMA ReserveInv == ASSUME StackInv, NEW f \in Flows, reserve(f) PROVE StackInv'
<1>1. PICK r : r = [relay[f] EXCEPT !.up = "sending"]
  OBVIOUS
<1>2. PICK c : c = [conn[f] EXCEPT !.sent = @ + relay[f].len]
  OBVIOUS
<1>3. PICK free : free = (conn[f].closed \/ Admits(conn[f], relay[f].len))
  OBVIOUS
<1>4. PICK a : a = [aux[f] EXCEPT !.forced = @ \/ ~free]
  OBVIOUS
<1>5. relay[f].up = "reserving" /\ UNCHANGED data_in /\ Step(f, r)
  BY <1>1 DEF reserve
<1>6. /\ conn[f] \in ConnType /\ relay[f] \in RelayType /\ Linked(conn[f], relay[f]) /\ aux[f] \in AuxType
      /\ FlowInv(f) /\ StackTypeOK
  BY RelayParts DEF StackInv
<1>7. conn' = [conn EXCEPT ![f] = c]
  BY <1>2, RelayParts DEF reserve
<1>8. aux' = [aux EXCEPT ![f] = a]
  BY <1>3, <1>4, RelayParts DEF reserve
<1>9. /\ conn[f].sent \in Nat /\ conn[f].acked \in Nat /\ conn[f].cap \in MIN_FLOW_QUEUE_BYTES .. Ceiling
  BY <1>6 DEF ConnType
<1>10. relay[f].len = Chunk /\ relay[f].len \in Nat
  BY <1>5, <1>6, Constants DEF Linked
<1>11. conn[f].sent + relay[f].len \in Nat
  BY <1>9, <1>10
<1>12. c \in ConnType
  BY <1>2, <1>6, <1>11 DEF ConnType
<1>13. /\ c.live = conn[f].live /\ c.established = conn[f].established /\ c.half_closed = conn[f].half_closed
       /\ c.aborted = conn[f].aborted /\ c.closed = conn[f].closed /\ c.listening = conn[f].listening
       /\ c.pending = conn[f].pending /\ c.resp = conn[f].resp /\ c.state = conn[f].state
  BY <1>2, <1>6 DEF ConnType
<1>14. /\ c.acked = conn[f].acked /\ c.accepted_total = conn[f].accepted_total /\ c.acked_high = conn[f].acked_high
       /\ c.drainAge = conn[f].drainAge /\ c.progressAge = conn[f].progressAge /\ c.queue = conn[f].queue
       /\ c.sent = conn[f].sent + relay[f].len
  BY <1>2, <1>6 DEF ConnType
<1>15. r \in RelayType /\ r.up = "sending" /\ r.len = relay[f].len
  BY <1>1, <1>6, RelaySets DEF Running
<1>16. a \in AuxType
  BY <1>4, <1>6 DEF AuxType
<1>17. a.silent = aux[f].silent
  BY <1>4, <1>6 DEF AuxType
<1>18. a.forced = (aux[f].forced \/ ~free)
  BY <1>4, <1>6 DEF AuxType
<1>19. OneFlow(f, c, r, a)
  BY <1>5, <1>7, <1>8, StepIsOneFlow
<1>20. conn'[f] = c /\ relay'[f] = r /\ aux'[f] = a /\ backlog' = backlog /\ ticked' = ticked
  BY <1>5, <1>7, <1>8, RelayParts DEF Step
<1>21. Linked(c, r)
  <2>1. ~(conn[f].live /\ ~conn[f].established) /\ conn[f].resp \notin {"waiting", "given up"}
    BY <1>5, <1>6 DEF Linked
  <2>2. r.len <= c.sent
    BY <1>9, <1>10, <1>14, <1>15
  <2>3. c.listening => c.resp = "ok"
    BY <1>6, <1>13 DEF Linked
  <2> QED BY <1>10, <1>13, <1>15, <2>1, <2>2, <2>3 DEF Linked
<1>22. ClosesAdded({})
  BY <1>5, RelayParts, AddedNone
<1>23. /\ Chunks(f)' = Chunks(f) /\ Closes(f)' = Closes(f)
       /\ \A i \in Chunks(f) : data_in'[i] = data_in[i] /\ data_in[i].hi \in Nat
  BY <1>5, RelayParts, ChannelElements DEF Chunks, Closes
<1>24. Given(f) = conn[f].sent /\ Given(f)' = conn[f].sent
  <2>1. InRelay(f) = 0 /\ InRelay(f)' = relay[f].len
    BY <1>5, <1>15, <1>20 DEF InRelay
  <2>2. Given(f)' = (conn[f].sent + relay[f].len) - relay[f].len
    <3>1. Given(f)' = conn'[f].sent - InRelay(f)'
      BY DEF Given
    <3> QED BY <1>14, <1>20, <2>1, <3>1
  <2>3. Given(f) = conn[f].sent - 0
    BY <2>1 DEF Given
  <2> QED BY <1>9, <1>10, <2>2, <2>3
<1>25. Sound(conn'[f]) => BufferInv(f)' /\ ChainInv(f)'
  <2>1. ASSUME Sound(conn'[f]) PROVE BufferInv(f)' /\ ChainInv(f)'
    <3>1. BufferInv(f) /\ ChainInv(f)
      BY <1>6, <1>13, <1>20, <2>1 DEF FlowInv, Sound
    <3>2. BufferInv(f)' /\ Reached(f)' = Reached(f)
      BY <1>13, <1>14, <1>20, <3>1, BufferKept
    <3>3. Reached(f) \in Int /\ Given(f) \in Int /\ Given(f)' \in Int /\ Given(f) <= Given(f)' /\ Given(f)' = Given(f)
      BY <1>6, <1>9, <1>24, FlowNumbers
    <3>4. relay[f].up # "off"
      BY <1>5
    <3> QED BY <1>23, <3>1, <3>2, <3>3, <3>4, ChainKept
  <2> QED BY <2>1
<1>26. CreditInv(f)'
  <2> SUFFICES ASSUME ~c.closed, ~a.forced
               PROVE  c.sent - c.acked <= Larger(Chunk, Ceiling)
    BY <1>20 DEF CreditInv
  <2>1. Admits(conn[f], relay[f].len)
    BY <1>3, <1>13, <1>18
  <2>2. \/ conn[f].sent - conn[f].acked = 0
        \/ conn[f].sent - conn[f].acked + relay[f].len <= conn[f].cap
    BY <2>1 DEF Admits, Outstanding
  <2> QED BY <1>9, <1>10, <1>14, <2>2, Constants, Capacities DEF Larger
<1>27. CloseInv(f)'
  <2>1. Closes(f) = {} /\ f \notin backlog.close /\ ~conn[f].half_closed
    BY <1>5, <1>6 DEF FlowInv, CloseInv
  <2> QED BY <1>13, <1>20, <1>23, <2>1 DEF CloseInv
<1>28. LinkInv(f)'
  BY <1>15, <1>20, <1>21 DEF LinkInv
<1>29. NumbersInv(c) /\ FinInv(c) /\ Ages(c, a.silent, ticked)
  <2>1. NumbersInv(conn[f]) /\ FinInv(conn[f]) /\ Ages(conn[f], a.silent, ticked)
    BY <1>6, <1>17 DEF FlowInv
  <2>2. NumbersInv(c)
    BY <1>14, <2>1 DEF NumbersInv
  <2>3. FinInv(c)
    BY <1>13, <2>1 DEF FinInv, Sound
  <2>4. Ages(c, a.silent, ticked)
    BY <1>13, <1>14, <2>1 DEF Ages, Sound, acked
  <2> QED BY <2>2, <2>3, <2>4
<1>30. FlowInv(f)'
  BY <1>20, <1>25, <1>26, <1>27, <1>28, <1>29 DEF FlowInv
<1>31. (conn[f].closed => c.closed) /\ (aux[f].forced => a.forced)
  BY <1>13, <1>18
<1> QED BY <1>12, <1>15, <1>16, <1>19, <1>22, <1>30, <1>31, OneFlowStep

LEMMA MessageFacts ==
    ASSUME NEW g, NEW lo, NEW hi
    PROVE  Message(g, lo, hi).id = g /\ Message(g, lo, hi).lo = lo /\ Message(g, lo, hi).hi = hi
  BY DEF Message

LEMMA SendInv == ASSUME StackInv, NEW f \in Flows, send(f) PROVE StackInv'
<1>1. PICK r : r = [relay[f] EXCEPT !.up = "reading", !.quiet = 0]
  OBVIOUS
<1>2. PICK m : m = Message(f, conn[f].sent - relay[f].len, conn[f].sent)
  OBVIOUS
<1>3. /\ relay[f].up = "sending" /\ Len(data_in) < CHANNEL /\ data_in' = Append(data_in, m)
      /\ Step(f, r) /\ UNCHANGED <<conn, aux>>
  BY <1>1, <1>2 DEF send
<1>4. /\ conn[f] \in ConnType /\ relay[f] \in RelayType /\ Linked(conn[f], relay[f]) /\ aux[f] \in AuxType
      /\ FlowInv(f) /\ StackTypeOK /\ ChannelOK(data_in) /\ BacklogInv
  BY RelayParts DEF StackInv
<1>5. relay[f].len = Chunk /\ relay[f].len <= conn[f].sent /\ conn[f].sent \in Nat /\ relay[f].len \in Nat
  BY <1>3, <1>4, Constants, FlowNumbers DEF Linked
<1>6. /\ m.id = f /\ m.lo = conn[f].sent - relay[f].len /\ m.hi = conn[f].sent
  BY <1>2, MessageFacts
<1>7. m.lo \in Nat /\ m.hi \in Nat /\ m.lo < m.hi /\ m.hi - m.lo \in 0 .. Chunk
  BY <1>5, <1>6, Constants
<1>8. m \in Msg
  BY <1>2, <1>6, <1>7 DEF Message, Msg
<1>9. data_in \in Seq(Msg) /\ Len(data_in) \in Nat /\ DOMAIN data_in = 1 .. Len(data_in)
  BY <1>4, LenProperties DEF ChannelOK
<1>10. /\ data_in' \in Seq(Msg) /\ Len(data_in') = Len(data_in) + 1
       /\ \A i \in 1 .. Len(data_in) : data_in'[i] = data_in[i]
       /\ data_in'[Len(data_in) + 1] = m
  BY <1>3, <1>8, <1>9, AppendProperties
<1>11. DOMAIN data_in' = 1 .. Len(data_in) + 1
  BY <1>10, LenProperties
<1>12. DOMAIN data_in' = DOMAIN data_in \cup {Len(data_in) + 1} /\ Len(data_in) + 1 \notin DOMAIN data_in
  BY <1>9, <1>11
<1>13. \A i \in DOMAIN data_in : data_in'[i] = data_in[i] /\ i < Len(data_in) + 1
  BY <1>9, <1>10
<1>14. ChannelOK(data_in')
  <2>1. Len(data_in') <= CHANNEL
    BY <1>3, <1>9, <1>10, Constants
  <2>2. \A i \in DOMAIN data_in' : data_in'[i].hi - data_in'[i].lo \in 0 .. Chunk
    BY <1>4, <1>7, <1>10, <1>12, <1>13 DEF ChannelOK
  <2> QED BY <1>10, <2>1, <2>2 DEF ChannelOK
<1>15. /\ relay' = [relay EXCEPT ![f] = r] /\ backlog' = backlog /\ phase' = phase /\ moved' = moved /\ ticked' = ticked
       /\ conn' = conn /\ aux' = aux
  BY <1>3 DEF Step
<1>16. r \in RelayType /\ r.up = "reading"
  BY <1>1, <1>4, RelaySets DEF Running
<1>17. relay' \in [Flows -> RelayType] /\ relay'[f] = r /\ \A g \in Flows \ {f} : relay'[g] = relay[g]
  BY <1>15, <1>16, RelayParts
<1>18. StackTypeOK'
  <2>1. /\ data_in' \in Seq([id : Flows, lo : Nat, hi : Nat]) /\ Len(data_in') <= CHANNEL
        /\ \A i \in DOMAIN data_in' : data_in'[i].hi - data_in'[i].lo \in 0 .. Chunk
    BY <1>14 DEF ChannelOK, Msg
  <2> QED BY <1>4, <1>15, <1>17, <2>1 DEF StackTypeOK
<1>19. BacklogInv'
  BY <1>4, <1>15, BacklogKept
<1>20. ASSUME NEW g \in Flows, g # f PROVE FlowInv(g)'
  <2>1. Chunks(g)' = Chunks(g) /\ Closes(g)' = Closes(g)
    BY <1>6, <1>10, <1>12, <1>13, <1>20 DEF Chunks, Closes
  <2>2. \A i \in Chunks(g) : data_in'[i] = data_in[i]
    BY <1>13 DEF Chunks
  <2>3. FlowInv(g)
    BY DEF StackInv
  <2> QED BY <1>4, <1>15, <1>17, <1>20, <2>1, <2>2, <2>3, FrameQuiet
<1>21. FlowInv(f)'
  <2>1. Chunks(f)' = Chunks(f) \cup {Len(data_in) + 1} /\ Closes(f)' = Closes(f)
    <3>1. Chunks(f)' = Chunks(f) \cup {Len(data_in) + 1}
      BY <1>6, <1>7, <1>10, <1>12, <1>13 DEF Chunks
    <3>2. ~(m.lo = m.hi)
      BY <1>7
    <3> QED BY <1>10, <1>12, <1>13, <3>1, <3>2 DEF Closes
  <2>2. Closes(f) = {} /\ f \notin backlog.close /\ ~conn[f].half_closed
    BY <1>3, <1>4 DEF FlowInv, CloseInv
  <2>3. CloseInv(f)'
    BY <1>15, <2>1, <2>2 DEF CloseInv
  <2>4. Given(f) = m.lo /\ Given(f)' = m.hi
    <3>1. InRelay(f) = relay[f].len /\ InRelay(f)' = 0
      BY <1>3, <1>16, <1>17 DEF InRelay
    <3>2. Given(f) = conn[f].sent - relay[f].len /\ Given(f)' = conn[f].sent - 0
      BY <1>15, <3>1 DEF Given
    <3> QED BY <1>5, <1>6, <3>2
  <2>5. Reached(f)' = Reached(f)
    BY <1>15 DEF Reached
  <2>6. ASSUME Sound(conn'[f]) PROVE BufferInv(f)' /\ ChainInv(f)'
    <3>1. BufferInv(f) /\ ChainInv(f)
      BY <1>4, <1>15, <2>6 DEF FlowInv
    <3>2. BufferInv(f)'
      BY <1>15, <3>1 DEF BufferInv
    <3>3. /\ \A i \in Chunks(f) : /\ data_in'[i] = data_in[i] /\ i < Len(data_in) + 1 /\ i \in Nat
                                  /\ data_in[i].lo \in Nat /\ data_in[i].hi \in Nat
          /\ Reached(f) \in Nat
      BY <1>4, <1>9, <1>13, ChannelElements, FlowNumbers DEF Chunks
    <3>4. Reached(f) <= m.lo /\ \A i \in Chunks(f) : Reached(f) <= data_in[i].lo /\ data_in[i].hi <= m.lo
      BY <2>4, <3>1 DEF ChainInv
    <3>5. Reached(f)' <= Given(f)'
      BY <1>7, <2>4, <2>5, <3>3, <3>4
    <3>6. ASSUME NEW i \in Chunks(f)
          PROVE  /\ Reached(f)' <= data_in'[i].lo /\ data_in'[i].hi <= Given(f)'
                 /\ data_in'[i].lo = Reached(f)' \/ \E j \in Chunks(f)' : j < i /\ data_in'[j].hi = data_in'[i].lo
                 /\ \A j \in Chunks(f)' : i < j => data_in'[i].hi <= data_in'[j].lo
      <4>1. Reached(f)' <= data_in'[i].lo
        BY <2>5, <3>3, <3>4
      <4>2. data_in'[i].hi <= Given(f)'
        BY <1>7, <2>4, <3>3, <3>4
      <4>3. data_in[i].lo = Reached(f) \/ \E j \in Chunks(f) : j < i /\ data_in[j].hi = data_in[i].lo
        BY <3>1 DEF ChainInv
      <4>4. data_in'[i].lo = Reached(f)' \/ \E j \in Chunks(f)' : j < i /\ data_in'[j].hi = data_in'[i].lo
        BY <2>1, <2>5, <3>3, <4>3
      <4>5. \A j \in Chunks(f) : i < j => data_in[i].hi <= data_in[j].lo
        BY <3>1 DEF ChainInv
      <4>6. \A j \in Chunks(f)' : i < j => data_in'[i].hi <= data_in'[j].lo
        BY <1>10, <2>1, <3>3, <3>4, <4>5
      <4> QED BY <4>1, <4>2, <4>4, <4>6
    <3>7. /\ Reached(f)' <= m.lo /\ m.hi <= Given(f)'
          /\ m.lo = Reached(f)' \/ \E j \in Chunks(f)' : j < Len(data_in) + 1 /\ data_in'[j].hi = m.lo
          /\ \A j \in Chunks(f)' : ~(Len(data_in) + 1 < j)
      <4>1. Given(f) = Reached(f) \/ \E i \in Chunks(f) : data_in[i].hi = Given(f)
        BY <1>3, <3>1 DEF ChainInv
      <4>2. m.lo = Reached(f)' \/ \E j \in Chunks(f)' : j < Len(data_in) + 1 /\ data_in'[j].hi = m.lo
        BY <2>1, <2>4, <2>5, <3>3, <4>1
      <4>3. \A j \in Chunks(f)' : ~(Len(data_in) + 1 < j)
        BY <1>9, <2>1, <3>3
      <4>4. m.hi <= Given(f)'
        BY <1>7, <2>4
      <4> QED BY <2>5, <3>4, <4>2, <4>3, <4>4
    <3>8. Given(f)' = Reached(f)' \/ \E i \in Chunks(f)' : data_in'[i].hi = Given(f)'
      BY <1>10, <2>1, <2>4
    <3>9. ChainInv(f)'
      BY <1>10, <2>1, <3>5, <3>6, <3>7, <3>8 DEF ChainInv
    <3> QED BY <3>2, <3>9
  <2>7. CreditInv(f)'
    BY <1>4, <1>15 DEF FlowInv, CreditInv
  <2>8. LinkInv(f)'
    <3>1. Linked(conn[f], r)
      BY <1>3, <1>4, <1>16 DEF Linked
    <3> QED BY <1>15, <1>16, <1>17, <3>1 DEF LinkInv
  <2>9. NumbersInv(conn'[f]) /\ FinInv(conn'[f]) /\ Ages(conn'[f], aux'[f].silent, ticked')
    BY <1>4, <1>15 DEF FlowInv
  <2> QED BY <2>3, <2>6, <2>7, <2>8, <2>9 DEF FlowInv
<1>22. \A g \in Flows : FlowInv(g)'
  BY <1>20, <1>21
<1> QED BY <1>18, <1>19, <1>22 DEF StackInv

-----------------------------------------------------------------------------
(* The bytes of the backlog. *)

Cells(data) == UNION {{f} \X DOMAIN data[f] : f \in Flows}

LEMMA CellIff ==
    ASSUME NEW data
    PROVE  \A c : c \in Cells(data) <=> \E f \in Flows : c \in {f} \X DOMAIN data[f]
  BY DEF Cells

LEMMA BytesFinite ==
    ASSUME NEW data \in [Flows -> Seq(Nat)]
    PROVE  /\ IsFiniteSet(Cells(data)) /\ Bytes(data) = Cardinality(Cells(data)) /\ Bytes(data) \in Nat
           /\ \A f \in Flows : Len(data[f]) \in Nat /\ DOMAIN data[f] = 1 .. Len(data[f])
<1>1. ASSUME NEW f \in Flows
      PROVE  /\ Len(data[f]) \in Nat /\ DOMAIN data[f] = 1 .. Len(data[f])
             /\ IsFiniteSet({f} \X DOMAIN data[f])
  <2>1. data[f] \in Seq(Nat)
    OBVIOUS
  <2>2. Len(data[f]) \in Nat /\ DOMAIN data[f] = 1 .. Len(data[f])
    BY <2>1, LenProperties
  <2>3. IsFiniteSet(1 .. Len(data[f]))
    BY <2>2, FS_Interval
  <2>4. IsFiniteSet({f})
    BY FS_Singleton
  <2>5. IsFiniteSet({f} \X (1 .. Len(data[f])))
    BY <2>3, <2>4, FS_Product
  <2> QED BY <2>2, <2>5
<1>2. PICK T : T = {{f} \X DOMAIN data[f] : f \in Flows}
  OBVIOUS
<1>3. PICK h : h = [f \in Flows |-> {f} \X DOMAIN data[f]]
  OBVIOUS
<1>4. h \in Surjection(Flows, T)
  BY <1>2, <1>3 DEF Surjection
<1>5. IsFiniteSet(T)
  BY <1>4, StackAssumption, FS_Surjection
<1>6. \A t \in T : IsFiniteSet(t)
  BY <1>1, <1>2
<1>7. IsFiniteSet(UNION T)
  BY <1>5, <1>6, FS_UNION
<1>8. Cells(data) = UNION T /\ Bytes(data) = Cardinality(UNION T)
  BY <1>2 DEF Cells, Bytes
<1>9. Cardinality(UNION T) \in Nat
  BY <1>7, FS_CardinalityType
<1> QED BY <1>1, <1>7, <1>8, <1>9

LEMMA BytesLess ==
    ASSUME NEW d \in [Flows -> Seq(Nat)], NEW e \in [Flows -> Seq(Nat)],
           \A f \in Flows : Len(e[f]) <= Len(d[f])
    PROVE  Bytes(e) <= Bytes(d)
<1>1. ASSUME NEW f \in Flows PROVE {f} \X DOMAIN e[f] \subseteq {f} \X DOMAIN d[f]
  <2>1. /\ Len(d[f]) \in Nat /\ DOMAIN d[f] = 1 .. Len(d[f])
        /\ Len(e[f]) \in Nat /\ DOMAIN e[f] = 1 .. Len(e[f]) /\ Len(e[f]) <= Len(d[f])
    BY BytesFinite
  <2>2. DOMAIN e[f] \subseteq DOMAIN d[f]
    BY <2>1
  <2> QED BY <2>2
<1>2. Cells(e) \subseteq Cells(d)
  BY <1>1, CellIff
<1> QED BY <1>2, BytesFinite, FS_Subset

\* One flow has n bytes more.
Grows(d, e, f, n) ==
    /\ d \in [Flows -> Seq(Nat)] /\ e \in [Flows -> Seq(Nat)] /\ n \in Nat
    /\ Len(e[f]) = Len(d[f]) + n /\ \A g \in Flows \ {f} : Len(e[g]) = Len(d[g])

LEMMA BytesPush ==
    ASSUME NEW d, NEW e, NEW f \in Flows, NEW n, Grows(d, e, f, n)
    PROVE  Bytes(e) = Bytes(d) + n
<1>g. /\ d \in [Flows -> Seq(Nat)] /\ e \in [Flows -> Seq(Nat)] /\ n \in Nat
      /\ Len(e[f]) = Len(d[f]) + n /\ \A g \in Flows \ {f} : Len(e[g]) = Len(d[g])
  BY DEF Grows
<1>1. Len(d[f]) \in Nat
  BY <1>g, LenProperties
<1>3. \A g \in Flows \ {f} : DOMAIN e[g] = DOMAIN d[g]
  BY <1>g, BytesFinite
<1>4. DOMAIN e[f] = 1 .. Len(d[f]) + n /\ DOMAIN d[f] = 1 .. Len(d[f])
  BY <1>g, BytesFinite
<1>5. PICK I : I = Len(d[f]) + 1 .. Len(d[f]) + n
  OBVIOUS
<1>6. DOMAIN e[f] = DOMAIN d[f] \cup I /\ DOMAIN d[f] \cap I = {}
  BY <1>g, <1>1, <1>4, <1>5
<1>7. IsFiniteSet(I) /\ Cardinality(I) = n
  <2>1. Len(d[f]) + 1 \in Int /\ Len(d[f]) + n \in Int
    BY <1>g, <1>1
  <2>2. IsFiniteSet(I) /\ Cardinality(I) = IF Len(d[f]) + 1 > Len(d[f]) + n THEN 0
                                           ELSE (Len(d[f]) + n) - (Len(d[f]) + 1) + 1
    BY <1>5, <2>1, FS_Interval
  <2> QED BY <1>g, <1>1, <2>2
<1>8. PICK A : A = {f} \X I
  OBVIOUS
<1>9. IsFiniteSet(A) /\ Cardinality(A) = n
  <2>1. IsFiniteSet({f}) /\ Cardinality({f}) = 1
    BY FS_Singleton
  <2>2. IsFiniteSet(A) /\ Cardinality(A) = Cardinality({f}) * Cardinality(I)
    BY <1>7, <1>8, <2>1, FS_Product
  <2>3. Cardinality(A) = 1 * n
    BY <1>7, <2>1, <2>2
  <2> QED BY <1>g, <1>1, <2>2, <2>3
<1>10. Cells(e) = Cells(d) \cup A
  <2>1. {f} \X DOMAIN e[f] = ({f} \X DOMAIN d[f]) \cup A
    BY <1>6, <1>8
  <2>2. \A c : c \in Cells(e) <=> c \in Cells(d) \cup A
    BY <1>g, <1>3, <2>1, CellIff
  <2> QED BY <2>2
<1>11. Cells(d) \cap A = {}
  <2>1. ASSUME NEW c \in Cells(d), c \in A PROVE FALSE
    <3>1. PICK g \in Flows : c \in {g} \X DOMAIN d[g]
      BY <2>1, CellIff
    <3>2. PICK i \in I : c = <<f, i>>
      BY <1>8, <2>1
    <3>3. g = f /\ i \in DOMAIN d[g]
      BY <3>1, <3>2
    <3> QED BY <1>6, <3>2, <3>3
  <2> QED BY <2>1
<1>12. /\ IsFiniteSet(Cells(d)) /\ Bytes(d) = Cardinality(Cells(d)) /\ Bytes(d) \in Nat
       /\ Bytes(e) = Cardinality(Cells(e))
  BY <1>g, <1>3, BytesFinite
<1>13. Cardinality(Cells(d) \cup A) = Cardinality(Cells(d)) + Cardinality(A) - Cardinality(Cells(d) \cap A)
  BY <1>9, <1>12, FS_Union
<1>14. Cardinality(Cells(d) \cap A) = 0
  BY <1>11, FS_EmptySet
<1>15. Bytes(e) = Bytes(d) + n
  <2>1. Bytes(e) = Cardinality(Cells(d) \cup A)
    BY <1>10, <1>12
  <2>2. Bytes(e) = Bytes(d) + n - 0
    BY <1>9, <1>12, <1>13, <1>14, <2>1
  <2> QED BY <1>g, <1>1, <1>12, <2>2
<1> QED BY <1>15

LEMMA BytesNone ==
    ASSUME NEW d, d = [f \in Flows |-> <<>>]
    PROVE  d \in [Flows -> Seq(Nat)] /\ Bytes(d) = 0
<1>1. d \in [Flows -> Seq(Nat)]
  BY EmptySeq
<1>2. \A f \in Flows : DOMAIN d[f] = {}
  BY <1>1, BytesFinite
<1>3. Cells(d) = {}
  BY <1>2, CellIff
<1> QED BY <1>1, <1>3, BytesFinite, FS_EmptySet

-----------------------------------------------------------------------------
(* Stretches of a stream. *)

LEMMA StretchFacts ==
    ASSUME NEW lo \in Nat, NEW hi \in Nat, lo <= hi
    PROVE  Stretch(lo, hi) \in Seq(Nat) /\ Len(Stretch(lo, hi)) = hi - lo /\ Runs(Stretch(lo, hi), lo)
<1>1. hi - lo \in Nat
  OBVIOUS
<1>2. Stretch(lo, hi) \in [1 .. hi - lo -> Nat] /\ \A i \in 1 .. hi - lo : Stretch(lo, hi)[i] = lo + i
  BY DEF Stretch
<1>3. Stretch(lo, hi) \in Seq(Nat)
  BY <1>1, <1>2, SeqDef
<1>4. Len(Stretch(lo, hi)) = hi - lo
  BY <1>1, <1>2, <1>3, LenProperties
<1> QED BY <1>2, <1>3, <1>4 DEF Runs

LEMMA RunsConcat ==
    ASSUME NEW s \in Seq(Nat), NEW t \in Seq(Nat), NEW a \in Nat, Runs(s, a), Runs(t, a + Len(s))
    PROVE  s \o t \in Seq(Nat) /\ Len(s \o t) = Len(s) + Len(t) /\ Runs(s \o t, a)
<1>1. Len(s) \in Nat /\ Len(t) \in Nat
  BY LenProperties
<1>2. /\ s \o t \in Seq(Nat) /\ Len(s \o t) = Len(s) + Len(t)
      /\ \A i \in 1 .. Len(s) + Len(t) : (s \o t)[i] = IF i <= Len(s) THEN s[i] ELSE t[i - Len(s)]
  BY ConcatProperties
<1>3. ASSUME NEW i \in 1 .. Len(s) + Len(t) PROVE (s \o t)[i] = a + i
  <2>1. CASE i <= Len(s)
    <3>1. i \in 1 .. Len(s)
      BY <1>1, <2>1
    <3> QED BY <1>2, <2>1, <3>1 DEF Runs
  <2>2. CASE ~(i <= Len(s))
    <3>1. i - Len(s) \in 1 .. Len(t)
      BY <1>1, <2>2
    <3>2. (s \o t)[i] = t[i - Len(s)]
      BY <1>2, <2>2
    <3>3. t[i - Len(s)] = a + Len(s) + (i - Len(s))
      BY <3>1 DEF Runs
    <3> QED BY <1>1, <3>2, <3>3
  <2> QED BY <2>1, <2>2
<1> QED BY <1>2, <1>3 DEF Runs

LEMMA RunsParts ==
    ASSUME NEW s \in Seq(Nat), NEW n \in Nat, n <= Len(s)
    PROVE  /\ SubSeq(s, 1, n) \in Seq(Nat) /\ Len(SubSeq(s, 1, n)) = n
           /\ SubSeq(s, n + 1, Len(s)) \in Seq(Nat) /\ Len(SubSeq(s, n + 1, Len(s))) = Len(s) - n
           /\ \A a \in Nat : Runs(s, a) => Runs(SubSeq(s, 1, n), a) /\ Runs(SubSeq(s, n + 1, Len(s)), a + n)
<1>1. Len(s) \in Nat /\ n \in Int /\ Len(s) \in Int /\ n + 1 \in Int /\ 1 \in Int
  BY LenProperties
<1>2. /\ \A i \in 1 .. n : s[i] \in Nat
      /\ \A i \in n + 1 .. Len(s) : s[i] \in Nat
  <2>1. \A i \in 1 .. Len(s) : s[i] \in Nat
    BY ElementOfSeq
  <2> QED BY <1>1, <2>1
<1>3. /\ SubSeq(s, 1, n) \in Seq(Nat)
      /\ Len(SubSeq(s, 1, n)) = IF 1 <= n THEN n - 1 + 1 ELSE 0
      /\ \A i \in 1 .. n - 1 + 1 : SubSeq(s, 1, n)[i] = s[1 + i - 1]
  BY <1>1, <1>2, SubSeqProperties
<1>4. /\ SubSeq(s, n + 1, Len(s)) \in Seq(Nat)
      /\ Len(SubSeq(s, n + 1, Len(s))) = IF n + 1 <= Len(s) THEN Len(s) - (n + 1) + 1 ELSE 0
      /\ \A i \in 1 .. Len(s) - (n + 1) + 1 : SubSeq(s, n + 1, Len(s))[i] = s[n + 1 + i - 1]
  BY <1>1, <1>2, SubSeqProperties
<1>5. Len(SubSeq(s, 1, n)) = n /\ Len(SubSeq(s, n + 1, Len(s))) = Len(s) - n
  BY <1>1, <1>3, <1>4
<1>6. ASSUME NEW a \in Nat, Runs(s, a)
      PROVE  Runs(SubSeq(s, 1, n), a) /\ Runs(SubSeq(s, n + 1, Len(s)), a + n)
  <2>1. ASSUME NEW i \in 1 .. n PROVE SubSeq(s, 1, n)[i] = a + i
    <3>1. i \in 1 .. n - 1 + 1 /\ 1 + i - 1 = i /\ i \in 1 .. Len(s)
      BY <1>1
    <3>2. SubSeq(s, 1, n)[i] = s[i]
      BY <1>3, <3>1
    <3> QED BY <1>6, <3>1, <3>2 DEF Runs
  <2>2. ASSUME NEW i \in 1 .. Len(s) - n PROVE SubSeq(s, n + 1, Len(s))[i] = a + n + i
    <3>1. i \in 1 .. Len(s) - (n + 1) + 1 /\ n + 1 + i - 1 = n + i /\ n + i \in 1 .. Len(s)
      BY <1>1
    <3>2. SubSeq(s, n + 1, Len(s))[i] = s[n + i]
      BY <1>4, <3>1
    <3>3. s[n + i] = a + (n + i)
      BY <1>6, <3>1 DEF Runs
    <3> QED BY <1>1, <3>2, <3>3
  <2> QED BY <1>5, <2>1, <2>2 DEF Runs
<1> QED BY <1>3, <1>4, <1>5, <1>6

LEMMA RunsNone == \A a : Runs(<<>>, a)
  BY DEF Runs

-----------------------------------------------------------------------------
(* A message is taken from the channel. *)

LEMMA ShiftFacts ==
    ASSUME ChannelOK(data_in), data_in # <<>>, data_in' = Tail(data_in), NEW g \in Flows
    PROVE  /\ ChannelOK(data_in') /\ Head(data_in) = data_in[1] /\ 1 \in DOMAIN data_in
           /\ \A i \in Chunks(g)' : i \in Nat /\ i + 1 \in Chunks(g) /\ data_in'[i] = data_in[i + 1]
           /\ \A i \in Chunks(g) : i \in Nat /\ i >= 1
           /\ \A i \in Chunks(g) : i # 1 => i - 1 \in Chunks(g)' /\ data_in'[i - 1] = data_in[i]
           /\ \A i \in Closes(g)' : i \in Nat /\ i + 1 \in Closes(g)
<1>1. data_in \in Seq(Msg) /\ Len(data_in) \in Nat /\ DOMAIN data_in = 1 .. Len(data_in) /\ Len(data_in) # 0
  <2>1. data_in \in Seq(Msg)
    BY DEF ChannelOK
  <2>2. Len(data_in) # 0
    BY <2>1, EmptySeq
  <2> QED BY <2>1, <2>2, LenProperties
<1>2. /\ data_in' \in Seq(Msg) /\ Len(data_in') = Len(data_in) - 1
      /\ \A i \in 1 .. Len(data_in') : data_in'[i] = data_in[i + 1]
  BY <1>1, HeadTailProperties
<1>3. DOMAIN data_in' = 1 .. Len(data_in) - 1
  BY <1>2, LenProperties
<1>4. \A i \in DOMAIN data_in' : i \in Nat /\ i + 1 \in DOMAIN data_in /\ data_in'[i] = data_in[i + 1]
  BY <1>1, <1>2, <1>3
<1>5. \A i \in DOMAIN data_in : i # 1 => i - 1 \in DOMAIN data_in' /\ data_in'[i - 1] = data_in[i]
  <2> SUFFICES ASSUME NEW i \in DOMAIN data_in, i # 1
               PROVE  i - 1 \in DOMAIN data_in' /\ data_in'[i - 1] = data_in[i]
    OBVIOUS
  <2>1. i - 1 \in 1 .. Len(data_in') /\ i - 1 + 1 = i
    BY <1>1, <1>2
  <2> QED BY <1>2, <1>3, <2>1
<1>6. Head(data_in) = data_in[1] /\ 1 \in DOMAIN data_in
  BY <1>1
<1>7. ChannelOK(data_in')
  <2>1. Len(data_in') <= CHANNEL
    BY <1>1, <1>2, Constants DEF ChannelOK
  <2>2. \A i \in DOMAIN data_in' : data_in'[i].hi - data_in'[i].lo \in 0 .. Chunk
    BY <1>4 DEF ChannelOK
  <2> QED BY <1>2, <2>1, <2>2 DEF ChannelOK
<1>8. \A i \in Chunks(g)' : i \in Nat /\ i + 1 \in Chunks(g) /\ data_in'[i] = data_in[i + 1]
  BY <1>4 DEF Chunks
<1>9. \A i \in Closes(g)' : i \in Nat /\ i + 1 \in Closes(g)
  BY <1>4 DEF Closes
<1>10. \A i \in Chunks(g) : i # 1 => i - 1 \in Chunks(g)' /\ data_in'[i - 1] = data_in[i]
  BY <1>5 DEF Chunks
<1>11. \A i \in Chunks(g) : i \in Nat /\ i >= 1
  BY <1>1 DEF Chunks
<1> QED BY <1>6, <1>7, <1>8, <1>9, <1>10, <1>11

\* The chain of a flow goes on from the byte r.
LEMMA ShiftChain ==
    ASSUME ChannelOK(data_in), data_in # <<>>, data_in' = Tail(data_in), NEW g \in Flows, ChainInv(g),
           Reached(g) \in Int, Reached(g)' \in Int, Given(g) \in Int, Given(g)' = Given(g), relay'[g] = relay[g],
           1 \in Chunks(g) => data_in[1].lo = Reached(g) /\ Reached(g)' = data_in[1].hi,
           1 \notin Chunks(g) => Reached(g)' = Reached(g)
    PROVE  ChainInv(g)'
<1>1. /\ \A i \in Chunks(g)' : i \in Nat /\ i + 1 \in Chunks(g) /\ data_in'[i] = data_in[i + 1]
      /\ \A i \in Chunks(g) : i # 1 => i - 1 \in Chunks(g)' /\ data_in'[i - 1] = data_in[i]
      /\ \A i \in Chunks(g) : i \in Nat /\ i >= 1
  BY ShiftFacts
<1>2. \A i \in Chunks(g) : data_in[i].lo \in Nat /\ data_in[i].hi \in Nat /\ data_in[i].lo < data_in[i].hi
  BY ChannelElements DEF Chunks
<1>3. /\ Reached(g) <= Given(g)
      /\ \A i \in Chunks(g) : Reached(g) <= data_in[i].lo /\ data_in[i].hi <= Given(g)
      /\ \A i \in Chunks(g) : data_in[i].lo = Reached(g)
                                \/ \E j \in Chunks(g) : j < i /\ data_in[j].hi = data_in[i].lo
      /\ \A i, j \in Chunks(g) : i < j => data_in[i].hi <= data_in[j].lo
      /\ relay[g].up # "off" => Given(g) = Reached(g) \/ \E i \in Chunks(g) : data_in[i].hi = Given(g)
  BY DEF ChainInv
<1>4. Reached(g)' <= Given(g)'
  BY <1>3
<1>5. ASSUME NEW i \in Chunks(g)'
      PROVE  /\ Reached(g)' <= data_in'[i].lo /\ data_in'[i].hi <= Given(g)'
             /\ data_in'[i].lo = Reached(g)' \/ \E j \in Chunks(g)' : j < i /\ data_in'[j].hi = data_in'[i].lo
             /\ \A j \in Chunks(g)' : i < j => data_in'[i].hi <= data_in'[j].lo
  <2>1. i \in Nat /\ i + 1 \in Chunks(g) /\ data_in'[i] = data_in[i + 1] /\ i + 1 >= 1
    BY <1>1
  <2>2. i + 1 # 1
    <3>1. CASE 1 \in Chunks(g)
      <4>1. i + 1 = 1 => i = 0
        BY <2>1
      <4>2. i \in DOMAIN data_in' /\ DOMAIN data_in' = 1 .. Len(data_in') /\ Len(data_in') \in Nat
        <5>1. ChannelOK(data_in')
          BY ShiftFacts
        <5> QED BY <5>1, ChannelElements DEF Chunks
      <4> QED BY <4>1, <4>2
    <3>2. CASE 1 \notin Chunks(g)
      BY <2>1, <3>2
    <3> QED BY <3>1, <3>2
  <2>3. data_in'[i].hi <= Given(g)'
    BY <1>3, <2>1
  <2>4. 1 \in Chunks(g) => data_in[1].hi <= data_in[i + 1].lo
    <3>1. 1 < i + 1
      BY <2>1, <2>2
    <3> QED BY <1>3, <2>1, <3>1
  <2>5. Reached(g)' <= data_in'[i].lo
    BY <1>3, <2>1, <2>4
  <2>6. data_in'[i].lo = Reached(g)' \/ \E j \in Chunks(g)' : j < i /\ data_in'[j].hi = data_in'[i].lo
    <3>1. CASE data_in[i + 1].lo = Reached(g)
      <4>1. 1 \notin Chunks(g)
        BY <1>2, <2>1, <2>4, <3>1
      <4> QED BY <2>1, <3>1, <4>1
    <3>2. ASSUME NEW j \in Chunks(g), j < i + 1, data_in[j].hi = data_in[i + 1].lo
          PROVE  data_in'[i].lo = Reached(g)' \/ \E k \in Chunks(g)' : k < i /\ data_in'[k].hi = data_in'[i].lo
      <4>1. CASE j = 1
        BY <2>1, <3>2, <4>1
      <4>2. CASE j # 1
        <5>1. j - 1 \in Chunks(g)' /\ data_in'[j - 1] = data_in[j] /\ j \in Nat
          BY <1>1, <4>2
        <5>2. j - 1 < i
          BY <2>1, <3>2, <5>1
        <5> QED BY <2>1, <3>2, <5>1, <5>2
      <4> QED BY <4>1, <4>2
    <3> QED BY <1>3, <2>1, <3>1, <3>2
  <2>7. ASSUME NEW j \in Chunks(g)', i < j PROVE data_in'[i].hi <= data_in'[j].lo
    <3>1. j \in Nat /\ j + 1 \in Chunks(g) /\ data_in'[j] = data_in[j + 1]
      BY <1>1
    <3>2. i + 1 < j + 1
      BY <2>1, <2>7, <3>1
    <3> QED BY <1>3, <2>1, <3>1, <3>2
  <2> QED BY <2>3, <2>5, <2>6, <2>7
<1>6. ASSUME relay'[g].up # "off"
      PROVE  Given(g)' = Reached(g)' \/ \E i \in Chunks(g)' : data_in'[i].hi = Given(g)'
  <2>1. Given(g) = Reached(g) \/ \E i \in Chunks(g) : data_in[i].hi = Given(g)
    BY <1>3, <1>6
  <2>2. CASE Given(g) = Reached(g)
    <3>1. 1 \notin Chunks(g)
      <4>1. ASSUME 1 \in Chunks(g) PROVE FALSE
        <5>1. data_in[1].lo = Given(g) /\ data_in[1].hi <= Given(g)
          BY <1>3, <2>2, <4>1
        <5>2. data_in[1].lo \in Nat /\ data_in[1].hi \in Nat /\ data_in[1].lo < data_in[1].hi
          BY <1>2, <4>1
        <5> QED BY <5>1, <5>2
      <4> QED BY <4>1
    <3> QED BY <2>2, <3>1
  <2>3. ASSUME NEW i \in Chunks(g), data_in[i].hi = Given(g)
        PROVE  Given(g)' = Reached(g)' \/ \E k \in Chunks(g)' : data_in'[k].hi = Given(g)'
    <3>1. CASE i = 1
      BY <2>3, <3>1
    <3>2. CASE i # 1
      BY <1>1, <2>3, <3>2
    <3> QED BY <3>1, <3>2
  <2> QED BY <2>1, <2>2, <2>3
<1> QED BY <1>4, <1>5, <1>6 DEF ChainInv

\* All of a flow but pending and half_closed.
Fed(c, x) ==
    /\ x.live = c.live /\ x.established = c.established /\ x.aborted = c.aborted /\ x.closed = c.closed
    /\ x.listening = c.listening /\ x.resp = c.resp /\ x.sent = c.sent /\ x.acked = c.acked
    /\ x.accepted_total = c.accepted_total /\ x.acked_high = c.acked_high
    /\ x.drainAge = c.drainAge /\ x.progressAge = c.progressAge /\ x.queue = c.queue /\ x.state = c.state
    /\ x.send_queue_high = c.send_queue_high
    /\ c.half_closed => x.half_closed

LEMMA FedSame == \A c : Fed(c, c)
  BY DEF Fed

LEMMA FedFacts ==
    ASSUME NEW c, NEW x, Fed(c, x), NEW silent, NEW late
    PROVE  /\ NumbersInv(c) => NumbersInv(x)
           /\ Ages(c, silent, late) => Ages(x, silent, late)
           /\ \A r : Linked(c, r) => Linked(x, r)
           /\ Sound(c) <=> Sound(x)
<1>1. NumbersInv(c) => NumbersInv(x)
  BY DEF Fed, NumbersInv
<1>2. Sound(c) <=> Sound(x)
  BY DEF Fed, Sound
<1>3. Ages(c, silent, late) => Ages(x, silent, late)
  BY <1>2 DEF Fed, Ages, acked
<1>4. \A r : Linked(c, r) => Linked(x, r)
  BY DEF Fed, Linked
<1> QED BY <1>1, <1>2, <1>3, <1>4

\* A flow takes the bytes s.
Feed(c, s, h) == [c EXCEPT !.pending = c.pending \o s, !.half_closed = h]

Fits(c, s, h) ==
    /\ c \in ConnType /\ s \in Seq(Nat) /\ Len(c.pending) + Len(s) <= max_tcp_pending
    /\ h \in BOOLEAN /\ (c.half_closed => h)

Feeds(c, s, h, x) ==
    /\ x \in ConnType /\ Fed(c, x) /\ x.pending = c.pending \o s /\ x.half_closed = h
    /\ c.pending \in Seq(Nat) /\ Len(x.pending) = Len(c.pending) + Len(s)

LEMMA FeedFacts ==
    ASSUME NEW c, NEW s, NEW h, Fits(c, s, h), NEW x, x = Feed(c, s, h)
    PROVE  Feeds(c, s, h, x)
<1>f. /\ c \in ConnType /\ s \in Seq(Nat) /\ Len(c.pending) + Len(s) <= max_tcp_pending
      /\ h \in BOOLEAN /\ (c.half_closed => h)
  BY DEF Fits
<1>1. c.pending \in Seq(Nat)
  <2>1. c.pending \in Upto(Nat, max_tcp_pending)
    BY <1>f DEF ConnType
  <2> QED BY <2>1 DEF Upto
<1>2. c.pending \o s \in Seq(Nat) /\ Len(c.pending \o s) = Len(c.pending) + Len(s)
  BY <1>f, <1>1, ConcatProperties
<1>3. PICK p : p = c.pending \o s
  OBVIOUS
<1>4. p \in Upto(Nat, max_tcp_pending)
  BY <1>f, <1>2, <1>3 DEF Upto
<1>5. x = [c EXCEPT !.pending = p, !.half_closed = h]
  BY <1>3 DEF Feed
<1>6. x \in ConnType
  BY <1>f, <1>4, <1>5, ZenonT(120) DEF ConnType
<1>7. x.pending = p /\ x.half_closed = h
  BY <1>f, <1>5 DEF ConnType
<1>8. Fed(c, x)
  <2>1. c.half_closed => x.half_closed
    BY <1>f, <1>7
  <2>2. /\ x.live = c.live /\ x.established = c.established /\ x.aborted = c.aborted /\ x.closed = c.closed
        /\ x.listening = c.listening /\ x.resp = c.resp /\ x.state = c.state
    BY <1>f, <1>5 DEF ConnType
  <2>3. /\ x.sent = c.sent /\ x.acked = c.acked
        /\ x.accepted_total = c.accepted_total /\ x.acked_high = c.acked_high
        /\ x.drainAge = c.drainAge /\ x.progressAge = c.progressAge /\ x.queue = c.queue /\ x.send_queue_high = c.send_queue_high
    BY <1>f, <1>5 DEF ConnType
  <2> QED BY <2>1, <2>2, <2>3 DEF Fed
<1> QED BY <1>1, <1>2, <1>3, <1>6, <1>7, <1>8 DEF Feeds

\* The backlog after a push is in order, and longer by what was pushed.
Pushes(b, f, t, k, x) ==
    /\ x.data = [b.data EXCEPT ![f] = b.data[f] \o t] /\ x.blocked = b.blocked \cup {f}
    /\ x.close = IF k THEN b.close \cup {f} ELSE b.close
    /\ x.bytes = b.bytes + Len(t)

LEMMA PushFacts ==
    ASSUME NEW b \in BacklogType, NEW f \in Flows, NEW lo \in Nat, NEW hi \in Nat, lo <= hi,
           NEW x, x = push(b, Message(f, lo, hi))
    PROVE  x \in BacklogType /\ Pushes(b, f, Stretch(lo, hi), lo = hi, x)
<1>1. /\ b.data \in [Flows -> Seq(Nat)] /\ b.close \in SUBSET Flows
      /\ b.blocked \in SUBSET Flows /\ b.bytes \in Nat
  BY DEF BacklogType
<1>2. Stretch(lo, hi) \in Seq(Nat) /\ Len(Stretch(lo, hi)) = hi - lo
  BY StretchFacts
<1>3. PICK e : e = [b.data EXCEPT ![f] = b.data[f] \o Stretch(lo, hi)]
  OBVIOUS
<1>4. e \in [Flows -> Seq(Nat)]
  <2>1. b.data[f] \o Stretch(lo, hi) \in Seq(Nat)
    BY <1>1, <1>2, ConcatProperties
  <2> QED BY <1>1, <1>3, <2>1
<1>5. PICK k : k = IF lo = hi THEN b.close \cup {f} ELSE b.close
  OBVIOUS
<1>6. PICK n : n = b.bytes + (hi - lo)
  OBVIOUS
<1>7. k \in SUBSET Flows /\ b.blocked \cup {f} \in SUBSET Flows
  BY <1>1, <1>5
<1>8. n \in Nat
  BY <1>1, <1>6
<1>9. x = [data |-> e, close |-> k, blocked |-> b.blocked \cup {f}, bytes |-> n]
  <2>1. PICK m : m = Message(f, lo, hi)
    OBVIOUS
  <2>2. m.id = f /\ m.lo = lo /\ m.hi = hi /\ x = push(b, m)
    BY <2>1, MessageFacts
  <2>3. x = [data |-> [b.data EXCEPT ![m.id] = b.data[m.id] \o Stretch(m.lo, m.hi)],
             close |-> IF m.lo = m.hi THEN b.close \cup {m.id} ELSE b.close,
             blocked |-> b.blocked \cup {m.id}, bytes |-> b.bytes + (m.hi - m.lo)]
    BY <2>2 DEF push
  <2> QED BY <1>3, <1>5, <1>6, <2>2, <2>3
<1>10. x \in BacklogType
  BY <1>4, <1>7, <1>8, <1>9 DEF BacklogType
<1>11. x.data = e /\ x.close = k /\ x.blocked = b.blocked \cup {f} /\ x.bytes = n
  BY <1>9
<1> QED BY <1>2, <1>3, <1>5, <1>6, <1>10, <1>11 DEF Pushes

Accounted(b) ==
    /\ b.bytes = Bytes(b.data) /\ b.blocked = {g \in Flows : b.data[g] # <<>>}
    /\ b.close \subseteq b.blocked

Pushed(b, f, t, x) ==
    /\ Accounted(x)
    /\ x.data[f] = b.data[f] \o t /\ \A g \in Flows \ {f} : x.data[g] = b.data[g]

LEMMA PushInv ==
    ASSUME NEW b \in BacklogType, NEW f \in Flows, NEW t \in Seq(Nat), NEW k,
           NEW x, Pushes(b, f, t, k, x), Accounted(b), f \in b.blocked \/ Len(t) # 0
    PROVE  Pushed(b, f, t, x)
<1>a. /\ b.bytes = Bytes(b.data) /\ b.blocked = {g \in Flows : b.data[g] # <<>>}
      /\ b.close \subseteq b.blocked
  BY DEF Accounted
<1>1. b.data \in [Flows -> Seq(Nat)]
  BY DEF BacklogType
<1>3. x.data[f] = b.data[f] \o t /\ \A g \in Flows \ {f} : x.data[g] = b.data[g]
  BY <1>1 DEF Pushes
<1>2. Bytes(x.data) = Bytes(b.data) + Len(t)
  <2>1. b.data[f] \o t \in Seq(Nat)
    BY <1>1, ConcatProperties
  <2>2. x.data \in [Flows -> Seq(Nat)]
    BY <1>1, <2>1 DEF Pushes
  <2>3. Len(x.data[f]) = Len(b.data[f]) + Len(t) /\ Len(t) \in Nat
    BY <1>1, <1>3, ConcatProperties, LenProperties
  <2>4. \A g \in Flows \ {f} : Len(x.data[g]) = Len(b.data[g])
    BY <1>3
  <2>5. PICK n : n = Len(t)
    OBVIOUS
  <2>6. n \in Nat /\ Len(x.data[f]) = Len(b.data[f]) + n
    BY <2>3, <2>5
  <2>7. Bytes(x.data) = Bytes(b.data) + n
    <3>1. Grows(b.data, x.data, f, n)
      BY <1>1, <2>2, <2>4, <2>6 DEF Grows
    <3> QED BY <3>1, BytesPush
  <2> QED BY <2>5, <2>7
<1>4. x.data[f] # <<>>
  <2>1. b.data[f] # <<>> \/ t # <<>>
    <3>1. Len(t) # 0 => t # <<>>
      BY EmptySeq
    <3> QED BY <1>a, <3>1
  <2>2. b.data[f] \in Seq(Nat)
    BY <1>1
  <2> QED BY <1>3, <2>1, <2>2, ConcatEqualIffEmpty
<1>5. x.blocked = {g \in Flows : x.data[g] # <<>>}
  BY <1>a, <1>3, <1>4 DEF Pushes
<1>6. x.close \subseteq x.blocked
  BY <1>a DEF Pushes
<1>7. x.bytes = Bytes(x.data)
  BY <1>a, <1>2 DEF Pushes
<1> QED BY <1>3, <1>5, <1>6, <1>7 DEF Accounted, Pushed

IngestsClose(f) ==
    conn' = [conn EXCEPT ![f] = [conn[f] EXCEPT !.half_closed = TRUE]] /\ backlog' = backlog
IngestsChunk(f, lo, hi) ==
    \E n : /\ n = Smaller(hi - lo, room(conn[f]))
           /\ conn' = [conn EXCEPT ![f] = [conn[f] EXCEPT !.pending = @ \o Stretch(lo, lo + n)]]
           /\ backlog' = IF lo + n = hi THEN backlog ELSE push(backlog, Message(f, lo + n, hi))

LEMMA IngestCases ==
    ASSUME StackInv, Ingest, NEW d, d = Head(data_in), NEW f, f = d.id
    PROVE  /\ f \in Flows /\ d = data_in[1] /\ d.lo \in Nat /\ d.hi \in Nat /\ d.lo <= d.hi /\ d.hi - d.lo <= Chunk
           /\ 1 \in DOMAIN data_in
           /\ \/ f \in backlog.blocked /\ conn' = conn /\ backlog' = push(backlog, Message(f, d.lo, d.hi))
              \/ f \notin backlog.blocked /\ ~conn[f].live /\ conn' = conn /\ backlog' = backlog
              \/ f \notin backlog.blocked /\ conn[f].live /\ d.lo = d.hi /\ IngestsClose(f)
              \/ f \notin backlog.blocked /\ conn[f].live /\ d.lo < d.hi /\ IngestsChunk(f, d.lo, d.hi)
<1>1. ChannelOK(data_in) /\ data_in # <<>> /\ data_in' = Tail(data_in) /\ StackTypeOK
  BY TypeParts DEF StackInv, Ingest
<1>2. data_in \in Seq(Msg) /\ Len(data_in) \in Nat /\ DOMAIN data_in = 1 .. Len(data_in) /\ Len(data_in) # 0
  <2>1. data_in \in Seq(Msg)
    BY <1>1 DEF ChannelOK
  <2>2. Len(data_in) # 0
    BY <1>1, <2>1, EmptySeq
  <2> QED BY <2>1, <2>2, LenProperties
<1>3. d = data_in[1] /\ 1 \in DOMAIN data_in
  BY <1>2
<1>4. f \in Flows /\ d.lo \in Nat /\ d.hi \in Nat /\ d.hi - d.lo \in 0 .. Chunk
  BY <1>1, <1>3, ChannelElements DEF ChannelOK
<1>5. d.lo <= d.hi /\ d.hi - d.lo <= Chunk
  BY <1>4, Constants
<1>6. d = Message(f, d.lo, d.hi)
  <2>1. d \in Msg
    BY <1>2, <1>3, ElementOfSeq
  <2> QED BY <2>1 DEF Msg, Message
<1>7. PICK h : h = try_handle_data(conn[f], d)
  OBVIOUS
<1>8. IF f \in backlog.blocked
      THEN conn' = conn /\ backlog' = push(backlog, d)
      ELSE /\ conn' = [conn EXCEPT ![f] = h.conn]
           /\ backlog' = IF h.lo = d.hi THEN backlog ELSE push(backlog, Message(f, h.lo, d.hi))
  BY <1>7 DEF Ingest, ingest
<1>9. CASE f \in backlog.blocked
  BY <1>3, <1>4, <1>5, <1>6, <1>8, <1>9
<1>10. CASE f \notin backlog.blocked /\ ~conn[f].live
  <2>1. h = [conn |-> conn[f], lo |-> d.hi]
    BY <1>7, <1>10 DEF try_handle_data
  <2>2. h.conn = conn[f] /\ h.lo = d.hi
    BY <2>1
  <2>3. conn \in [Flows -> ConnType]
    BY <1>1 DEF StackTypeOK
  <2>4. conn' = conn
    <3>1. conn' = [conn EXCEPT ![f] = conn[f]]
      BY <1>8, <1>10, <2>2
    <3> QED BY <1>4, <2>3, <3>1
  <2> QED BY <1>3, <1>4, <1>5, <1>8, <1>10, <2>2, <2>4
<1>11. CASE f \notin backlog.blocked /\ conn[f].live /\ d.lo = d.hi
  <2>1. h = [conn |-> [conn[f] EXCEPT !.half_closed = TRUE], lo |-> d.hi]
    BY <1>7, <1>11 DEF try_handle_data
  <2>2. h.conn = [conn[f] EXCEPT !.half_closed = TRUE] /\ h.lo = d.hi
    BY <2>1
  <2>3. IngestsClose(f)
    BY <1>8, <1>11, <2>2 DEF IngestsClose
  <2> QED BY <1>3, <1>4, <1>5, <1>11, <2>3
<1>12. CASE f \notin backlog.blocked /\ conn[f].live /\ d.lo # d.hi
  <2>1. PICK n : n = Smaller(d.hi - d.lo, room(conn[f]))
    OBVIOUS
  <2>2. h = [conn |-> [conn[f] EXCEPT !.pending = @ \o Stretch(d.lo, d.lo + n)], lo |-> d.lo + n]
    BY <1>7, <1>12, <2>1 DEF try_handle_data
  <2>3. h.conn = [conn[f] EXCEPT !.pending = @ \o Stretch(d.lo, d.lo + n)] /\ h.lo = d.lo + n
    BY <2>2
  <2>4. d.lo < d.hi
    BY <1>4, <1>5, <1>12
  <2>5. /\ conn' = [conn EXCEPT ![f] = [conn[f] EXCEPT !.pending = @ \o Stretch(d.lo, d.lo + n)]]
        /\ backlog' = IF d.lo + n = d.hi THEN backlog ELSE push(backlog, Message(f, d.lo + n, d.hi))
    BY <1>8, <1>12, <2>3
  <2>6. IngestsChunk(f, d.lo, d.hi)
    BY <2>1, <2>5 DEF IngestsChunk
  <2> QED BY <1>3, <1>4, <1>5, <1>12, <2>4, <2>6
<1> QED BY <1>9, <1>10, <1>11, <1>12

\* What a message does to its flow and to the backlog.
Beside(f) ==
    /\ conn' \in [Flows -> ConnType] /\ backlog' \in BacklogType
    /\ \A g \in Flows \ {f} : /\ conn'[g] = conn[g] /\ backlog'.data[g] = backlog.data[g]
                              /\ g \in backlog'.close => g \in backlog.close
                              /\ g \in backlog'.blocked => g \in backlog.blocked
Own(f, lo, hi) ==
    /\ f \in backlog'.blocked => f \in backlog.blocked
                                   \/ (conn[f].live /\ Len(conn[f].pending) + (hi - lo) > max_tcp_pending)
    /\ f \in backlog'.close => f \in backlog.close \/ lo = hi
    /\ conn'[f].half_closed => conn[f].half_closed \/ (lo = hi /\ f \notin backlog'.blocked)
    /\ lo = hi => conn'[f].pending = conn[f].pending
Enters(f, lo, hi) ==
    /\ Beside(f) /\ Own(f, lo, hi)
    /\ Fed(conn[f], conn'[f]) /\ Accounted(backlog') /\ backlog'.bytes <= backlog.bytes + (hi - lo)

Extends(f, lo, hi) ==
    Sound(conn[f]) /\ BufferInv(f) /\ (lo < hi => lo = Reached(f))
        => BufferInv(f)' /\ Reached(f)' = Reached(f) + (hi - lo)

LEMMA EntersNothing ==
    ASSUME StackInv, NEW f \in Flows, NEW lo \in Nat, NEW hi \in Nat, lo <= hi,
           ~conn[f].live, conn' = conn, backlog' = backlog
    PROVE  Enters(f, lo, hi) /\ Extends(f, lo, hi)
<1>1. conn \in [Flows -> ConnType] /\ backlog \in BacklogType /\ backlog.bytes \in Nat
  BY TypeParts DEF StackInv, StackTypeOK
<1>2. Accounted(backlog)
  BY DEF StackInv, BacklogInv, Accounted
<1>3. Fed(conn[f], conn'[f])
  BY FedSame
<1>4. backlog.bytes <= backlog.bytes + (hi - lo)
  BY <1>1
<1>5. Enters(f, lo, hi)
  BY <1>1, <1>2, <1>3, <1>4 DEF Enters, Beside, Own
<1> QED BY <1>5 DEF Extends, Sound

LEMMA EntersClose ==
    ASSUME StackInv, NEW f \in Flows, NEW lo \in Nat, NEW hi \in Nat, lo = hi, f \notin backlog.blocked,
           conn' = [conn EXCEPT ![f] = [conn[f] EXCEPT !.half_closed = TRUE]], backlog' = backlog
    PROVE  Enters(f, lo, hi) /\ Extends(f, lo, hi)
<1>1. conn \in [Flows -> ConnType] /\ backlog \in BacklogType /\ backlog.bytes \in Nat /\ StackTypeOK
  BY TypeParts DEF StackInv, StackTypeOK
<1>2. Accounted(backlog)
  BY DEF StackInv, BacklogInv, Accounted
<1>3. PICK x : x = [conn[f] EXCEPT !.half_closed = TRUE]
  OBVIOUS
<1>4. x \in ConnType
  <2>1. conn[f] \in ConnType
    BY <1>1
  <2> QED BY <1>3, <2>1 DEF ConnType
<1>5. x.half_closed = TRUE /\ x.pending = conn[f].pending
  <2>1. conn[f] \in ConnType
    BY <1>1
  <2> QED BY <1>3, <2>1 DEF ConnType
<1>6. Fed(conn[f], x)
  <2>1. conn[f] \in ConnType
    BY <1>1
  <2>2. /\ x.live = conn[f].live /\ x.established = conn[f].established /\ x.aborted = conn[f].aborted
        /\ x.closed = conn[f].closed
        /\ x.listening = conn[f].listening /\ x.resp = conn[f].resp /\ x.state = conn[f].state
    BY <1>3, <2>1 DEF ConnType
  <2>3. /\ x.sent = conn[f].sent /\ x.acked = conn[f].acked
        /\ x.accepted_total = conn[f].accepted_total /\ x.acked_high = conn[f].acked_high
        /\ x.drainAge = conn[f].drainAge /\ x.progressAge = conn[f].progressAge /\ x.queue = conn[f].queue
        /\ x.send_queue_high = conn[f].send_queue_high
    BY <1>3, <2>1 DEF ConnType
  <2> QED BY <1>5, <2>2, <2>3 DEF Fed
<1>7. conn' \in [Flows -> ConnType] /\ conn'[f] = x /\ \A g \in Flows \ {f} : conn'[g] = conn[g]
  BY <1>1, <1>3, <1>4
<1>8. backlog.bytes <= backlog.bytes + (hi - lo)
  BY <1>1
<1>9. Enters(f, lo, hi)
  BY <1>1, <1>2, <1>5, <1>6, <1>7, <1>8 DEF Enters, Beside, Own
<1>10. Extends(f, lo, hi)
  <2> SUFFICES ASSUME BufferInv(f) PROVE BufferInv(f)' /\ Reached(f)' = Reached(f) + (hi - lo)
    BY DEF Extends
  <2>1. x.accepted_total = conn[f].accepted_total
    BY <1>6 DEF Fed
  <2>2. BufferInv(f)' /\ Reached(f)' = Reached(f)
    BY <1>5, <1>7, <2>1, BufferKept
  <2>3. Reached(f) \in Nat
    BY <1>1, FlowNumbers
  <2> QED BY <2>2, <2>3
<1> QED BY <1>9, <1>10

LEMMA EntersBacklog ==
    ASSUME StackInv, NEW f \in Flows, NEW lo \in Nat, NEW hi \in Nat, lo <= hi, f \in backlog.blocked,
           conn' = conn, backlog' = push(backlog, Message(f, lo, hi))
    PROVE  Enters(f, lo, hi) /\ Extends(f, lo, hi)
<1>1. conn \in [Flows -> ConnType] /\ backlog \in BacklogType /\ backlog.bytes \in Nat /\ StackTypeOK
  BY TypeParts DEF StackInv, StackTypeOK
<1>2. Accounted(backlog)
  BY DEF StackInv, BacklogInv, Accounted
<1>3. PICK t : t = Stretch(lo, hi)
  OBVIOUS
<1>4. t \in Seq(Nat) /\ Len(t) = hi - lo /\ Runs(t, lo)
  BY <1>3, StretchFacts
<1>k. PICK k \in BOOLEAN : k = (lo = hi)
  OBVIOUS
<1>5. backlog' \in BacklogType /\ Pushes(backlog, f, t, k, backlog')
  BY <1>1, <1>3, <1>k, PushFacts
<1>6. /\ Accounted(backlog')
      /\ backlog'.data[f] = backlog.data[f] \o t /\ \A g \in Flows \ {f} : backlog'.data[g] = backlog.data[g]
  <2>1. Pushed(backlog, f, t, backlog')
    BY <1>1, <1>2, <1>4, <1>5, PushInv
  <2> QED BY <2>1 DEF Pushed
<1>7. backlog'.bytes = backlog.bytes + (hi - lo)
  BY <1>4, <1>5 DEF Pushes
<1>8. backlog'.bytes <= backlog.bytes + (hi - lo)
  BY <1>1, <1>7
<1>9. /\ \A g \in Flows \ {f} : /\ g \in backlog'.close => g \in backlog.close
                                /\ g \in backlog'.blocked => g \in backlog.blocked
      /\ f \in backlog'.close => f \in backlog.close \/ lo = hi
  BY <1>5, <1>k DEF Pushes
<1>10. Enters(f, lo, hi)
  BY <1>1, <1>5, <1>6, <1>8, <1>9, FedSame DEF Enters, Beside, Own
<1>11. Extends(f, lo, hi)
  <2> SUFFICES ASSUME Sound(conn[f]), BufferInv(f), lo < hi => lo = Reached(f)
               PROVE  BufferInv(f)' /\ Reached(f)' = Reached(f) + (hi - lo)
    BY DEF Extends
  <2>1. /\ conn[f].accepted_total \in Nat /\ Len(conn[f].pending) \in Nat /\ backlog.data[f] \in Seq(Nat)
        /\ Len(backlog.data[f]) \in Nat
    BY <1>1, FlowNumbers
  <2>2. PICK a \in Nat : a = conn[f].accepted_total + Len(conn[f].pending)
    BY <2>1
  <2>3. Reached(f) = a + Len(backlog.data[f])
    BY <2>2 DEF Reached
  <2>4. Runs(t, a + Len(backlog.data[f]))
    <3>1. CASE lo < hi
      BY <1>4, <2>3, <3>1
    <3>2. CASE ~(lo < hi)
      BY <1>4, <3>2 DEF Runs
    <3> QED BY <3>1, <3>2
  <2>5. Runs(backlog.data[f], a) /\ Runs(conn[f].pending, conn[f].accepted_total)
    BY <2>2 DEF BufferInv
  <2>6. Len(backlog.data[f] \o t) = Len(backlog.data[f]) + Len(t) /\ Runs(backlog.data[f] \o t, a)
    BY <1>4, <2>1, <2>4, <2>5, RunsConcat
  <2>7. Runs(backlog'.data[f], a) /\ Len(backlog'.data[f]) = Len(backlog.data[f]) + (hi - lo)
    BY <1>4, <1>6, <2>6
  <2>8. BufferInv(f)'
    BY <2>2, <2>5, <2>7 DEF BufferInv
  <2>9. Reached(f)' = a + (Len(backlog.data[f]) + (hi - lo))
    BY <2>2, <2>7 DEF Reached
  <2> QED BY <2>1, <2>3, <2>8, <2>9
<1> QED BY <1>10, <1>11

LEMMA EntersPending ==
    ASSUME StackInv, NEW f \in Flows, NEW lo \in Nat, NEW hi \in Nat, lo < hi, f \notin backlog.blocked, conn[f].live,
           NEW n, n = Smaller(hi - lo, room(conn[f])),
           conn' = [conn EXCEPT ![f] = [conn[f] EXCEPT !.pending = @ \o Stretch(lo, lo + n)]],
           backlog' = IF lo + n = hi THEN backlog ELSE push(backlog, Message(f, lo + n, hi))
    PROVE  Enters(f, lo, hi) /\ Extends(f, lo, hi)
<1>1. /\ conn \in [Flows -> ConnType] /\ conn[f] \in ConnType /\ backlog \in BacklogType /\ backlog.bytes \in Nat
      /\ StackTypeOK
  BY TypeParts DEF StackInv, StackTypeOK
<1>2. Accounted(backlog)
  BY DEF StackInv, BacklogInv, Accounted
<1>3. /\ conn[f].accepted_total \in Nat /\ Len(conn[f].pending) \in Nat /\ Len(conn[f].pending) <= max_tcp_pending
      /\ conn[f].pending \in Seq(Nat)
  BY <1>1, FlowNumbers
<1>4. n \in Nat /\ n <= hi - lo /\ Len(conn[f].pending) + n <= max_tcp_pending
      /\ (n # hi - lo => Len(conn[f].pending) + n = max_tcp_pending)
  BY <1>3, Capacities DEF Smaller, room
<1>5. lo + n \in Nat /\ lo <= lo + n /\ lo + n <= hi
  BY <1>4
<1>6. PICK s : s = Stretch(lo, lo + n)
  OBVIOUS
<1>7. s \in Seq(Nat) /\ Len(s) = n /\ Runs(s, lo)
  <2>1. PICK m \in Nat : m = lo + n
    BY <1>5
  <2>2. lo <= m /\ m - lo = n /\ s = Stretch(lo, m)
    BY <1>4, <1>6, <2>1
  <2> QED BY <2>2, StretchFacts
<1>8. PICK h : h = conn[f].half_closed
  OBVIOUS
<1>9. h \in BOOLEAN
  BY <1>1, <1>8 DEF ConnType
<1>10. PICK x : x = Feed(conn[f], s, h)
  OBVIOUS
<1>11. x = [conn[f] EXCEPT !.pending = @ \o Stretch(lo, lo + n)]
  BY <1>1, <1>6, <1>8, <1>10 DEF ConnType, Feed
<1>q. PICK q : q = conn[f].pending \o s
  OBVIOUS
<1>12. /\ x \in ConnType /\ Fed(conn[f], x) /\ x.pending = q /\ x.half_closed = h
       /\ Len(q) = Len(conn[f].pending) + Len(s)
  <2>1. Len(conn[f].pending) + Len(s) <= max_tcp_pending /\ (conn[f].half_closed => h)
    BY <1>4, <1>7, <1>8
  <2>2. /\ x \in ConnType /\ Fed(conn[f], x) /\ x.pending = conn[f].pending \o s /\ x.half_closed = h
        /\ Len(x.pending) = Len(conn[f].pending) + Len(s)
    <3>1. Fits(conn[f], s, h)
      BY <1>1, <1>7, <1>9, <2>1 DEF Fits
    <3>2. Feeds(conn[f], s, h, x)
      BY <1>10, <3>1, FeedFacts
    <3> QED BY <3>2 DEF Feeds
  <2> QED BY <1>q, <2>2
<1>13. conn' \in [Flows -> ConnType] /\ conn'[f] = x /\ \A g \in Flows \ {f} : conn'[g] = conn[g]
  BY <1>1, <1>11, <1>12
<1>h. conn'[f].half_closed => conn[f].half_closed
  BY <1>8, <1>12, <1>13
<1>r. lo # hi
  OBVIOUS
<1>s. ASSUME BufferInv(f), lo = Reached(f), backlog.data[f] = <<>>
      PROVE  /\ Runs(q, conn[f].accepted_total) /\ lo = conn[f].accepted_total + Len(conn[f].pending)
             /\ conn[f].accepted_total + Len(q) = lo + n /\ x.accepted_total = conn[f].accepted_total
  <2>1. lo = conn[f].accepted_total + Len(conn[f].pending)
    BY <1>3, <1>s DEF Reached
  <2>2. Runs(conn[f].pending, conn[f].accepted_total)
    BY <1>s DEF BufferInv
  <2>3. Runs(conn[f].pending \o s, conn[f].accepted_total)
    BY <1>3, <1>7, <2>1, <2>2, RunsConcat
  <2>4. x.accepted_total = conn[f].accepted_total
    BY <1>12 DEF Fed
  <2>5. Len(q) = Len(conn[f].pending) + n
    BY <1>7, <1>12
  <2>6. conn[f].accepted_total + Len(q) = lo + n
    BY <1>3, <1>4, <2>1, <2>5
  <2> QED BY <1>q, <2>1, <2>3, <2>4, <2>6
<1>14. backlog.data[f] = <<>> /\ f \notin backlog.close
  BY <1>2 DEF Accounted
<1>15. CASE lo + n = hi
  <2>1. backlog' = backlog
    BY <1>15
  <2>2. backlog.bytes <= backlog.bytes + (hi - lo)
    BY <1>1
  <2>3. Enters(f, lo, hi)
    <3>1. Beside(f)
      BY <1>1, <1>13, <2>1 DEF Beside
    <3>2. Own(f, lo, hi)
      BY <1>h, <1>r, <2>1 DEF Own
    <3>3. Fed(conn[f], conn'[f])
      BY <1>12, <1>13
    <3> QED BY <1>2, <2>1, <2>2, <3>1, <3>2, <3>3 DEF Enters
  <2>4. Extends(f, lo, hi)
    <3> SUFFICES ASSUME BufferInv(f), lo = Reached(f)
                 PROVE  BufferInv(f)' /\ Reached(f)' = Reached(f) + (hi - lo)
      BY DEF Extends
    <3>1. /\ Runs(q, conn[f].accepted_total) /\ conn[f].accepted_total + Len(q) = lo + n
          /\ x.accepted_total = conn[f].accepted_total
      BY <1>14, <1>s
    <3>2. conn'[f].pending = q /\ conn'[f].accepted_total = conn[f].accepted_total /\ backlog'.data[f] = <<>>
      BY <1>12, <1>13, <1>14, <2>1, <3>1
    <3>5. BufferInv(f)'
      BY <3>1, <3>2, RunsNone DEF BufferInv
    <3>6. Reached(f)' = (lo + n) + 0
      BY <3>1, <3>2 DEF Reached
    <3> QED BY <1>5, <1>15, <3>5, <3>6
  <2> QED BY <2>3, <2>4
<1>16. CASE lo + n # hi
  <2>1. PICK k \in Nat : k = lo + n
    BY <1>5
  <2>2. k < hi
    BY <1>5, <1>16, <2>1
  <2>3. PICK t : t = Stretch(k, hi)
    OBVIOUS
  <2>4. t \in Seq(Nat) /\ Len(t) = hi - k /\ Runs(t, k)
    BY <2>2, <2>3, StretchFacts
  <2>b. PICK o \in BOOLEAN : o = (k = hi)
    OBVIOUS
  <2>5. backlog' \in BacklogType /\ Pushes(backlog, f, t, o, backlog')
    BY <1>1, <1>16, <2>b, <2>1, <2>2, <2>3, PushFacts
  <2>6. Len(t) # 0
    BY <2>2, <2>4
  <2>7. /\ Accounted(backlog')
        /\ backlog'.data[f] = backlog.data[f] \o t /\ \A g \in Flows \ {f} : backlog'.data[g] = backlog.data[g]
    <3>1. Pushed(backlog, f, t, backlog')
      BY <1>1, <1>2, <2>4, <2>5, <2>6, PushInv
    <3> QED BY <3>1 DEF Pushed
  <2>8. backlog'.bytes = backlog.bytes + (hi - k)
    BY <2>4, <2>5 DEF Pushes
  <2>9. backlog'.bytes <= backlog.bytes + (hi - lo)
    BY <1>1, <1>4, <2>1, <2>8
  <2>10. /\ \A g \in Flows \ {f} : /\ g \in backlog'.close => g \in backlog.close
                                   /\ g \in backlog'.blocked => g \in backlog.blocked
         /\ f \in backlog'.close => f \in backlog.close
    <3>1. k # hi
      BY <2>2
    <3> QED BY <2>b, <2>5, <3>1 DEF Pushes
  <2>11. Len(conn[f].pending) + (hi - lo) > max_tcp_pending
    BY <1>3, <1>4, <2>1, <2>2, Capacities
  <2>12. Enters(f, lo, hi)
    BY <1>h, <1>r, <1>12, <1>13, <2>5, <2>7, <2>9, <2>10, <2>11 DEF Enters, Beside, Own
  <2>13. backlog'.data[f] = t
    BY <1>14, <2>4, <2>7, ConcatEmptySeq
  <2>14. Extends(f, lo, hi)
    <3> SUFFICES ASSUME BufferInv(f), lo = Reached(f)
                 PROVE  BufferInv(f)' /\ Reached(f)' = Reached(f) + (hi - lo)
      BY DEF Extends
    <3>1. /\ Runs(q, conn[f].accepted_total) /\ conn[f].accepted_total + Len(q) = k
          /\ x.accepted_total = conn[f].accepted_total
      BY <1>14, <1>s, <2>1
    <3>2. conn'[f].pending = q /\ conn'[f].accepted_total = conn[f].accepted_total
      BY <1>12, <1>13, <3>1
    <3>6. BufferInv(f)'
      BY <2>4, <2>13, <3>1, <3>2 DEF BufferInv
    <3>7. Reached(f)' = k + (hi - k)
      BY <2>4, <2>13, <3>1, <3>2 DEF Reached
    <3> QED BY <3>6, <3>7
  <2> QED BY <2>12, <2>14
<1> QED BY <1>15, <1>16

LEMMA IngestEnters ==
    ASSUME StackInv, Ingest, NEW d, d = Head(data_in), NEW f, f = d.id
    PROVE  Enters(f, d.lo, d.hi) /\ Extends(f, d.lo, d.hi)
<1>1. f \in Flows /\ d.lo \in Nat /\ d.hi \in Nat /\ d.lo <= d.hi
  BY IngestCases
<1>2. CASE f \in backlog.blocked
  <2>1. conn' = conn /\ backlog' = push(backlog, Message(f, d.lo, d.hi))
    BY <1>2, IngestCases
  <2> QED BY <1>1, <1>2, <2>1, EntersBacklog
<1>3. CASE f \notin backlog.blocked /\ ~conn[f].live
  <2>1. conn' = conn /\ backlog' = backlog
    BY <1>3, IngestCases
  <2> QED BY <1>1, <1>3, <2>1, EntersNothing
<1>4. CASE f \notin backlog.blocked /\ conn[f].live /\ d.lo = d.hi
  <2>1. ~(d.lo < d.hi)
    BY <1>1, <1>4
  <2>2. IngestsClose(f)
    BY <1>4, <2>1, IngestCases
  <2> QED BY <1>1, <1>4, <2>2, EntersClose DEF IngestsClose
<1>5. CASE f \notin backlog.blocked /\ conn[f].live /\ d.lo # d.hi
  <2>1. d.lo < d.hi
    BY <1>1, <1>5
  <2>2. PICK n :
          /\ n = Smaller(d.hi - d.lo, room(conn[f]))
          /\ conn' = [conn EXCEPT ![f] = [conn[f] EXCEPT !.pending = @ \o Stretch(d.lo, d.lo + n)]]
          /\ backlog' = IF d.lo + n = d.hi THEN backlog ELSE push(backlog, Message(f, d.lo + n, d.hi))
    <3>1. IngestsChunk(f, d.lo, d.hi)
      BY <1>5, IngestCases
    <3> QED BY <3>1 DEF IngestsChunk
  <2> QED BY <1>1, <1>5, <2>1, <2>2, EntersPending
<1> QED BY <1>2, <1>3, <1>4, <1>5

\* The messages of a flow move up by one place.
LEMMA ShiftCloses ==
    ASSUME ChannelOK(data_in), data_in # <<>>, data_in' = Tail(data_in), NEW g \in Flows, CloseInv(g)
    PROVE  /\ \A i \in Closes(g)', j \in Chunks(g)' : j < i
           /\ Closes(g)' # {} => Closes(g) # {}
           /\ Chunks(g) = {} => Chunks(g)' = {}
           /\ 1 \in Closes(g) => Chunks(g) = {}
<1>1. /\ \A i \in Chunks(g)' : i \in Nat /\ i + 1 \in Chunks(g)
      /\ \A i \in Chunks(g) : i \in Nat /\ i >= 1
      /\ \A i \in Closes(g)' : i \in Nat /\ i + 1 \in Closes(g)
  BY ShiftFacts
<1>2. \A i \in Closes(g), j \in Chunks(g) : j < i
  BY DEF CloseInv
<1>3. ASSUME NEW i \in Closes(g)', NEW j \in Chunks(g)' PROVE j < i
  <2>1. i \in Nat /\ j \in Nat /\ j + 1 < i + 1
    BY <1>1, <1>2
  <2> QED BY <2>1
<1>4. 1 \in Closes(g) => Chunks(g) = {}
  <2>1. ASSUME 1 \in Closes(g), NEW j \in Chunks(g) PROVE FALSE
    <3>1. j < 1 /\ j \in Nat /\ j >= 1
      BY <1>1, <1>2, <2>1
    <3> QED BY <3>1
  <2> QED BY <2>1
<1> QED BY <1>1, <1>3, <1>4

LEMMA IngestOther ==
    ASSUME StackInv, Ingest, NEW f \in Flows, Beside(f), NEW g \in Flows \ {f}, data_in[1].id = f
    PROVE  FlowInv(g)'
<1>1. /\ ChannelOK(data_in) /\ data_in # <<>> /\ data_in' = Tail(data_in) /\ StackTypeOK /\ FlowInv(g) /\ g \in Flows
      /\ relay' = relay /\ aux' = aux /\ ticked' = ticked
  BY TypeParts DEF StackInv, Ingest
<1>2. /\ conn'[g] = conn[g] /\ backlog'.data[g] = backlog.data[g]
      /\ g \in backlog'.close => g \in backlog.close
      /\ g \in backlog'.blocked => g \in backlog.blocked
  BY DEF Beside
<1>3. 1 \notin Chunks(g)
  BY DEF Chunks
<1>4. /\ \A i \in Closes(g)', j \in Chunks(g)' : j < i
      /\ Closes(g)' # {} => Closes(g) # {}
      /\ Chunks(g) = {} => Chunks(g)' = {}
  BY <1>1, ShiftCloses DEF FlowInv
<1>5. Reached(g)' = Reached(g) /\ Given(g)' = Given(g) /\ Reached(g) \in Int /\ Given(g) \in Int
  <2>1. Reached(g)' = Reached(g) /\ Given(g)' = Given(g)
    BY <1>1, <1>2 DEF Reached, Given, InRelay
  <2> QED BY <1>1, <2>1, FlowNumbers
<1>6. Sound(conn'[g]) => BufferInv(g)' /\ ChainInv(g)'
  <2>1. ASSUME Sound(conn'[g]) PROVE BufferInv(g)' /\ ChainInv(g)'
    <3>1. BufferInv(g) /\ ChainInv(g)
      BY <1>1, <1>2, <2>1 DEF FlowInv
    <3>2. BufferInv(g)'
      BY <1>2, <3>1, BufferKept
    <3>3. ChainInv(g)'
      BY <1>1, <1>3, <1>5, <3>1, ShiftChain
    <3> QED BY <3>2, <3>3
  <2> QED BY <2>1
<1>7. CloseInv(g)'
  <2>1. CloseInv(g)
    BY <1>1 DEF FlowInv
  <2> QED BY <1>1, <1>2, <1>4, <2>1 DEF CloseInv
<1>8. LinkInv(g)'
  <2>1. LinkInv(g)
    BY <1>1 DEF FlowInv
  <2> QED BY <1>1, <1>2, <1>4, <2>1 DEF LinkInv
<1>9. CreditInv(g)'
  BY <1>1, <1>2 DEF FlowInv, CreditInv
<1>10. NumbersInv(conn'[g]) /\ FinInv(conn'[g]) /\ Ages(conn'[g], aux'[g].silent, ticked')
  BY <1>1, <1>2 DEF FlowInv
<1> QED BY <1>6, <1>7, <1>8, <1>9, <1>10 DEF FlowInv

\* A chunk at the head of the channel goes on where the backlog ends.
LEMMA HeadChunk ==
    ASSUME StackInv, data_in # <<>>, NEW f \in Flows, 1 \in Chunks(f), Sound(conn[f])
    PROVE  data_in[1].lo = Reached(f) /\ data_in[1].hi <= conn[f].sent
<1>1. StackTypeOK /\ FlowInv(f) /\ ChannelOK(data_in)
  BY TypeParts DEF StackInv
<1>2. ChainInv(f)
  BY <1>1 DEF FlowInv
<1>3. /\ data_in[1].hi <= Given(f)
      /\ data_in[1].lo = Reached(f) \/ \E j \in Chunks(f) : j < 1 /\ data_in[j].hi = data_in[1].lo
  BY <1>2 DEF ChainInv
<1>4. \A j \in Chunks(f) : ~(j < 1)
  BY <1>1, ChannelElements DEF Chunks
<1>5. data_in[1].hi \in Nat
  BY <1>1, ChannelElements DEF Chunks
<1>6. Given(f) = conn[f].sent - InRelay(f) /\ conn[f].sent \in Nat /\ InRelay(f) \in Nat
  BY <1>1, FlowNumbers DEF Given
<1>7. data_in[1].hi <= conn[f].sent
  BY <1>3, <1>5, <1>6
<1> QED BY <1>3, <1>4, <1>7

LEMMA IngestOwn ==
    ASSUME StackInv, Ingest, NEW f \in Flows, NEW d, d = data_in[1], d.id = f, 1 \in DOMAIN data_in,
           d.lo \in Nat, d.hi \in Nat, d.lo <= d.hi, Enters(f, d.lo, d.hi), Extends(f, d.lo, d.hi)
    PROVE  FlowInv(f)'
<1>1. /\ ChannelOK(data_in) /\ data_in # <<>> /\ data_in' = Tail(data_in) /\ StackTypeOK /\ FlowInv(f)
      /\ relay' = relay /\ aux' = aux /\ ticked' = ticked
  BY TypeParts DEF StackInv, Ingest
<1>2. Own(f, d.lo, d.hi) /\ Fed(conn[f], conn'[f]) /\ Beside(f)
  BY DEF Enters
<1>3. (1 \in Chunks(f) <=> d.lo < d.hi) /\ (1 \in Closes(f) <=> d.lo = d.hi)
  BY DEF Chunks, Closes
<1>4. /\ \A i \in Closes(f)', j \in Chunks(f)' : j < i
      /\ Closes(f)' # {} => Closes(f) # {}
      /\ Chunks(f) = {} => Chunks(f)' = {}
      /\ 1 \in Closes(f) => Chunks(f) = {}
  BY <1>1, ShiftCloses DEF FlowInv
<1>5. Chunks(f) = {} => d.lo = d.hi
  BY <1>3
<1>6. /\ conn[f].sent \in Nat /\ Reached(f) \in Nat /\ Given(f) \in Int
      /\ Len(conn[f].pending) \in Nat /\ Len(conn[f].pending) <= max_tcp_pending
  BY <1>1, FlowNumbers
<1>7. d.lo = d.hi => (f \in backlog'.blocked => f \in backlog.blocked)
  <2>1. d.lo = d.hi => d.hi - d.lo = 0
    OBVIOUS
  <2>2. ~(Len(conn[f].pending) + 0 > max_tcp_pending)
    BY <1>6, Capacities
  <2> QED BY <1>2, <2>1, <2>2 DEF Own
<1>8. CloseInv(f)'
  <2>1. CloseInv(f)
    BY <1>1 DEF FlowInv
  <2>2. f \in backlog'.close => f \in backlog.close \/ 1 \in Closes(f)
    BY <1>2, <1>3 DEF Own
  <2>3. conn'[f].half_closed => conn[f].half_closed \/ (1 \in Closes(f) /\ f \notin backlog'.blocked)
    BY <1>2, <1>3 DEF Own
  <2>4. Closes(f)' # {} \/ f \in backlog'.close \/ conn'[f].half_closed => relay'[f].up \in {"ended", "off"}
    BY <1>1, <1>4, <2>1, <2>2, <2>3 DEF CloseInv
  <2>5. f \in backlog'.close => Chunks(f)' = {}
    BY <1>4, <2>1, <2>2 DEF CloseInv
  <2>6. conn'[f].half_closed => Chunks(f)' = {} /\ f \notin backlog'.blocked
    BY <1>4, <1>5, <1>7, <2>1, <2>3 DEF CloseInv
  <2> QED BY <1>4, <2>4, <2>5, <2>6 DEF CloseInv
<1>9. /\ NumbersInv(conn'[f]) /\ Ages(conn'[f], aux'[f].silent, ticked') /\ Linked(conn'[f], relay'[f])
      /\ (Sound(conn[f]) <=> Sound(conn'[f]))
  <2>1. NumbersInv(conn[f]) /\ Ages(conn[f], aux[f].silent, ticked) /\ Linked(conn[f], relay[f])
    BY <1>1 DEF FlowInv, LinkInv
  <2> QED BY <1>1, <1>2, <2>1, FedFacts
<1>10. LinkInv(f)'
  <2>1. relay[f].up # "idle"
    <3>1. 1 \in Chunks(f) \/ 1 \in Closes(f)
      BY <1>3
    <3> QED BY <1>1, <3>1 DEF FlowInv, LinkInv
  <2> QED BY <1>1, <1>9, <2>1 DEF LinkInv
<1>11. CreditInv(f)'
  BY <1>1, <1>2 DEF FlowInv, CreditInv, Fed
<1>12. FinInv(conn'[f])
  <2> SUFFICES ASSUME Sound(conn'[f]), conn'[f].listening, conn'[f].state \in Fins
               PROVE  conn'[f].half_closed /\ conn'[f].pending = <<>>
    BY DEF FinInv
  <2>1. Sound(conn[f]) /\ conn[f].listening /\ conn[f].state \in Fins
    BY <1>2, <1>9 DEF Fed
  <2>2. conn[f].half_closed /\ conn[f].pending = <<>>
    BY <1>1, <2>1 DEF FlowInv, FinInv
  <2>3. Chunks(f) = {}
    BY <1>1, <2>2 DEF FlowInv, CloseInv
  <2> QED BY <1>2, <1>5, <2>2, <2>3 DEF Fed, Own
<1>13. ASSUME Sound(conn'[f]) PROVE BufferInv(f)' /\ ChainInv(f)'
  <2>1. Sound(conn[f]) /\ BufferInv(f) /\ ChainInv(f)
    BY <1>1, <1>9, <1>13 DEF FlowInv
  <2>2. d.lo < d.hi => d.lo = Reached(f)
    BY <1>1, <1>3, <2>1, HeadChunk
  <2>3. BufferInv(f)' /\ Reached(f)' = Reached(f) + (d.hi - d.lo)
    BY <2>1, <2>2 DEF Extends
  <2>4. Reached(f)' \in Int
    BY <1>6, <2>3
  <2>5. 1 \in Chunks(f) => data_in[1].lo = Reached(f) /\ Reached(f)' = data_in[1].hi
    BY <1>3, <1>6, <2>2, <2>3
  <2>6. 1 \notin Chunks(f) => Reached(f)' = Reached(f)
    BY <1>3, <1>6, <2>3
  <2>7. Given(f)' = Given(f)
    BY <1>1, <1>2 DEF Given, InRelay, Fed
  <2>8. relay'[f] = relay[f] /\ Reached(f) \in Int
    BY <1>1, <1>6
  <2>9. ChainInv(f)'
    BY <1>1, <1>6, <2>1, <2>4, <2>5, <2>6, <2>7, <2>8, ShiftChain
  <2> QED BY <2>3, <2>9
<1> QED BY <1>8, <1>9, <1>10, <1>11, <1>12, <1>13 DEF FlowInv

LEMMA ChunkFits ==
    ASSUME StackInv, data_in # <<>>, NEW f \in Flows, 1 \in Chunks(f), Sound(conn[f]),
           conn[f].sent - conn[f].acked <= Larger(Chunk, Ceiling)
    PROVE  Len(conn[f].pending) + (data_in[1].hi - data_in[1].lo) <= max_tcp_pending
<1>1. StackTypeOK /\ FlowInv(f) /\ ChannelOK(data_in)
  BY TypeParts DEF StackInv
<1>2. /\ conn[f].sent \in Nat /\ conn[f].acked \in Nat /\ conn[f].accepted_total \in Nat
      /\ conn[f].queue \in 0 .. TX_BUF /\ Len(conn[f].pending) \in Nat
      /\ Len(backlog.data[f]) \in Nat
  BY <1>1, FlowNumbers
<1>3. data_in[1].lo \in Nat /\ data_in[1].hi \in Nat
  BY <1>1, ChannelElements DEF Chunks
<1>4. data_in[1].lo = Reached(f) /\ data_in[1].hi <= conn[f].sent
  BY HeadChunk
<1>5. data_in[1].lo = conn[f].accepted_total + Len(conn[f].pending) + Len(backlog.data[f])
  BY <1>4 DEF Reached
<1>6. conn[f].acked <= conn[f].accepted_total - conn[f].queue
  BY <1>1 DEF FlowInv, NumbersInv
<1>7. conn[f].queue \in Nat
  BY <1>2, Constants
<1>8. PICK m : m = Larger(Chunk, Ceiling)
  OBVIOUS
<1>9. m \in Nat /\ max_tcp_pending \in Nat /\ m <= max_tcp_pending /\ conn[f].sent - conn[f].acked <= m
  BY <1>8, Capacities
<1>10. PICK s, k, a, q, p, b, lo, hi \in Nat :
          /\ s = conn[f].sent /\ k = conn[f].acked /\ a = conn[f].accepted_total /\ q = conn[f].queue
          /\ p = Len(conn[f].pending) /\ b = Len(backlog.data[f])
          /\ lo = data_in[1].lo /\ hi = data_in[1].hi
  BY <1>2, <1>3, <1>7
<1>11. lo = a + p + b /\ hi <= s /\ s - k <= m /\ k <= a - q
  BY <1>4, <1>5, <1>6, <1>9, <1>10
<1>12. p + (hi - lo) = hi - a - b
  BY <1>11
<1>13. hi - a - b <= s - k
  BY <1>11
<1>14. p + (hi - lo) <= max_tcp_pending
  BY <1>9, <1>11, <1>12, <1>13
<1> QED BY <1>10, <1>14

\* A flow that its writer keeps within its credit always has room.
LEMMA AdmittedFits ==
    ASSUME StackInv, data_in # <<>>, NEW f \in Flows, NEW d, d = data_in[1], d.id = f, 1 \in DOMAIN data_in,
           d.lo \in Nat, d.hi \in Nat, d.lo <= d.hi, conn[f].live, ~conn[f].closed, ~aux[f].forced
    PROVE  Len(conn[f].pending) + (d.hi - d.lo) <= max_tcp_pending
<1>1. StackTypeOK /\ FlowInv(f)
  BY DEF StackInv
<1>2. Len(conn[f].pending) \in Nat /\ Len(conn[f].pending) <= max_tcp_pending
  BY <1>1, FlowNumbers
<1>3. CASE d.lo = d.hi
  BY <1>2, <1>3, Capacities
<1>4. CASE d.lo # d.hi
  <2>1. d.lo < d.hi
    BY <1>4
  <2>2. 1 \in Chunks(f) /\ Sound(conn[f])
    BY <2>1 DEF Chunks, Sound
  <2>3. conn[f].sent - conn[f].acked <= Larger(Chunk, Ceiling)
    BY <1>1 DEF FlowInv, CreditInv
  <2> QED BY <2>2, <2>3, ChunkFits
<1> QED BY <1>3, <1>4

LEMMA IngestInv == ASSUME StackInv, Ingest PROVE StackInv'
<1>1. PICK d : d = Head(data_in)
  OBVIOUS
<1>2. PICK f : f = d.id
  OBVIOUS
<1>3. /\ f \in Flows /\ d = data_in[1] /\ d.lo \in Nat /\ d.hi \in Nat /\ d.lo <= d.hi /\ d.hi - d.lo <= Chunk
      /\ 1 \in DOMAIN data_in
  BY <1>1, <1>2, IngestCases
<1>4. Enters(f, d.lo, d.hi) /\ Extends(f, d.lo, d.hi)
  BY <1>1, <1>2, IngestEnters
<1>5. /\ StackTypeOK /\ ChannelOK(data_in) /\ data_in # <<>> /\ data_in' = Tail(data_in)
      /\ backlog.bytes < MAX_BACKLOG_BYTES /\ backlog.bytes \in Nat /\ backlog.blocked \in SUBSET Flows
      /\ relay' = relay /\ aux' = aux /\ ticked' = ticked /\ phase' = phase /\ moved' = TRUE
  BY TypeParts DEF StackInv, Ingest
<1>6. FlowInv(f)'
  BY <1>2, <1>3, <1>4, IngestOwn
<1>7. ASSUME NEW g \in Flows \ {f} PROVE FlowInv(g)'
  BY <1>2, <1>3, <1>4, IngestOther DEF Enters
<1>8. \A g \in Flows : FlowInv(g)'
  BY <1>6, <1>7
<1>9. ChannelOK(data_in')
  BY <1>3, <1>5, ShiftFacts
<1>10. StackTypeOK'
  <2>1. /\ data_in' \in Seq([id : Flows, lo : Nat, hi : Nat]) /\ Len(data_in') <= CHANNEL
        /\ \A i \in DOMAIN data_in' : data_in'[i].hi - data_in'[i].lo \in 0 .. Chunk
    BY <1>9 DEF ChannelOK, Msg
  <2>2. conn' \in [Flows -> ConnType] /\ backlog' \in BacklogType
    BY <1>4 DEF Enters, Beside
  <2> QED BY <1>5, <2>1, <2>2 DEF StackTypeOK
<1>11. BacklogInv'
  <2>1. Accounted(backlog') /\ backlog'.bytes <= backlog.bytes + (d.hi - d.lo)
    BY <1>4 DEF Enters
  <2>2. backlog'.bytes \in Nat
    BY <1>10 DEF StackTypeOK, BacklogType
  <2>3. backlog'.bytes < MAX_BACKLOG_BYTES + Chunk
    BY <1>3, <1>5, <2>1, <2>2, Constants
  <2>4. ASSUME NEW g \in backlog'.blocked PROVE aux'[g].forced \/ conn'[g].closed
    <3>1. \A h \in backlog.blocked : aux[h].forced \/ conn[h].closed
      BY DEF StackInv, BacklogInv
    <3>2. g \in Flows
      BY <2>1 DEF Accounted
    <3>3. CASE g # f
      <4>1. conn'[g] = conn[g] /\ g \in backlog.blocked
        BY <1>4, <2>4, <3>2, <3>3 DEF Enters, Beside
      <4> QED BY <1>5, <3>1, <4>1
    <3>4. CASE g = f
      <4>1. conn'[f].closed = conn[f].closed
        BY <1>4 DEF Enters, Fed
      <4>2. CASE f \in backlog.blocked
        BY <1>5, <3>1, <3>4, <4>1, <4>2
      <4>3. CASE f \notin backlog.blocked
        <5>1. conn[f].live /\ Len(conn[f].pending) + (d.hi - d.lo) > max_tcp_pending
          BY <1>4, <2>4, <3>4, <4>3 DEF Enters, Own
        <5>2. Len(conn[f].pending) \in Nat
          BY <1>3, <1>5, FlowNumbers
        <5>3. ~(Len(conn[f].pending) + (d.hi - d.lo) <= max_tcp_pending)
          BY <1>3, <5>1, <5>2, Capacities
        <5>4. conn[f].closed \/ aux[f].forced
          BY <1>2, <1>3, <1>5, <5>1, <5>3, AdmittedFits
        <5> QED BY <1>5, <3>4, <4>1, <5>4
      <4> QED BY <4>2, <4>3
    <3> QED BY <3>3, <3>4
  <2> QED BY <2>1, <2>3, <2>4 DEF BacklogInv, Accounted
<1> QED BY <1>8, <1>10, <1>11 DEF StackInv

-----------------------------------------------------------------------------
(* A pass: the backlog is drained and dead flows are reset. *)

\* The flow c, with D in the backlog and its TcpClose there if k, after drain_backlog.
Drained(c, D, k, x, E) ==
    /\ Fed(c, x) /\ x \in ConnType /\ E \in Seq(Nat) /\ Len(E) <= Len(D)
    /\ x.half_closed => c.half_closed \/ (k /\ E = <<>>)
    /\ D = <<>> => x.pending = c.pending /\ E = <<>>
    /\ c.live => /\ Len(x.pending) + Len(E) = Len(c.pending) + Len(D)
                 /\ \A a \in Nat : Runs(c.pending, a) /\ Runs(D, a + Len(c.pending))
                                     => Runs(x.pending, a) /\ Runs(E, a + Len(x.pending))
    /\ ~c.live => x = c

LEMMA DrainGone ==
    ASSUME NEW c \in ConnType, ~c.live, NEW D \in Seq(Nat), NEW k
    PROVE  Drained(c, D, k, c, <<>>)
<1>1. Len(D) \in Nat /\ Len(<<>>) = 0 /\ <<>> \in Seq(Nat)
  BY LenProperties, EmptySeq
<1>2. Len(<<>>) <= Len(D)
  BY <1>1
<1>3. Fed(c, c)
  BY FedSame
<1> QED BY <1>1, <1>2, <1>3 DEF Drained

Joined(c, s) == c.pending \o s

Splits(c, D, s, E, p) ==
    /\ s \in Seq(Nat) /\ E \in Seq(Nat) /\ Len(E) <= Len(D)
    /\ Len(c.pending) + Len(s) <= max_tcp_pending
    /\ Len(p) + Len(E) = Len(c.pending) + Len(D)
    /\ D = <<>> => p = c.pending /\ E = <<>>
    /\ \A a \in Nat : Runs(c.pending, a) /\ Runs(D, a + Len(c.pending))
                        => Runs(p, a) /\ Runs(E, a + Len(p))

LEMMA DrainBytes ==
    ASSUME NEW c \in ConnType, NEW D \in Seq(Nat), NEW n, n = Smaller(Len(D), room(c)),
           NEW E, E = SubSeq(D, n + 1, Len(D)), NEW s, s = SubSeq(D, 1, n), NEW p, p = Joined(c, s)
    PROVE  Splits(c, D, s, E, p)
<1>1. c.pending \in Seq(Nat) /\ Len(c.pending) \in Nat /\ Len(c.pending) <= max_tcp_pending /\ Len(D) \in Nat
  <2>1. c.pending \in Upto(Nat, max_tcp_pending)
    BY DEF ConnType
  <2>2. c.pending \in Seq(Nat) /\ Len(c.pending) <= max_tcp_pending
    BY <2>1 DEF Upto
  <2> QED BY <2>2, LenProperties
<1>2. n \in Nat /\ n <= Len(D) /\ Len(c.pending) + n <= max_tcp_pending
  <2>1. PICK l : l = Len(c.pending)
    OBVIOUS
  <2>2. room(c) = max_tcp_pending - l /\ l \in Nat /\ l <= max_tcp_pending /\ max_tcp_pending \in Nat
    BY <1>1, <2>1, Capacities DEF room
  <2>3. PICK r : r = room(c)
    OBVIOUS
  <2>4. r \in Nat /\ l + r = max_tcp_pending
    BY <2>2, <2>3
  <2>5. PICK m : m = Len(D)
    OBVIOUS
  <2>6. m \in Nat /\ n = IF m < r THEN m ELSE r
    BY <1>1, <2>3, <2>5 DEF Smaller
  <2>7. n \in Nat /\ n <= m /\ n <= r
    BY <2>4, <2>6
  <2>8. l + n <= max_tcp_pending
    BY <2>2, <2>4, <2>7
  <2> QED BY <2>1, <2>5, <2>7, <2>8
<1>3. /\ s \in Seq(Nat) /\ Len(s) = n /\ E \in Seq(Nat) /\ Len(E) = Len(D) - n
      /\ \A a \in Nat : Runs(D, a) => Runs(s, a) /\ Runs(E, a + n)
  BY <1>2, RunsParts
<1>p. p = c.pending \o s
  BY DEF Joined
<1>4. Len(p) = Len(c.pending) + n
  <2>1. Len(c.pending \o s) = Len(c.pending) + Len(s)
    BY <1>1, <1>3, ConcatProperties
  <2> QED BY <1>p, <1>3, <2>1
<1>l. PICK lp, ld \in Nat : lp = Len(c.pending) /\ ld = Len(D)
  BY <1>1
<1>5. Len(E) <= Len(D) /\ Len(c.pending) + Len(s) <= max_tcp_pending
  <2>1. n \in Nat /\ n <= ld /\ lp + n <= max_tcp_pending
    BY <1>2, <1>l
  <2>2. Len(E) = ld - n /\ Len(s) = n
    BY <1>3, <1>l
  <2>3. ld - n <= ld
    BY <2>1
  <2> QED BY <1>l, <2>1, <2>2, <2>3
<1>6. Len(p) + Len(E) = Len(c.pending) + Len(D)
  <2>1. n \in Nat /\ Len(p) = lp + n /\ Len(E) = ld - n
    BY <1>2, <1>3, <1>4, <1>l
  <2>2. (lp + n) + (ld - n) = lp + ld
    BY <2>1
  <2> QED BY <1>l, <2>1, <2>2
<1>7. ASSUME D = <<>> PROVE p = c.pending /\ E = <<>>
  <2>1. Len(D) = 0
    BY <1>7, EmptySeq
  <2>2. Len(s) = 0 /\ Len(E) = 0
    BY <1>2, <1>3, <2>1
  <2>3. s = <<>> /\ E = <<>>
    BY <1>3, <2>2, EmptySeq
  <2> QED BY <1>p, <1>1, <2>3, ConcatEmptySeq
<1>8. ASSUME NEW a \in Nat, Runs(c.pending, a), Runs(D, a + Len(c.pending))
      PROVE  Runs(p, a) /\ Runs(E, a + Len(p))
  <2>1. PICK m \in Nat : m = a + Len(c.pending)
    BY <1>1
  <2>2. Runs(s, m) /\ Runs(E, m + n)
    BY <1>3, <1>8, <2>1
  <2>3. Runs(p, a)
    <3>1. Runs(s, a + Len(c.pending))
      BY <2>1, <2>2
    <3>2. Runs(c.pending \o s, a)
      BY <1>1, <1>3, <1>8, <3>1, RunsConcat
    <3> QED BY <1>p, <3>2
  <2>4. a + Len(p) = m + n
    <3>1. PICK l \in Nat : l = Len(c.pending)
      BY <1>1
    <3>2. Len(p) = l + n /\ m = a + l /\ n \in Nat
      BY <1>2, <1>4, <2>1, <3>1
    <3>3. a + (l + n) = (a + l) + n
      BY <3>2
    <3> QED BY <3>2, <3>3
  <2> QED BY <2>2, <2>3, <2>4
<1> QED BY <1>3, <1>5, <1>6, <1>7, <1>8 DEF Splits

LEMMA DrainLive ==
    ASSUME NEW c \in ConnType, c.live, NEW D \in Seq(Nat), NEW k, NEW n, n = Smaller(Len(D), room(c)),
           NEW E, E = SubSeq(D, n + 1, Len(D)), NEW h \in BOOLEAN, h => k /\ E = <<>>,
           NEW s, s = SubSeq(D, 1, n), NEW x, x = Feed(c, s, c.half_closed \/ h)
    PROVE  Drained(c, D, k, x, E)
<1>1. PICK p : p = Joined(c, s)
  OBVIOUS
<1>2. /\ s \in Seq(Nat) /\ E \in Seq(Nat) /\ Len(E) <= Len(D)
      /\ Len(c.pending) + Len(s) <= max_tcp_pending
      /\ Len(p) + Len(E) = Len(c.pending) + Len(D)
      /\ D = <<>> => p = c.pending /\ E = <<>>
      /\ \A a \in Nat : Runs(c.pending, a) /\ Runs(D, a + Len(c.pending))
                          => Runs(p, a) /\ Runs(E, a + Len(p))
  <2>1. Splits(c, D, s, E, p)
    BY <1>1, DrainBytes
  <2> QED BY <2>1 DEF Splits
<1>3. PICK g \in BOOLEAN : g = (c.half_closed \/ h)
  OBVIOUS
<1>4. Fits(c, s, g)
  <2>1. c.half_closed => g
    BY <1>3
  <2> QED BY <1>2, <2>1 DEF Fits
<1>5. Feeds(c, s, g, x)
  BY <1>3, <1>4, FeedFacts
<1>6. x \in ConnType /\ Fed(c, x) /\ x.pending = p /\ x.half_closed = g
  BY <1>1, <1>5 DEF Feeds, Joined
<1>7. x.half_closed => c.half_closed \/ (k /\ E = <<>>)
  BY <1>3, <1>6
<1> QED BY <1>2, <1>6, <1>7 DEF Drained

\* drain_backlog, flow by flow.
DrainedAll(st, r) ==
    /\ r.conns \in [Flows -> ConnType] /\ r.backlog \in BacklogType /\ Accounted(r.backlog)
    /\ r.backlog.close \subseteq st.backlog.close
    /\ \A f \in Flows : Drained(st.conns[f], st.backlog.data[f], f \in st.backlog.close,
                                r.conns[f], r.backlog.data[f])

LEMMA DrainFacts ==
    ASSUME NEW st, st.conns \in [Flows -> ConnType], st.backlog \in BacklogType,
           NEW r, r = drain_backlog(st)
    PROVE  DrainedAll(st, r)
<1>1. PICK b : b = st.backlog
  OBVIOUS
<1>2. b.data \in [Flows -> Seq(Nat)] /\ b.close \in SUBSET Flows
  BY <1>1 DEF BacklogType
<1>3. PICK taken : taken = [f \in Flows |-> IF st.conns[f].live
                                            THEN Smaller(Len(b.data[f]), room(st.conns[f]))
                                            ELSE Len(b.data[f])]
  OBVIOUS
<1>4. PICK data : data = [f \in Flows |-> SubSeq(b.data[f], taken[f] + 1, Len(b.data[f]))]
  OBVIOUS
<1>5. PICK blocked : blocked = {f \in Flows : data[f] # <<>>}
  OBVIOUS
<1>6. PICK conns : conns = [f \in Flows |->
            IF st.conns[f].live
            THEN [st.conns[f] EXCEPT !.pending = @ \o SubSeq(b.data[f], 1, taken[f]),
                                     !.half_closed = @ \/ f \in b.close \ blocked]
            ELSE st.conns[f]]
  OBVIOUS
<1>7. r = [conns |-> conns,
           backlog |-> [data |-> data, close |-> b.close \cap blocked, blocked |-> blocked, bytes |-> Bytes(data)]]
  BY <1>1, <1>3, <1>4, <1>5, <1>6 DEF drain_backlog
<1>8. PICK e : e = [data |-> data, close |-> b.close \cap blocked, blocked |-> blocked, bytes |-> Bytes(data)]
  OBVIOUS
<1>9. r.conns = conns /\ r.backlog = e
  BY <1>7, <1>8
<1>10. e.data = data /\ e.close = b.close \cap blocked /\ e.blocked = blocked /\ e.bytes = Bytes(data)
  BY <1>8
<1>11. ASSUME NEW f \in Flows
       PROVE  Drained(st.conns[f], b.data[f], f \in b.close, conns[f], data[f])
  <2>1. st.conns[f] \in ConnType /\ b.data[f] \in Seq(Nat)
    BY <1>2
  <2>2. CASE ~st.conns[f].live
    <3>1. taken[f] = Len(b.data[f]) /\ conns[f] = st.conns[f]
      BY <1>3, <1>6, <2>2
    <3>2. PICK n : n = Len(b.data[f])
      OBVIOUS
    <3>3. data[f] = SubSeq(b.data[f], n + 1, Len(b.data[f])) /\ n \in Nat /\ n <= Len(b.data[f])
      <4>1. n \in Nat
        BY <2>1, <3>2, LenProperties
      <4>2. n <= Len(b.data[f])
        BY <3>2, <4>1
      <4> QED BY <1>4, <3>1, <3>2, <4>1, <4>2
    <3>4. data[f] \in Seq(Nat) /\ Len(data[f]) = Len(b.data[f]) - n
      BY <2>1, <3>3, RunsParts
    <3>5. data[f] = <<>>
      BY <3>2, <3>3, <3>4, EmptySeq
    <3> QED BY <2>1, <2>2, <3>1, <3>5, DrainGone
  <2>3. CASE st.conns[f].live
    <3>1. PICK n : n = taken[f]
      OBVIOUS
    <3>2. n = Smaller(Len(b.data[f]), room(st.conns[f])) /\ data[f] = SubSeq(b.data[f], n + 1, Len(b.data[f]))
      BY <1>3, <1>4, <2>3, <3>1
    <3>3. PICK h \in BOOLEAN : h = (f \in b.close \ blocked)
      <4>1. (f \in b.close \ blocked) \in BOOLEAN
        OBVIOUS
      <4> QED BY <4>1, Zenon
    <3>4. PICK s : s = SubSeq(b.data[f], 1, n)
      OBVIOUS
    <3>5. conns[f] = Feed(st.conns[f], s, st.conns[f].half_closed \/ h)
      BY <1>6, <2>1, <2>3, <3>1, <3>3, <3>4 DEF Feed
    <3>6. h => f \in b.close /\ data[f] = <<>>
      BY <1>5, <3>3
    <3>7. PICK k \in BOOLEAN : k = (f \in b.close)
      <4>1. (f \in b.close) \in BOOLEAN
        OBVIOUS
      <4> QED BY <4>1, Zenon
    <3>8. Drained(st.conns[f], b.data[f], k, conns[f], data[f])
      BY <2>1, <2>3, <3>2, <3>4, <3>5, <3>6, <3>7, DrainLive
    <3> QED BY <3>7, <3>8
  <2> QED BY <2>2, <2>3
<1>12. conns \in [Flows -> ConnType]
  <2>1. \A f \in Flows : conns[f] \in ConnType
    BY <1>11 DEF Drained
  <2> QED BY <1>6, <2>1
<1>13. data \in [Flows -> Seq(Nat)]
  <2>1. \A f \in Flows : data[f] \in Seq(Nat)
    BY <1>11 DEF Drained
  <2> QED BY <1>4, <2>1
<1>14. e \in BacklogType
  <2>1. Bytes(data) \in Nat
    BY <1>13, BytesFinite
  <2>2. blocked \in SUBSET Flows /\ b.close \cap blocked \in SUBSET Flows
    BY <1>2, <1>5
  <2> QED BY <1>8, <1>13, <2>1, <2>2 DEF BacklogType
<1>15. Accounted(e)
  BY <1>5, <1>10 DEF Accounted
<1> QED BY <1>1, <1>9, <1>10, <1>11, <1>12, <1>14, <1>15 DEF DrainedAll

\* A flow is reset while it lives.
Ends(x, z) ==
    /\ Over(x, z) /\ x.live /\ z.live /\ z.resp = x.resp /\ z.established = x.established
    /\ z.half_closed = x.half_closed /\ z.aborted = x.aborted
Dead(x) == NotDraining(x) \/ x.progressAge >= TCP_WEDGE_TIMEOUT

\* The flow x with D in the backlog is left alone, or loses D, and is reset if it lives.
Cut(x, D, z, E) ==
    \/ z = x /\ E = D
    \/ z = x /\ ~x.live /\ E = <<>>
    \/ Ends(x, z) /\ Dead(x) /\ E = <<>>

LEMMA CutTwice ==
    ASSUME NEW x, NEW D, NEW y, NEW E, NEW z, NEW F, Cut(x, D, y, E), Cut(y, E, z, F)
    PROVE  Cut(x, D, z, F)
<1>1. ASSUME Ends(x, y), Ends(y, z) PROVE Ends(x, z)
  BY <1>1 DEF Ends, Over
<1>2. ASSUME Ends(x, y) PROVE y.live
  BY <1>2 DEF Ends
<1>3. ASSUME Ends(y, z) PROVE y.live
  BY <1>3 DEF Ends
<1> QED BY <1>1, <1>2, <1>3 DEF Cut

\* ResetFlows, flow by flow.
CutAll(st, r) ==
    /\ r.conns \in [Flows -> ConnType] /\ r.backlog \in BacklogType /\ Accounted(r.backlog)
    /\ r.backlog.close \subseteq st.backlog.close
    /\ \A f \in Flows : NumbersInv(r.conns[f])
    /\ \A f \in Flows : Cut(st.conns[f], st.backlog.data[f], r.conns[f], r.backlog.data[f])

LEMMA ResetFlowsFacts ==
    ASSUME NEW st, st.conns \in [Flows -> ConnType], st.backlog \in BacklogType, Accounted(st.backlog),
           \A f \in Flows : NumbersInv(st.conns[f]),
           NEW fs \in SUBSET Flows, \A f \in fs : st.conns[f].live => Dead(st.conns[f]),
           NEW r, r = ResetFlows(st, fs)
    PROVE  CutAll(st, r)
<1>1. PICK b : b = st.backlog
  OBVIOUS
<1>2. b.data \in [Flows -> Seq(Nat)] /\ b.close \in SUBSET Flows /\ b.blocked \in SUBSET Flows
  BY <1>1 DEF BacklogType
<1>3. PICK data : data = [f \in Flows |-> IF f \in fs THEN <<>> ELSE b.data[f]]
  OBVIOUS
<1>4. PICK e : e = [data |-> data, close |-> b.close \ fs, blocked |-> b.blocked \ fs, bytes |-> Bytes(data)]
  OBVIOUS
<1>5. PICK conns : conns = [f \in Flows |-> IF f \in fs /\ st.conns[f].live THEN reset(st.conns[f])
                                                                          ELSE st.conns[f]]
  OBVIOUS
<1>6. r = [conns |-> conns, backlog |-> e]
  BY <1>1, <1>3, <1>4, <1>5 DEF ResetFlows, purge
<1>7. r.conns = conns /\ r.backlog = e
  BY <1>6
<1>8. e.data = data /\ e.close = b.close \ fs /\ e.blocked = b.blocked \ fs /\ e.bytes = Bytes(data)
  BY <1>4
<1>9. ASSUME NEW f \in Flows
      PROVE  Cut(st.conns[f], b.data[f], conns[f], data[f]) /\ conns[f] \in ConnType /\ NumbersInv(conns[f])
  <2>1. st.conns[f] \in ConnType /\ NumbersInv(st.conns[f])
    OBVIOUS
  <2>2. CASE f \notin fs
    BY <1>3, <1>5, <2>1, <2>2 DEF Cut
  <2>3. CASE f \in fs /\ ~st.conns[f].live
    BY <1>3, <1>5, <2>1, <2>3 DEF Cut
  <2>4. CASE f \in fs /\ st.conns[f].live
    <3>1. conns[f] = reset(st.conns[f]) /\ data[f] = <<>>
      BY <1>3, <1>5, <2>4
    <3>2. /\ Over(st.conns[f], conns[f]) /\ conns[f].live = st.conns[f].live
          /\ conns[f].resp = st.conns[f].resp /\ conns[f].established = st.conns[f].established
          /\ conns[f].half_closed = st.conns[f].half_closed /\ conns[f].aborted = st.conns[f].aborted
      BY <2>1, <3>1, ResetFacts
    <3>3. Ends(st.conns[f], conns[f])
      BY <2>4, <3>2 DEF Ends
    <3>4. Dead(st.conns[f])
      BY <2>4
    <3> QED BY <3>1, <3>2, <3>3, <3>4 DEF Cut, Over
  <2> QED BY <2>2, <2>3, <2>4
<1>10. conns \in [Flows -> ConnType]
  BY <1>5, <1>9
<1>11. data \in [Flows -> Seq(Nat)]
  BY <1>2, <1>3, EmptySeq
<1>12. e \in BacklogType
  <2>1. Bytes(data) \in Nat
    BY <1>11, BytesFinite
  <2>2. b.blocked \ fs \in SUBSET Flows /\ b.close \ fs \in SUBSET Flows
    BY <1>2
  <2> QED BY <1>4, <1>11, <2>1, <2>2 DEF BacklogType
<1>13. Accounted(e)
  <2>1. b.blocked = {f \in Flows : b.data[f] # <<>>} /\ b.close \subseteq b.blocked
    BY <1>1 DEF Accounted
  <2>2. e.blocked = {f \in Flows : data[f] # <<>>}
    BY <1>3, <1>8, <2>1
  <2>3. e.close \subseteq e.blocked
    BY <1>8, <2>1
  <2> QED BY <1>8, <2>2, <2>3 DEF Accounted
<1>14. e.close \subseteq b.close
  BY <1>8
<1> QED BY <1>1, <1>7, <1>8, <1>9, <1>10, <1>12, <1>13, <1>14 DEF CutAll

LEMMA ReapFacts ==
    ASSUME NEW st, st.conns \in [Flows -> ConnType], st.backlog \in BacklogType, Accounted(st.backlog),
           \A f \in Flows : NumbersInv(st.conns[f]),
           NEW r, r = reap_wedged(st)
    PROVE  CutAll(st, r)
<1>1. PICK fs : fs = {f \in Flows : NotDraining(st.conns[f])}
  OBVIOUS
<1>2. PICK m : m = ResetFlows(st, fs)
  OBVIOUS
<1>3. PICK gs : gs = {f \in Flows : Wedged(m, f)}
  OBVIOUS
<1>4. r = ResetFlows(m, gs)
  BY <1>1, <1>2, <1>3 DEF reap_wedged
<1>5. CutAll(st, m)
  <2>1. fs \in SUBSET Flows /\ \A f \in fs : st.conns[f].live => Dead(st.conns[f])
    BY <1>1 DEF Dead
  <2> QED BY <1>2, <2>1, ResetFlowsFacts
<1>6. CutAll(m, r)
  <2>1. gs \in SUBSET Flows /\ \A f \in gs : m.conns[f].live => Dead(m.conns[f])
    BY <1>3 DEF Wedged, Dead
  <2>2. /\ m.conns \in [Flows -> ConnType] /\ m.backlog \in BacklogType /\ Accounted(m.backlog)
        /\ \A f \in Flows : NumbersInv(m.conns[f])
    BY <1>5 DEF CutAll
  <2> QED BY <1>4, <2>1, <2>2, ResetFlowsFacts
<1>7. ASSUME NEW f \in Flows PROVE Cut(st.conns[f], st.backlog.data[f], r.conns[f], r.backlog.data[f])
  <2>1. Cut(st.conns[f], st.backlog.data[f], m.conns[f], m.backlog.data[f])
    BY <1>5 DEF CutAll
  <2>2. Cut(m.conns[f], m.backlog.data[f], r.conns[f], r.backlog.data[f])
    BY <1>6 DEF CutAll
  <2> QED BY <2>1, <2>2, CutTwice
<1>8. r.backlog.close \subseteq st.backlog.close
  BY <1>5, <1>6 DEF CutAll
<1> QED BY <1>6, <1>7, <1>8 DEF CutAll

\* Before its connect is answered a flow has no data.
LEMMA EarlyFlow == ASSUME StackInv, NEW f \in Flows PROVE Early(conn[f])
<1> SUFFICES ASSUME Sound(conn[f]), ~conn[f].established
             PROVE  conn[f].queue = 0 /\ conn[f].pending = <<>>
  BY DEF Early
<1>1. StackTypeOK /\ FlowInv(f)
  BY DEF StackInv
<1>2. /\ conn[f].sent \in Nat /\ conn[f].accepted_total \in Nat /\ conn[f].queue \in 0 .. TX_BUF
      /\ conn[f].pending \in Seq(Nat) /\ Len(conn[f].pending) \in Nat /\ Len(backlog.data[f]) \in Nat
      /\ InRelay(f) \in Nat
  BY <1>1, FlowNumbers
<1>3. conn[f].sent = 0
  BY <1>1 DEF FlowInv, LinkInv, Linked, Sound
<1>4. Reached(f) <= Given(f) /\ conn[f].queue <= conn[f].accepted_total
  BY <1>1 DEF FlowInv, ChainInv, NumbersInv
<1>5. conn[f].accepted_total + Len(conn[f].pending) + Len(backlog.data[f]) <= 0 - InRelay(f)
  BY <1>3, <1>4 DEF Reached, Given
<1>6. \A a, b, c, d \in Nat : a + b + c <= 0 - d => a = 0 /\ b = 0
  OBVIOUS
<1>7. conn[f].accepted_total = 0 /\ Len(conn[f].pending) = 0
  BY <1>2, <1>5, <1>6
<1>8. conn[f].queue \in Nat
  BY <1>2, Constants
<1>9. conn[f].queue = 0
  BY <1>4, <1>7, <1>8
<1> QED BY <1>2, <1>7, <1>9, EmptySeq

LEMMA ServiceFlow ==
    ASSUME StackInv, NEW f \in Flows, NEW budget \in MIN_FLOW_QUEUE_BYTES .. Ceiling,
           NEW s, s = service_tcp(conn[f], budget)
    PROVE  /\ Serves(conn[f], s) /\ (Sound(s) => Advances(conn[f], s))
           /\ Ages(s, aux[f].silent, FALSE) /\ Reaps(conn[f], s, aux[f].silent)
<1>1. StackTypeOK /\ FlowInv(f)
  BY DEF StackInv
<1>2. conn[f] \in ConnType /\ aux[f] \in AuxType
  BY <1>1, TypeParts
<1>3. NumbersInv(conn[f]) /\ Ages(conn[f], aux[f].silent, ticked) /\ Linked(conn[f], relay[f])
  BY <1>1 DEF FlowInv, LinkInv
<1>4. aux[f].silent \in Nat
  <2>1. aux[f].silent \in 0 .. TCP_DRAIN_STALL_TIMEOUT
    BY <1>2 DEF AuxType
  <2> QED BY <2>1, Durations
<1>5. /\ conn[f].resp = "waiting" => ~conn[f].established /\ ~conn[f].aborted
      /\ conn[f].listening => conn[f].resp = "ok"
      /\ conn[f].live /\ ~conn[f].established => conn[f].resp \in {"waiting", "given up"}
  BY <1>3 DEF Linked
<1> QED BY <1>2, <1>3, <1>4, <1>5, EarlyFlow, ServiceFacts

\* What a pass does to one flow.
Passed(f, s, x, D) ==
    /\ Serves(conn[f], s) /\ (Sound(s) => Advances(conn[f], s))
    /\ Ages(s, aux[f].silent, FALSE) /\ Reaps(conn[f], s, aux[f].silent)
    /\ Drained(s, backlog.data[f], f \in backlog.close, x, D)
    /\ Cut(x, D, conn'[f], backlog'.data[f])
PassedAll ==
    /\ conn' \in [Flows -> ConnType] /\ backlog' \in BacklogType /\ Accounted(backlog')
    /\ backlog'.close \subseteq backlog.close
    /\ \A f \in Flows : NumbersInv(conn'[f]) /\ \E s, x, D : Passed(f, s, x, D)

LEMMA PassFacts == ASSUME StackInv, Pass PROVE PassedAll
<1>1. PICK budget \in [Flows -> MIN_FLOW_QUEUE_BYTES .. Ceiling] :
        LET served == [f \in Flows |-> service_tcp(conn[f], budget[f])]
            s == reap_wedged(drain_backlog([conns |-> served, backlog |-> backlog]))
        IN conn' = s.conns /\ backlog' = s.backlog
  BY DEF Pass
<1>2. PICK served : served = [f \in Flows |-> service_tcp(conn[f], budget[f])]
  OBVIOUS
<1>3. PICK st : st = [conns |-> served, backlog |-> backlog]
  OBVIOUS
<1>4. PICK d : d = drain_backlog(st)
  OBVIOUS
<1>5. PICK r : r = reap_wedged(d)
  OBVIOUS
<1>6. conn' = r.conns /\ backlog' = r.backlog
  BY <1>1, <1>2, <1>3, <1>4, <1>5
<1>7. st.conns = served /\ st.backlog = backlog
  BY <1>3
<1>8. ASSUME NEW f \in Flows
      PROVE  /\ Serves(conn[f], served[f]) /\ (Sound(served[f]) => Advances(conn[f], served[f]))
             /\ Ages(served[f], aux[f].silent, FALSE) /\ Reaps(conn[f], served[f], aux[f].silent)
  <2>1. served[f] = service_tcp(conn[f], budget[f]) /\ budget[f] \in MIN_FLOW_QUEUE_BYTES .. Ceiling
    BY <1>2
  <2> QED BY <2>1, ServiceFlow
<1>9. served \in [Flows -> ConnType]
  <2>1. \A f \in Flows : served[f] \in ConnType
    BY <1>8 DEF Serves
  <2> QED BY <1>2, <2>1
<1>10. backlog \in BacklogType
  BY DEF StackInv, StackTypeOK
<1>11. DrainedAll(st, d)
  BY <1>4, <1>7, <1>9, <1>10, DrainFacts
<1>12. /\ d.conns \in [Flows -> ConnType] /\ d.backlog \in BacklogType /\ Accounted(d.backlog)
       /\ d.backlog.close \subseteq backlog.close
       /\ \A f \in Flows : Drained(served[f], backlog.data[f], f \in backlog.close, d.conns[f], d.backlog.data[f])
  BY <1>7, <1>11 DEF DrainedAll
<1>13. \A f \in Flows : NumbersInv(d.conns[f])
  <2> SUFFICES ASSUME NEW f \in Flows PROVE NumbersInv(d.conns[f])
    OBVIOUS
  <2>1. NumbersInv(served[f]) /\ Fed(served[f], d.conns[f])
    BY <1>8, <1>12 DEF Serves, Drained
  <2> QED BY <2>1, FedFacts
<1>14. CutAll(d, r)
  BY <1>5, <1>12, <1>13, ReapFacts
<1>15. /\ r.conns \in [Flows -> ConnType] /\ r.backlog \in BacklogType /\ Accounted(r.backlog)
       /\ r.backlog.close \subseteq d.backlog.close
       /\ \A f \in Flows : NumbersInv(r.conns[f])
       /\ \A f \in Flows : Cut(d.conns[f], d.backlog.data[f], r.conns[f], r.backlog.data[f])
  BY <1>14 DEF CutAll
<1>16. ASSUME NEW f \in Flows PROVE Passed(f, served[f], d.conns[f], d.backlog.data[f])
  BY <1>6, <1>8, <1>12, <1>15 DEF Passed
<1>17. backlog'.close \subseteq backlog.close
  BY <1>6, <1>12, <1>15
<1>18. \A f \in Flows : \E s, x, D : Passed(f, s, x, D)
  BY <1>16
<1> QED BY <1>6, <1>15, <1>17, <1>18 DEF PassedAll

\* What every flow keeps through a pass, living or not.
LEMMA PassedPorts ==
    ASSUME NEW f \in Flows, NEW s, NEW x, NEW D, Passed(f, s, x, D)
    PROVE  /\ conn'[f].live = s.live /\ conn'[f].resp = s.resp /\ conn'[f].established = s.established
           /\ conn'[f].aborted = s.aborted /\ conn'[f].listening = s.listening /\ conn'[f].sent = s.sent
           /\ s.closed => conn'[f].closed
           /\ conn'[f].half_closed => s.half_closed \/ (f \in backlog.close /\ D = <<>>)
           /\ D = <<>> => backlog'.data[f] = <<>>
           /\ ~conn'[f].closed \/ ~s.live => conn'[f] = x
           /\ Sound(conn'[f]) => backlog'.data[f] = D
<1>1. Fed(s, x) /\ (x.half_closed => s.half_closed \/ (f \in backlog.close /\ D = <<>>))
  BY DEF Passed, Drained
<1>2. /\ x.live = s.live /\ x.resp = s.resp /\ x.established = s.established
      /\ x.aborted = s.aborted /\ x.listening = s.listening /\ x.sent = s.sent /\ x.closed = s.closed
  BY <1>1 DEF Fed
<1>3. Cut(x, D, conn'[f], backlog'.data[f])
  BY DEF Passed
<1>4. CASE conn'[f] = x /\ backlog'.data[f] = D
  BY <1>1, <1>2, <1>4
<1>5. CASE conn'[f] = x /\ ~x.live /\ backlog'.data[f] = <<>>
  BY <1>1, <1>2, <1>5 DEF Sound
<1>6. CASE Ends(x, conn'[f]) /\ backlog'.data[f] = <<>>
  <2>1. /\ conn'[f].live = x.live /\ conn'[f].resp = x.resp /\ conn'[f].established = x.established
        /\ conn'[f].aborted = x.aborted /\ conn'[f].listening = x.listening /\ conn'[f].sent = x.sent
        /\ conn'[f].closed /\ conn'[f].half_closed = x.half_closed /\ x.live
    BY <1>6 DEF Ends, Over
  <2> QED BY <1>1, <1>2, <1>6, <2>1 DEF Sound
<1> QED BY <1>3, <1>4, <1>5, <1>6 DEF Cut

LEMMA PassChannel == ASSUME StackInv, Pass PROVE ClosesAdded(Unclaimed) /\ Unclaimed \in SUBSET Flows
<1>1. ChannelOK(data_in)
  BY TypeParts DEF StackInv
<1>2. Len(data_in) \in Nat /\ Len(data_in) <= CHANNEL
  BY <1>1, ChannelElements DEF ChannelOK
<1>3. PICK G : G = Unclaimed
  OBVIOUS
<1>4. G \in SUBSET Flows
  BY <1>3 DEF Unclaimed
<1>5. IsFiniteSet(G)
  BY <1>4, StackAssumption, FS_Subset
<1>6. PICK k : k = Cardinality(G)
  OBVIOUS
<1>7. k \in Nat
  BY <1>5, <1>6, FS_CardinalityType
<1>8. PICK order \in [1 .. k -> G] :
        data_in' = data_in \o [i \in 1 .. Smaller(Len(order), CHANNEL - Len(data_in)) |-> TcpClose(order[i])]
  BY <1>3, <1>6 DEF Pass
<1>9. Len(order) = k
  <2>1. order \in Seq(G)
    BY <1>7, <1>8, SeqDef
  <2>2. DOMAIN order = 1 .. k
    BY <1>8
  <2> QED BY <1>7, <2>1, <2>2, LenProperties
<1>10. PICK n : n = Smaller(Len(order), CHANNEL - Len(data_in))
  OBVIOUS
<1>11. n \in Nat /\ n <= k /\ Len(data_in) + n <= CHANNEL
  BY <1>2, <1>7, <1>9, <1>10, Constants DEF Smaller
<1>12. PICK t : t = [i \in 1 .. n |-> order[i]]
  OBVIOUS
<1>13. t \in [1 .. n -> G]
  BY <1>7, <1>8, <1>11, <1>12
<1>14. data_in' = data_in \o [i \in 1 .. n |-> TcpClose(t[i])]
  <2>1. [i \in 1 .. n |-> TcpClose(t[i])] = [i \in 1 .. n |-> TcpClose(order[i])]
    BY <1>12
  <2> QED BY <1>8, <1>10, <2>1
<1>15. ClosesAdded(G)
  BY <1>1, <1>4, <1>11, <1>13, <1>14, AddedConcat
<1> QED BY <1>3, <1>4, <1>15

\* The bytes that wait for the socket: the same, though some have moved.
LEMMA PassBuffer ==
    ASSUME StackInv, NEW f \in Flows, NEW s, NEW x, NEW D, Passed(f, s, x, D), Sound(conn'[f]), Sound(conn[f])
    PROVE  BufferInv(f)' /\ Reached(f)' = Reached(f)
<1>1. StackTypeOK /\ FlowInv(f)
  BY DEF StackInv
<1>2. /\ conn[f].accepted_total \in Nat /\ conn[f].pending \in Seq(Nat) /\ Len(conn[f].pending) \in Nat
      /\ backlog.data[f] \in Seq(Nat) /\ Len(backlog.data[f]) \in Nat
  BY <1>1, FlowNumbers
<1>3. conn'[f] = x /\ backlog'.data[f] = D /\ s.live /\ Sound(s)
  BY PassedPorts DEF Sound
<1>4. Takes(conn[f], s)
  BY <1>3 DEF Passed, Advances
<1>5. PICK n \in 0 .. Len(conn[f].pending) :
        /\ s.accepted_total = conn[f].accepted_total + n
        /\ s.pending = SubSeq(conn[f].pending, n + 1, Len(conn[f].pending))
  BY <1>4 DEF Takes
<1>6. PICK a \in Nat : a = conn[f].accepted_total + n
  BY <1>2, <1>5
<1>7. BufferInv(f)
  BY <1>1 DEF FlowInv
<1>8. n \in Nat /\ n <= Len(conn[f].pending)
  BY <1>2, <1>5
<1>9. Len(s.pending) = Len(conn[f].pending) - n /\ Runs(s.pending, a)
  <2>1. Runs(conn[f].pending, conn[f].accepted_total)
    BY <1>7 DEF BufferInv
  <2> QED BY <1>2, <1>5, <1>6, <1>8, <2>1, RunsParts
<1>10. a + Len(s.pending) = conn[f].accepted_total + Len(conn[f].pending)
  <2>1. \A i, j \in Nat : (i + n) + (j - n) = i + j
    BY <1>8
  <2> QED BY <1>2, <1>6, <1>9, <2>1
<1>11. Runs(backlog.data[f], a + Len(s.pending))
  BY <1>7, <1>10 DEF BufferInv
<1>12. /\ Fed(s, x) /\ D \in Seq(Nat) /\ x \in ConnType
       /\ Len(x.pending) + Len(D) = Len(s.pending) + Len(backlog.data[f])
       /\ Runs(x.pending, a) /\ Runs(D, a + Len(x.pending))
  <2>1. Drained(s, backlog.data[f], f \in backlog.close, x, D)
    BY DEF Passed
  <2> QED BY <1>3, <1>9, <1>11, <2>1 DEF Drained
<1>13. x.accepted_total = a
  BY <1>5, <1>6, <1>12 DEF Fed
<1>14. BufferInv(f)'
  BY <1>3, <1>12, <1>13 DEF BufferInv
<1>15. Reached(f)' = a + Len(x.pending) + Len(D)
  BY <1>3, <1>13 DEF Reached
<1>16. Len(x.pending) \in Nat /\ Len(D) \in Nat /\ Len(s.pending) \in Nat
  <2>1. x.pending \in Upto(Nat, max_tcp_pending)
    BY <1>12 DEF ConnType
  <2>2. x.pending \in Seq(Nat)
    BY <2>1 DEF Upto
  <2> QED BY <1>2, <1>8, <1>9, <1>12, <2>2, LenProperties
<1>17. Reached(f)' = (a + Len(s.pending)) + Len(backlog.data[f])
  <2>1. PICK i, j, k, l : i = Len(x.pending) /\ j = Len(D) /\ k = Len(s.pending) /\ l = Len(backlog.data[f])
    OBVIOUS
  <2>2. i \in Nat /\ j \in Nat /\ k \in Nat /\ l \in Nat /\ i + j = k + l
    BY <1>2, <1>12, <1>16, <2>1
  <2>4. a + i + j = (a + k) + l
    BY <2>2
  <2>3. a + Len(x.pending) + Len(D) = (a + Len(s.pending)) + Len(backlog.data[f])
    BY <2>1, <2>4
  <2> QED BY <1>15, <2>3
<1>18. Reached(f)' = Reached(f)
  BY <1>10, <1>17 DEF Reached
<1> QED BY <1>14, <1>18

\* A flow that still uses its half of the connection has not closed it behind its data.
LEMMA PassFin ==
    ASSUME StackInv, NEW f \in Flows, NEW s, NEW x, NEW D, Passed(f, s, x, D)
    PROVE  FinInv(conn'[f])
<1> SUFFICES ASSUME Sound(conn'[f]), conn'[f].listening, conn'[f].state \in Fins
             PROVE  conn'[f].half_closed /\ conn'[f].pending = <<>>
  BY DEF FinInv
<1>1. conn'[f] = x /\ s.live /\ Sound(s)
  BY PassedPorts DEF Sound
<1>2. Fed(s, x) /\ (backlog.data[f] = <<>> => x.pending = s.pending)
  BY DEF Passed, Drained
<1>3. s.listening /\ s.state \in Fins /\ (s.half_closed => x.half_closed)
  BY <1>1, <1>2 DEF Fed
<1>4. Advances(conn[f], s) /\ Serves(conn[f], s)
  BY <1>1 DEF Passed
<1>5. StackTypeOK /\ FlowInv(f) /\ BacklogInv
  BY DEF StackInv
<1>6. s.half_closed /\ s.pending = <<>>
  <2>1. CASE conn[f].listening /\ conn[f].state \in Fins
    <3>1. Sound(conn[f])
      BY <1>1, <1>4 DEF Serves, Sound
    <3>2. conn[f].half_closed /\ conn[f].pending = <<>>
      BY <1>5, <2>1, <3>1 DEF FlowInv, FinInv
    <3>3. s.half_closed
      BY <1>4, <3>2 DEF Advances
    <3>4. PICK n \in 0 .. Len(conn[f].pending) : s.pending = SubSeq(conn[f].pending, n + 1, Len(conn[f].pending))
      BY <1>4 DEF Advances, Takes
    <3>5. Len(conn[f].pending) = 0 /\ conn[f].pending \in Seq(Nat)
      BY <1>5, <3>2, FlowNumbers, EmptySeq
    <3>6. n = 0
      BY <3>4, <3>5
    <3>7. n \in Nat /\ n <= Len(conn[f].pending)
      BY <3>5, <3>6
    <3>8. s.pending \in Seq(Nat) /\ Len(s.pending) = Len(conn[f].pending) - n
      BY <3>4, <3>5, <3>7, RunsParts
    <3>9. Len(s.pending) = 0
      BY <3>5, <3>6, <3>8
    <3> QED BY <3>3, <3>8, <3>9, EmptySeq
  <2>2. CASE ~(conn[f].listening /\ conn[f].state \in Fins)
    BY <1>3, <1>4, <2>2 DEF Advances
  <2> QED BY <2>1, <2>2
<1>7. conn[f].half_closed
  BY <1>4, <1>6 DEF Serves
<1>8. backlog.data[f] = <<>>
  <2>1. f \notin backlog.blocked
    BY <1>5, <1>7 DEF FlowInv, CloseInv
  <2> QED BY <1>5, <2>1 DEF BacklogInv
<1> QED BY <1>1, <1>2, <1>3, <1>6, <1>8

LEMMA PassLinked ==
    ASSUME StackInv, NEW f \in Flows, NEW s, NEW x, NEW D, Passed(f, s, x, D)
    PROVE  Linked(conn'[f], relay[f])
<1>1. Linked(conn[f], relay[f])
  BY DEF StackInv, FlowInv, LinkInv
<1>2. Serves(conn[f], s)
  BY DEF Passed
<1>3. Linked(s, relay[f])
  <2>1. s.resp = "waiting" => relay[f].up = "connecting" /\ s.live /\ ~s.established /\ ~s.aborted
    BY <1>1, <1>2 DEF Serves, Linked
  <2>2. s.resp = "given up" => relay[f].up = "off"
    BY <1>1, <1>2 DEF Serves, Linked
  <2>3. s.listening => s.resp = "ok" /\ relay[f].up \notin {"idle", "off"}
    BY <1>1, <1>2 DEF Serves, Linked
  <2>4. s.live /\ ~s.established => s.resp \in {"waiting", "given up"} /\ s.sent = 0
    BY <1>1, <1>2 DEF Serves, Linked
  <2>5. s.sent = conn[f].sent
    BY <1>2 DEF Serves
  <2>6. /\ relay[f].up \in {"reserving", "sending"} => relay[f].len = Chunk
        /\ relay[f].up = "sending" => relay[f].len <= s.sent
    BY <1>1, <2>5 DEF Linked
  <2> QED BY <2>1, <2>2, <2>3, <2>4, <2>6 DEF Linked
<1>4. /\ conn'[f].live = s.live /\ conn'[f].resp = s.resp /\ conn'[f].established = s.established
      /\ conn'[f].aborted = s.aborted /\ conn'[f].listening = s.listening /\ conn'[f].sent = s.sent
  BY PassedPorts
<1> QED BY <1>3, <1>4 DEF Linked

LEMMA PassLink ==
    ASSUME StackInv, Pass, NEW f \in Flows, NEW s, NEW x, NEW D, Passed(f, s, x, D), Accounted(backlog')
    PROVE  LinkInv(f)'
<1>1. Linked(conn'[f], relay[f]) /\ relay' = relay
  BY PassLinked DEF Pass
<1>2. ASSUME relay[f].up = "idle"
      PROVE  conn'[f] = Blank /\ f \notin backlog'.blocked /\ Chunks(f)' = {} /\ Closes(f)' = {}
  <2>1. conn[f] = Blank /\ f \notin backlog.blocked /\ Chunks(f) = {} /\ Closes(f) = {}
    BY <1>2 DEF StackInv, FlowInv, LinkInv
  <2>2. ~conn[f].live
    BY <2>1 DEF Blank
  <2>3. s = conn[f]
    BY <2>2 DEF Passed, Serves
  <2>4. x = s /\ (backlog.data[f] = <<>> => D = <<>>)
    BY <2>2, <2>3 DEF Passed, Drained
  <2>5. conn'[f] = x /\ (D = <<>> => backlog'.data[f] = <<>>)
    BY <2>2, <2>3, PassedPorts
  <2>6. backlog.data[f] = <<>>
    BY <2>1 DEF StackInv, BacklogInv
  <2>7. f \notin backlog'.blocked
    BY <2>4, <2>5, <2>6 DEF Accounted
  <2>8. f \notin Unclaimed
    BY <2>2 DEF Unclaimed
  <2>9. Chunks(f)' = {} /\ Closes(f)' = {}
    BY <2>1, <2>8, PassChannel, TypeParts, AddedFacts DEF StackInv
  <2> QED BY <2>1, <2>3, <2>4, <2>5, <2>7, <2>9
<1> QED BY <1>1, <1>2 DEF LinkInv

LEMMA PassCredit ==
    ASSUME StackInv, NEW f \in Flows, NEW s, NEW x, NEW D, Passed(f, s, x, D), conn'[f] \in ConnType,
           aux'[f].forced = aux[f].forced
    PROVE  CreditInv(f)'
<1> SUFFICES ASSUME ~conn'[f].closed, ~aux'[f].forced
             PROVE  conn'[f].sent - conn'[f].acked <= Larger(Chunk, Ceiling)
  BY DEF CreditInv
<1>1. conn'[f] = x /\ ~s.closed /\ conn'[f].sent = s.sent /\ conn'[f].live = s.live
  BY PassedPorts
<1>2. Serves(conn[f], s) /\ Fed(s, x)
  BY DEF Passed, Drained
<1>3. x.acked = s.acked /\ s.sent = conn[f].sent /\ ~conn[f].closed
  BY <1>1, <1>2 DEF Fed, Serves
<1>4. conn[f].acked <= s.acked
  <2>1. CASE s.live
    BY <1>1, <2>1 DEF Passed, Advances, Sound
  <2>2. CASE ~s.live
    <3>1. s = conn[f]
      BY <1>1, <1>2, <2>2 DEF Serves
    <3>2. conn[f].acked \in Nat
      BY FlowNumbers DEF StackInv
    <3> QED BY <3>1, <3>2
  <2> QED BY <2>1, <2>2
<1>5. conn[f].sent - conn[f].acked <= Larger(Chunk, Ceiling)
  BY <1>3 DEF StackInv, FlowInv, CreditInv
<1>6. conn[f].sent \in Nat /\ conn[f].acked \in Nat
  BY FlowNumbers DEF StackInv
<1>7. s.acked \in Nat
  <2>1. conn'[f].acked \in Nat
    BY DEF ConnType
  <2> QED BY <1>1, <1>3, <2>1
<1>8. \A a, b, c, d \in Nat : a - b <= d /\ b <= c => a - c <= d
  OBVIOUS
<1>9. conn[f].sent - s.acked <= Larger(Chunk, Ceiling)
  BY <1>4, <1>5, <1>6, <1>7, <1>8, Capacities
<1> QED BY <1>1, <1>3, <1>9

LEMMA PassClose ==
    ASSUME StackInv, Pass, NEW f \in Flows, NEW s, NEW x, NEW D, Passed(f, s, x, D), Accounted(backlog'),
           backlog'.close \subseteq backlog.close
    PROVE  CloseInv(f)'
<1>1. /\ Chunks(f)' = Chunks(f)
      /\ \A i \in Closes(f)' : i \in Closes(f) \/ (f \in Unclaimed /\ \A j \in Chunks(f) : j < i)
  BY PassChannel, TypeParts, AddedFacts DEF StackInv
<1>2. CloseInv(f) /\ relay' = relay /\ Linked(conn[f], relay[f]) /\ BacklogInv
  BY DEF StackInv, FlowInv, LinkInv, Pass
<1>3. f \in Unclaimed => relay[f].up = "off"
  BY <1>2 DEF Unclaimed, Linked
<1>4. conn'[f].half_closed => conn[f].half_closed \/ (f \in backlog.close /\ D = <<>>)
  <2>1. s.half_closed => conn[f].half_closed
    BY DEF Passed, Serves
  <2> QED BY <2>1, PassedPorts
<1>5. /\ D = <<>> => f \notin backlog'.blocked
      /\ backlog.data[f] = <<>> => D = <<>>
  <2>1. D = <<>> => backlog'.data[f] = <<>>
    BY PassedPorts
  <2>2. Drained(s, backlog.data[f], f \in backlog.close, x, D)
    BY DEF Passed
  <2>3. backlog.data[f] = <<>> => D = <<>>
    BY <2>2 DEF Drained
  <2> QED BY <2>1, <2>3 DEF Accounted
<1>6. Closes(f)' # {} \/ f \in backlog'.close \/ conn'[f].half_closed => relay'[f].up \in {"ended", "off"}
  BY <1>1, <1>2, <1>3, <1>4 DEF CloseInv
<1>7. \A i \in Closes(f)', j \in Chunks(f)' : j < i
  BY <1>1, <1>2 DEF CloseInv
<1>8. f \in backlog'.close => Chunks(f)' = {}
  BY <1>1, <1>2 DEF CloseInv
<1>9. conn'[f].half_closed => Chunks(f)' = {} /\ f \notin backlog'.blocked
  <2>1. CASE conn[f].half_closed
    <3>1. Chunks(f) = {} /\ f \notin backlog.blocked
      BY <1>2, <2>1 DEF CloseInv
    <3>2. backlog.data[f] = <<>>
      BY <1>2, <3>1 DEF BacklogInv
    <3> QED BY <1>1, <1>5, <3>1, <3>2
  <2>2. CASE f \in backlog.close /\ D = <<>>
    BY <1>1, <1>2, <1>5, <2>2 DEF CloseInv
  <2> QED BY <1>4, <2>1, <2>2
<1> QED BY <1>6, <1>7, <1>8, <1>9 DEF CloseInv

LEMMA PassFlow ==
    ASSUME StackInv, Pass, NEW f \in Flows, NEW s, NEW x, NEW D, Passed(f, s, x, D), Accounted(backlog'),
           backlog'.close \subseteq backlog.close, conn'[f] \in ConnType, NumbersInv(conn'[f]),
           aux'[f].forced = aux[f].forced, aux'[f].silent = aux[f].silent
    PROVE  FlowInv(f)'
<1>1. StackTypeOK /\ FlowInv(f) /\ relay' = relay /\ ticked' = FALSE
  BY DEF StackInv, Pass
<1>2. CloseInv(f)' /\ CreditInv(f)' /\ LinkInv(f)' /\ FinInv(conn'[f])
  BY PassClose, PassCredit, PassLink, PassFin
<1>3. Ages(conn'[f], aux'[f].silent, ticked')
  <2>1. ASSUME Sound(conn'[f]) PROVE Ages(conn'[f], aux'[f].silent, ticked')
    <3>1. conn'[f] = x
      BY <2>1, PassedPorts DEF Sound
    <3>2. Ages(s, aux[f].silent, FALSE) /\ Fed(s, x)
      BY DEF Passed, Drained
    <3> QED BY <1>1, <3>1, <3>2, FedFacts
  <2> QED BY <2>1 DEF Ages
<1>4. ASSUME Sound(conn'[f]) PROVE BufferInv(f)' /\ ChainInv(f)'
  <2>1. Sound(conn[f])
    <3>1. Sound(s)
      BY <1>4, PassedPorts DEF Sound
    <3> QED BY <3>1 DEF Passed, Serves, Sound
  <2>2. BufferInv(f)' /\ Reached(f)' = Reached(f)
    BY <1>4, <2>1, PassBuffer
  <2>3. ChainInv(f)
    BY <1>1, <2>1 DEF FlowInv
  <2>4. conn'[f].sent = conn[f].sent
    BY PassedPorts DEF Passed, Serves
  <2>5. Given(f)' = Given(f) /\ relay'[f] = relay[f]
    BY <1>1, <2>4 DEF Given, InRelay
  <2>6. Chunks(f)' = Chunks(f) /\ \A i \in Chunks(f) : data_in'[i] = data_in[i]
    BY <1>1, PassChannel, TypeParts, AddedFacts
  <2>7. /\ \A i \in Chunks(f) : data_in[i].hi \in Nat
        /\ Reached(f) \in Int /\ Given(f) \in Int
    BY <1>1, TypeParts, ChannelElements, FlowNumbers DEF Chunks
  <2>8. Given(f) <= Given(f)' /\ Given(f)' \in Int
    BY <2>5, <2>7
  <2>9. ChainInv(f)'
    BY <2>2, <2>3, <2>5, <2>6, <2>7, <2>8, ChainKept
  <2> QED BY <2>2, <2>9
<1> QED BY <1>2, <1>3, <1>4 DEF FlowInv

LEMMA PassInv == ASSUME StackInv, Pass PROVE StackInv'
<1>1. PassedAll
  BY PassFacts
<1>2. /\ conn' \in [Flows -> ConnType] /\ backlog' \in BacklogType /\ Accounted(backlog')
      /\ backlog'.close \subseteq backlog.close
      /\ \A f \in Flows : NumbersInv(conn'[f]) /\ \E s, x, D : Passed(f, s, x, D)
  BY <1>1 DEF PassedAll
<1>3. /\ StackTypeOK /\ relay' = relay /\ ticked' = FALSE /\ phase' = "queues" /\ moved' = FALSE
      /\ aux \in [Flows -> AuxType] /\ relay \in [Flows -> RelayType]
  BY DEF StackInv, Pass, StackTypeOK
<1>4. /\ aux' \in [Flows -> AuxType]
      /\ \A f \in Flows : aux'[f].forced = aux[f].forced /\ aux'[f].silent = aux[f].silent
  <2>1. aux' = [f \in Flows |-> [aux[f] EXCEPT !.reset = @ \/ ResetBy(conn[f], conn'[f])]]
    BY DEF Pass
  <2>2. ASSUME NEW f \in Flows
        PROVE  aux'[f] \in AuxType /\ aux'[f].forced = aux[f].forced /\ aux'[f].silent = aux[f].silent
    <3>1. PICK b : b = (aux[f].reset \/ ResetBy(conn[f], conn'[f]))
      OBVIOUS
    <3>2. aux[f] \in AuxType /\ b \in BOOLEAN
      BY <1>3, <3>1
    <3>3. aux'[f] = [aux[f] EXCEPT !.reset = b]
      BY <2>1, <3>1
    <3> QED BY <3>2, <3>3 DEF AuxType
  <2> QED BY <2>1, <2>2
<1>5. \A f \in Flows : FlowInv(f)'
  <2> SUFFICES ASSUME NEW f \in Flows PROVE FlowInv(f)'
    OBVIOUS
  <2>1. PICK s, x, D : Passed(f, s, x, D)
    BY <1>2
  <2>2. conn'[f] \in ConnType /\ NumbersInv(conn'[f])
    BY <1>2
  <2> QED BY <1>2, <1>4, <2>1, <2>2, PassFlow
<1>6. StackTypeOK'
  <2>1. ChannelOK(data_in')
    BY PassChannel DEF ClosesAdded
  <2>2. /\ data_in' \in Seq([id : Flows, lo : Nat, hi : Nat]) /\ Len(data_in') <= CHANNEL
        /\ \A i \in DOMAIN data_in' : data_in'[i].hi - data_in'[i].lo \in 0 .. Chunk
    BY <2>1 DEF ChannelOK, Msg
  <2> QED BY <1>2, <1>3, <1>4, <2>2 DEF StackTypeOK
<1>7. BacklogInv'
  <2>1. backlog.data \in [Flows -> Seq(Nat)] /\ backlog'.data \in [Flows -> Seq(Nat)]
    BY <1>2, <1>3, TypeParts DEF BacklogType
  <2>2. ASSUME NEW f \in Flows
        PROVE  Len(backlog'.data[f]) <= Len(backlog.data[f]) /\ (backlog.data[f] = <<>> => backlog'.data[f] = <<>>)
               /\ (conn[f].closed => conn'[f].closed)
    <3>1. PICK s, x, D : Passed(f, s, x, D)
      BY <1>2
    <3>2. Len(D) <= Len(backlog.data[f]) /\ (backlog.data[f] = <<>> => D = <<>>) /\ (conn[f].closed => s.closed)
      BY <3>1 DEF Passed, Drained, Serves
    <3>3. backlog'.data[f] = D \/ backlog'.data[f] = <<>>
      BY <3>1 DEF Passed, Cut
    <3>4. Len(<<>>) <= Len(backlog.data[f])
      <4>1. backlog.data[f] \in Seq(Nat)
        BY <2>1
      <4>2. Len(backlog.data[f]) \in Nat /\ Len(<<>>) = 0
        BY <4>1, LenProperties, EmptySeq
      <4> QED BY <4>2
    <3>5. s.closed => conn'[f].closed
      BY <3>1, PassedPorts
    <3> QED BY <3>2, <3>3, <3>4, <3>5
  <2>3. Bytes(backlog'.data) <= Bytes(backlog.data)
    BY <2>1, <2>2, BytesLess
  <2>4. backlog.bytes = Bytes(backlog.data) /\ backlog'.bytes = Bytes(backlog'.data)
    BY <1>2 DEF StackInv, BacklogInv, Accounted
  <2>5. Bytes(backlog'.data) \in Nat /\ Bytes(backlog.data) \in Nat
    BY <2>1, BytesFinite
  <2>6. backlog.bytes < MAX_BACKLOG_BYTES + Chunk
    BY DEF StackInv, BacklogInv
  <2>7. backlog'.bytes < MAX_BACKLOG_BYTES + Chunk
    BY <2>3, <2>4, <2>5, <2>6, Constants
  <2>8. ASSUME NEW f \in backlog'.blocked PROVE aux'[f].forced \/ conn'[f].closed
    <3>1. f \in Flows /\ backlog'.data[f] # <<>>
      BY <1>2, <2>8 DEF Accounted
    <3>2. f \in backlog.blocked
      BY <2>2, <3>1 DEF StackInv, BacklogInv
    <3>3. aux[f].forced \/ conn[f].closed
      BY <3>2 DEF StackInv, BacklogInv
    <3> QED BY <1>4, <2>2, <3>1, <3>3
  <2> QED BY <1>2, <2>7, <2>8 DEF BacklogInv, Accounted
<1> QED BY <1>5, <1>6, <1>7 DEF StackInv

-----------------------------------------------------------------------------
(* The invariant holds always.                                                *)
LEMMA StackInitInv == ASSUME StackInit PROVE StackInv
<1>1. /\ \A f \in Flows : conn[f] = Blank /\ relay[f] = Idle /\ aux[f] = Untouched
      /\ conn = [f \in Flows |-> Blank] /\ relay = [f \in Flows |-> Idle] /\ aux = [f \in Flows |-> Untouched]
      /\ data_in = <<>> /\ backlog = EmptyBacklog /\ phase = "poll" /\ moved = FALSE /\ ticked = FALSE
  BY DEF StackInit
<1>2. /\ backlog.data = [f \in Flows |-> <<>>] /\ backlog.close = {} /\ backlog.blocked = {} /\ backlog.bytes = 0
      /\ \A f \in Flows : backlog.data[f] = <<>>
  BY <1>1 DEF EmptyBacklog
<1>3. backlog.data \in [Flows -> Seq(Nat)] /\ Bytes(backlog.data) = 0
  BY <1>2, BytesNone
<1>4. StackTypeOK
  <2>1. Idle \in RelayType
    <3>1. 0 \in 0 .. Chunk /\ 0 \in 0 .. CREDIT_WAIT_MAX /\ 0 \in 0 .. HALF_CLOSE_LINGER
      BY Constants, Durations
    <3>2. "idle" \in {"idle", "connecting", "off"} \cup Running
      OBVIOUS
    <3> QED BY <3>1, <3>2 DEF Idle, RelayType
  <2>2. Untouched \in AuxType
    <3>1. 0 \in 0 .. TCP_DRAIN_STALL_TIMEOUT
      BY Durations
    <3> QED BY <3>1 DEF Untouched, AuxType
  <2>3. backlog \in BacklogType
    BY <1>1, <1>2, <1>3 DEF EmptyBacklog, BacklogType
  <2>4. data_in \in Seq([id : Flows, lo : Nat, hi : Nat]) /\ Len(data_in) <= CHANNEL /\ DOMAIN data_in = {}
    BY <1>1, EmptySeq, Constants
  <2>5. conn \in [Flows -> ConnType] /\ relay \in [Flows -> RelayType] /\ aux \in [Flows -> AuxType]
    BY <1>1, <2>1, <2>2, BlankType
  <2> QED BY <1>1, <2>3, <2>4, <2>5 DEF StackTypeOK
<1>5. BacklogInv
  BY <1>2, <1>3, Constants DEF BacklogInv
<1>6. ASSUME NEW f \in Flows PROVE FlowInv(f)
  <2>1. Chunks(f) = {} /\ Closes(f) = {}
    BY <1>1 DEF Chunks, Closes
  <2>2. /\ ~Blank.live /\ ~Blank.half_closed /\ ~Blank.listening /\ Blank.resp = "none"
        /\ Blank.sent = 0 /\ Blank.acked = 0
    BY DEF Blank
  <2>3. CreditInv(f)
    BY <1>1, <2>2, Capacities DEF CreditInv
  <2>4. CloseInv(f)
    BY <1>1, <1>2, <2>1, <2>2 DEF CloseInv
  <2>5. Linked(Blank, Idle)
    BY <2>2 DEF Linked, Idle
  <2>6. LinkInv(f)
    BY <1>1, <1>2, <2>1, <2>5 DEF LinkInv
  <2>7. ~Sound(conn[f])
    BY <1>1, <2>2 DEF Sound
  <2> QED BY <1>1, <2>3, <2>4, <2>6, <2>7, BlankType DEF FlowInv, FinInv, Ages
<1> QED BY <1>4, <1>5, <1>6 DEF StackInv

LEMMA StackNextInv == ASSUME StackInv, [StackNext]_stackVars PROVE StackInv'
<1>1. CASE UNCHANGED stackVars
  <2>1. /\ conn' = conn /\ relay' = relay /\ data_in' = data_in /\ backlog' = backlog /\ moved' = moved
        /\ ticked' = ticked /\ aux' = aux /\ phase' = phase
    BY <1>1 DEF stackVars
  <2>2. StackTypeOK'
    BY <2>1 DEF StackInv, StackTypeOK
  <2>3. BacklogInv'
    BY <2>1 DEF StackInv, BacklogInv
  <2>4. ASSUME NEW f \in Flows PROVE FlowInv(f)'
    <3>1. ClosesAdded({})
      BY <2>1, RelayParts, AddedNone
    <3> QED BY <2>1, <3>1, FrameFlow DEF StackInv
  <2> QED BY <2>2, <2>3, <2>4 DEF StackInv
<1>2. CASE Pass
  BY <1>2, PassInv
<1>3. CASE Ingest
  BY <1>3, IngestInv
<1>4. CASE EndOfPass
  BY <1>4, EndOfPassInv
<1>5. CASE Tick
  BY <1>5, TickInv
<1>6. ASSUME NEW f \in Flows, OpenTcp(f) PROVE StackInv'
  BY <1>6, OpenTcpInv
<1>7. ASSUME NEW f \in Flows, Peer(f) PROVE StackInv'
  BY <1>7, PeerAcceptsInv, PeerAcksInv, PeerAcksFinInv, PeerSendsInv, PeerClosesInv, PeerResetsInv DEF Peer
<1>8. ASSUME NEW f \in Flows, Relay(f) PROVE StackInv'
  <2>1. CASE RelaySteps(f)
    BY <2>1, ConnectsInv, ReserveInv, SendInv, CloseInvStep, EndsInv DEF RelaySteps
  <2>2. CASE GivesUp(f) \/ Reads(f) \/ ReadsEnd(f) \/ Writes(f) \/ ClientGone(f)
    BY <2>2, GivesUpInv, ReadsInv, ReadsEndInv, WritesInv, EndsInv
  <2> QED BY <1>8, <2>1, <2>2 DEF Relay
<1> QED BY <1>1, <1>2, <1>3, <1>4, <1>5, <1>6, <1>7, <1>8 DEF StackNext

\* StackInv is inductive: every action of the stack task, of the peer and of the relays
\* keeps it.
LEMMA StackAlways == StackSpec => []StackInv
<1>1. StackInit => StackInv
  BY StackInitInv
<1>2. StackInv /\ [StackNext]_stackVars => StackInv'
  BY StackNextInv
<1> QED BY <1>1, <1>2, PTL DEF StackSpec

\* In every reachable state of the stack, whatever its capacities and durations, the fields
\* of TcpState, FlowCredit and the relays have their types, and pending, the send queue,
\* the channels and the credit keep within their capacities (TcpState, FlowCredit, DataIn).
THEOREM StackTypeCorrect == StackSpec => []StackTypeOK
<1>1. StackInv => StackTypeOK
  BY DEF StackInv
<1> QED BY <1>1, StackAlways, PTL

-----------------------------------------------------------------------------
(* The reaper.                                                                *)

\* Only a pass closes a flow.
ClosedStays(g) == conn'[g].closed => conn[g].closed

LEMMA OneClosedStays ==
    ASSUME NEW f \in Flows, NEW c, conn \in [Flows -> ConnType], conn' = [conn EXCEPT ![f] = c],
           c.closed => conn[f].closed, NEW g \in Flows
    PROVE  ClosedStays(g)
<1>1. CASE g = f
  BY <1>1 DEF ClosedStays
<1>2. CASE g # f
  BY <1>2 DEF ClosedStays
<1> QED BY <1>1, <1>2

\* The peer changes the socket of one flow.
LEMMA SocketCloseStays ==
    ASSUME StackInv, NEW f \in Flows, NEW c, Socket(f, c), c.closed = conn[f].closed, NEW g \in Flows
    PROVE  ClosedStays(g)
<1>1. conn \in [Flows -> ConnType] /\ conn' = [conn EXCEPT ![f] = c]
  BY DEF StackInv, StackTypeOK, Socket
<1> QED BY <1>1, OneClosedStays

LEMMA PeerCloseStays ==
    ASSUME StackInv, NEW f \in Flows, Peer(f), NEW g \in Flows
    PROVE  ClosedStays(g)
<1>1. conn[f] \in ConnType
  BY DEF StackInv, StackTypeOK
<1>2. ASSUME NEW st, Socket(f, [conn[f] EXCEPT !.state = st]) PROVE ClosedStays(g)
  <2>1. PICK c : c = [conn[f] EXCEPT !.state = st]
    OBVIOUS
  <2>2. c.closed = conn[f].closed
    BY <1>1, <2>1 DEF ConnType
  <2>3. Socket(f, c)
    BY <1>2, <2>1
  <2> QED BY <2>2, <2>3, SocketCloseStays
<1>3. CASE PeerAccepts(f)
  <2>1. PICK st : Socket(f, [conn[f] EXCEPT !.state = st])
    BY <1>3 DEF PeerAccepts
  <2> QED BY <1>2, <2>1
<1>4. CASE PeerAcksFin(f)
  <2>1. PICK st : Socket(f, [conn[f] EXCEPT !.state = st])
    BY <1>4 DEF PeerAcksFin
  <2> QED BY <1>2, <2>1
<1>5. CASE PeerCloses(f)
  <2>1. PICK st : Socket(f, [conn[f] EXCEPT !.state = st])
    BY <1>5 DEF PeerCloses
  <2> QED BY <1>2, <2>1
<1>6. CASE PeerResets(f)
  <2>1. PICK st : Socket(f, [conn[f] EXCEPT !.state = st])
    BY <1>6 DEF PeerResets, Abort
  <2> QED BY <1>2, <2>1
<1>7. CASE PeerAcks(f)
  <2>1. PICK n \in 1 .. conn[f].queue : Socket(f, [conn[f] EXCEPT !.queue = @ - n])
    BY <1>7 DEF PeerAcks
  <2>2. PICK c : c = [conn[f] EXCEPT !.queue = @ - n]
    OBVIOUS
  <2>3. c.closed = conn[f].closed
    BY <1>1, <2>2 DEF ConnType
  <2>4. Socket(f, c)
    BY <2>1, <2>2
  <2> QED BY <2>3, <2>4, SocketCloseStays
<1>8. CASE PeerSends(f)
  <2>1. PICK c : c = [conn[f] EXCEPT !.rx = @ + 1]
    OBVIOUS
  <2>2. c.closed = conn[f].closed
    BY <1>1, <2>1 DEF ConnType
  <2>3. Socket(f, c)
    BY <1>8, <2>1 DEF PeerSends
  <2> QED BY <2>2, <2>3, SocketCloseStays
<1> QED BY <1>3, <1>4, <1>5, <1>6, <1>7, <1>8 DEF Peer

LEMMA RelayCloseStays ==
    ASSUME StackInv, NEW f \in Flows, OpenTcp(f) \/ Relay(f), NEW g \in Flows
    PROVE  ClosedStays(g)
<1>1. conn \in [Flows -> ConnType] /\ conn[f] \in ConnType
  BY DEF StackInv, StackTypeOK
<1>2. ASSUME conn' = conn PROVE ClosedStays(g)
  BY <1>2 DEF ClosedStays
<1>3. CASE OpenTcp(f)
  <2>1. CASE conn' = conn
    BY <1>2, <2>1
  <2>2. CASE conn' # conn
    <3>1. PICK c : c = [Blank EXCEPT !.live = TRUE, !.state = "SynSent", !.resp = "waiting"]
      OBVIOUS
    <3>2. conn' = [conn EXCEPT ![f] = c]
      BY <1>3, <2>2, <3>1 DEF OpenTcp
    <3>3. ~c.closed
      BY <3>1 DEF Blank
    <3> QED BY <1>1, <3>2, <3>3, OneClosedStays
  <2> QED BY <2>1, <2>2
<1>4. CASE Connects(f) \/ send(f) \/ close(f) \/ Reads(f) \/ ReadsEnd(f)
  <2>1. conn' = conn
    BY <1>4 DEF Connects, send, close, Reads, ReadsEnd
  <2> QED BY <1>2, <2>1
<1>5. CASE reserve(f)
  <2>1. PICK c : c = [conn[f] EXCEPT !.sent = @ + relay[f].len]
    OBVIOUS
  <2>2. conn' = [conn EXCEPT ![f] = c]
    BY <1>5, <2>1 DEF reserve
  <2>3. c.closed = conn[f].closed
    BY <1>1, <2>1 DEF ConnType
  <2> QED BY <1>1, <2>2, <2>3, OneClosedStays
<1>6. CASE Writes(f)
  <2>1. PICK c : c = [conn[f] EXCEPT !.toApp = Tail(@)]
    OBVIOUS
  <2>2. conn' = [conn EXCEPT ![f] = c]
    BY <1>6, <2>1 DEF Writes
  <2>3. c.closed = conn[f].closed
    BY <1>1, <2>1 DEF ConnType
  <2> QED BY <1>1, <2>2, <2>3, OneClosedStays
<1>7. CASE GivesUp(f)
  <2>1. PICK c : c = [conn[f] EXCEPT !.resp = "given up", !.listening = FALSE, !.toApp = <<>>]
    OBVIOUS
  <2>2. conn' = [conn EXCEPT ![f] = c]
    BY <1>1, <1>7, <2>1 DEF GivesUp
  <2>3. c.closed = conn[f].closed
    BY <1>1, <2>1 DEF ConnType
  <2> QED BY <1>1, <2>2, <2>3, OneClosedStays
<1>8. CASE DownloadEnds(f) \/ ClientGone(f) \/ LingerEnds(f)
  <2>1. PICK c : c = [conn[f] EXCEPT !.listening = FALSE, !.toApp = <<>>]
    OBVIOUS
  <2>2. conn' = [conn EXCEPT ![f] = c]
    BY <1>1, <1>8, <2>1 DEF DownloadEnds, ClientGone, LingerEnds, Returns
  <2>3. c.closed = conn[f].closed
    BY <1>1, <2>1 DEF ConnType
  <2> QED BY <1>1, <2>2, <2>3, OneClosedStays
<1> QED BY <1>3, <1>4, <1>5, <1>6, <1>7, <1>8 DEF Relay, RelaySteps

LEMMA StackCloseStays ==
    ASSUME StackInv, Ingest \/ EndOfPass \/ Tick \/ UNCHANGED stackVars, NEW g \in Flows
    PROVE  ClosedStays(g)
<1>1. CASE Ingest
  <2>1. PICK d : d = Head(data_in)
    OBVIOUS
  <2>2. PICK f : f = d.id
    OBVIOUS
  <2>3. Enters(f, d.lo, d.hi)
    BY <1>1, <2>1, <2>2, IngestEnters
  <2>4. Fed(conn[f], conn'[f]) /\ \A h \in Flows \ {f} : conn'[h] = conn[h]
    BY <2>3 DEF Enters, Beside
  <2> QED BY <2>4 DEF Fed, ClosedStays
<1>2. CASE EndOfPass \/ UNCHANGED stackVars
  <2>1. conn' = conn
    BY <1>2 DEF EndOfPass, stackVars
  <2> QED BY <2>1 DEF ClosedStays
<1>3. CASE Tick
  <2>1. conn'[g] = Older(conn[g]) /\ conn[g] \in ConnType
    BY <1>3 DEF Tick, StackInv, StackTypeOK
  <2>2. Older(conn[g]).closed = conn[g].closed
    BY <2>1 DEF Older, ConnType
  <2> QED BY <2>1, <2>2 DEF ClosedStays
<1> QED BY <1>1, <1>2, <1>3

LEMMA PassReaps ==
    ASSUME StackInv, Pass, NEW f \in Flows, conn[f].state = "Established", conn[f].listening, ~conn[f].closed,
           conn'[f].live, conn'[f].closed
    PROVE  aux[f].silent >= TCP_DRAIN_STALL_TIMEOUT - 1
<1>1. PICK s, x, D : Passed(f, s, x, D)
  BY PassFacts DEF PassedAll
<1>2. Serves(conn[f], s) /\ Fed(s, x) /\ Reaps(conn[f], s, aux[f].silent) /\ Cut(x, D, conn'[f], backlog'.data[f])
  BY <1>1 DEF Passed, Drained
<1>3. s.live
  BY <1>1, PassedPorts
<1>4. ~s.closed
  BY <1>2, <1>3 DEF Serves
<1>5. conn[f].live
  BY <1>2, <1>3 DEF Serves
<1>6. conn[f].established
  <2>1. Linked(conn[f], relay[f])
    BY DEF StackInv, FlowInv, LinkInv
  <2>2. conn[f].resp = "ok"
    BY <2>1 DEF Linked
  <2>3. conn[f].live /\ ~conn[f].established => conn[f].resp \in {"waiting", "given up"}
    BY <2>1 DEF Linked
  <2> QED BY <1>5, <2>2, <2>3
<1>7. conn'[f] # x
  BY <1>2, <1>4 DEF Fed
<1>8. Dead(x)
  BY <1>2, <1>7 DEF Cut
<1>9. NotDraining(s) \/ s.progressAge >= TCP_WEDGE_TIMEOUT
  BY <1>2, <1>8 DEF Dead, NotDraining, Fed
<1> QED BY <1>2, <1>3, <1>4, <1>6, <1>9 DEF Reaps, Sound

\* In every execution, a flow in use is reset by the reaper only when its peer has
\* acknowledged nothing for the whole timeout, up to one instant (liveness, reap_wedged).
THEOREM OnlySilentPeersAreReapedHolds == StackSpec => OnlySilentPeersAreReaped
<1>1. ASSUME StackInv, [StackNext]_stackVars, NEW f \in Flows,
             conn[f].state = "Established", conn[f].listening, ~conn[f].closed, conn'[f].live, conn'[f].closed
      PROVE  aux[f].silent >= TCP_DRAIN_STALL_TIMEOUT - 1
  <2>1. ~ClosedStays(f)
    BY <1>1 DEF ClosedStays
  <2>2. Pass
    BY <1>1, <2>1, PeerCloseStays, RelayCloseStays, StackCloseStays DEF StackNext
  <2> QED BY <1>1, <2>2, PassReaps
<1>2. StackInv /\ [StackNext]_stackVars
        => [\A f \in Flows :
              conn[f].state = "Established" /\ conn[f].listening /\ ~conn[f].closed
              /\ conn'[f].live /\ conn'[f].closed
                  => aux[f].silent >= TCP_DRAIN_STALL_TIMEOUT - 1]_stackVars
  BY <1>1
<1> QED BY <1>2, StackAlways, PTL DEF StackSpec, OnlySilentPeersAreReaped

-----------------------------------------------------------------------------
(* The upload.                                                                *)

\* A run of numbers is the stretch it covers.
LEMMA RunIsStretch ==
    ASSUME NEW s \in Seq(Nat), NEW a \in Nat, NEW b \in Nat, b = a + Len(s), Runs(s, a)
    PROVE  s = Stretch(a, b)
<1>1. Len(s) \in Nat
  BY LenProperties
<1>2. a <= b /\ b - a = Len(s)
  BY <1>1
<1>3. /\ Stretch(a, b) \in Seq(Nat) /\ Len(Stretch(a, b)) = Len(s) /\ Runs(Stretch(a, b), a)
  BY <1>2, StretchFacts
<1>4. \A i \in 1 .. Len(s) : s[i] = Stretch(a, b)[i]
  BY <1>3 DEF Runs
<1> QED BY <1>3, <1>4, SeqEqual

\* The bytes of a run lie in its stretch.
LEMMA RunRange ==
    ASSUME NEW s \in Seq(Nat), NEW a \in Nat, Runs(s, a), NEW v \in Range(s)
    PROVE  v \in a + 1 .. a + Len(s)
<1>1. Len(s) \in Nat /\ DOMAIN s = 1 .. Len(s)
  BY LenProperties
<1>2. PICK i \in DOMAIN s : v = s[i]
  BY DEF Range
<1>3. v = a + i /\ i \in 1 .. Len(s)
  BY <1>1, <1>2 DEF Runs
<1> QED BY <1>1, <1>3

\* Everything held of an upload lies between what the socket has taken and what was sent.
LEMMA HeldFacts ==
    ASSUME StackInv, NEW f \in Flows, Sound(conn[f])
    PROVE  Held(f) \subseteq conn[f].accepted_total + 1 .. conn[f].sent
                /\ conn[f].accepted_total <= conn[f].sent
<1>1. BufferInv(f) /\ ChainInv(f) /\ StackTypeOK
  BY DEF StackInv, FlowInv
<1>2. PICK acc, p, d, g, n, k : /\ acc = conn[f].accepted_total /\ p = conn[f].pending /\ d = backlog.data[f]
                                /\ g = Given(f) /\ n = conn[f].sent /\ k = InRelay(f)
  OBVIOUS
<1>3. /\ acc \in Nat /\ p \in Seq(Nat) /\ Len(p) \in Nat /\ d \in Seq(Nat) /\ Len(d) \in Nat
      /\ n \in Nat /\ k \in Nat
  BY <1>1, <1>2, FlowNumbers
<1>4. g = n - k /\ Reached(f) = acc + Len(p) + Len(d) /\ Reached(f) <= g
  BY <1>1, <1>2 DEF Given, Reached, ChainInv
<1>5. acc <= n /\ acc + Len(p) + Len(d) <= n /\ acc <= g /\ g \in Nat
  BY <1>3, <1>4
<1>6. ASSUME NEW v \in Range(p) PROVE v \in acc + 1 .. n
  <2>1. v \in acc + 1 .. acc + Len(p)
    BY <1>1, <1>2, <1>3, RunRange DEF BufferInv
  <2> QED BY <1>3, <1>5, <2>1
<1>7. ASSUME NEW v \in Range(d) PROVE v \in acc + 1 .. n
  <2>1. Runs(d, acc + Len(p)) /\ acc + Len(p) \in Nat
    BY <1>1, <1>2, <1>3 DEF BufferInv
  <2>2. v \in acc + Len(p) + 1 .. acc + Len(p) + Len(d)
    BY <1>3, <2>1, RunRange
  <2> QED BY <1>3, <1>5, <2>2
<1>8. ASSUME NEW i \in Chunks(f), NEW v \in data_in[i].lo + 1 .. data_in[i].hi PROVE v \in acc + 1 .. n
  <2>1. data_in[i].lo \in Nat /\ data_in[i].hi \in Nat
    BY <1>1, TypeParts, ChannelElements DEF Chunks
  <2>2. Reached(f) <= data_in[i].lo /\ data_in[i].hi <= g
    BY <1>1, <1>2 DEF ChainInv
  <2> QED BY <1>3, <1>4, <1>5, <2>1, <2>2
<1>9. ASSUME NEW v \in g + 1 .. n PROVE v \in acc + 1 .. n
  BY <1>3, <1>5
<1>10. PICK U : U = UNION {data_in[i].lo + 1 .. data_in[i].hi : i \in Chunks(f)}
  OBVIOUS
<1>11. Held(f) \subseteq acc + 1 .. n
  <2>1. Held(f) = Range(p) \cup Range(d) \cup U \cup (g + 1 .. n)
    BY <1>2, <1>10 DEF Held
  <2>2. ASSUME NEW v \in U PROVE v \in acc + 1 .. n
    <3>1. PICK i \in Chunks(f) : v \in data_in[i].lo + 1 .. data_in[i].hi
      BY <1>10, <2>2
    <3> QED BY <1>8, <3>1
  <2> QED BY <1>6, <1>7, <1>9, <2>1, <2>2
<1> QED BY <1>2, <1>5, <1>11

LEMMA IntactFlow ==
    ASSUME StackInv, NEW f \in Flows, conn[f].live, conn[f].listening, ~conn[f].closed
    PROVE  Intact(f)
<1>1. StackTypeOK /\ BufferInv(f) /\ ChainInv(f) /\ Linked(conn[f], relay[f])
  BY DEF StackInv, FlowInv, LinkInv, Sound
<1>2. relay[f].up # "off"
  BY <1>1 DEF Linked
<1>3. conn[f].pending \o backlog.data[f] = Stretch(conn[f].accepted_total, Reached(f))
  <2>1. PICK acc, p, d : acc = conn[f].accepted_total /\ p = conn[f].pending /\ d = backlog.data[f]
    OBVIOUS
  <2>2. /\ acc \in Nat /\ p \in Seq(Nat) /\ Len(p) \in Nat /\ d \in Seq(Nat) /\ Len(d) \in Nat
        /\ Reached(f) \in Nat
    BY <1>1, <2>1, FlowNumbers
  <2>3. Runs(p, acc) /\ Runs(d, acc + Len(p))
    BY <1>1, <2>1 DEF BufferInv
  <2>4. PICK t : t = p \o d
    OBVIOUS
  <2>5. t \in Seq(Nat) /\ Len(t) = Len(p) + Len(d) /\ Runs(t, acc)
    BY <2>2, <2>3, <2>4, RunsConcat
  <2>6. Reached(f) = acc + Len(t)
    <3>1. Reached(f) = acc + Len(p) + Len(d)
      BY <2>1 DEF Reached
    <3>2. \A i, j, k \in Nat : i + j + k = i + (j + k)
      OBVIOUS
    <3> QED BY <2>2, <2>5, <3>1, <3>2
  <2>7. t = Stretch(acc, Reached(f))
    BY <2>2, <2>5, <2>6, RunIsStretch
  <2> QED BY <2>1, <2>4, <2>7
<1> QED BY <1>1, <1>2, <1>3 DEF Intact, ChainInv

LEMMA FinFlow ==
    ASSUME StackInv, NEW f \in Flows, conn[f].live, conn[f].listening, ~conn[f].closed,
           conn[f].state \in {"FinWait1", "FinWait2", "Closing"}
    PROVE  Held(f) = {}
<1>1. StackTypeOK /\ FinInv(conn[f]) /\ CloseInv(f) /\ BacklogInv
  BY DEF StackInv, FlowInv
<1>2. conn[f].half_closed /\ conn[f].pending = <<>>
  BY <1>1 DEF FinInv, Fins, Sound
<1>3. Chunks(f) = {} /\ f \notin backlog.blocked /\ relay[f].up \in {"ended", "off"}
  BY <1>1, <1>2 DEF CloseInv
<1>4. backlog.data[f] = <<>>
  BY <1>1, <1>3 DEF BacklogInv
<1>5. Given(f) + 1 .. conn[f].sent = {}
  <2>1. InRelay(f) = 0
    BY <1>3 DEF InRelay
  <2>2. conn[f].sent \in Nat
    BY <1>1, FlowNumbers
  <2>3. Given(f) = conn[f].sent
    BY <2>1, <2>2 DEF Given
  <2> QED BY <2>2, <2>3
<1>6. Range(<<>>) = {}
  BY DEF Range
<1> QED BY <1>2, <1>3, <1>4, <1>5, <1>6 DEF Held

\* In every reachable state, an upload in use is whole and in order from the relay's hand to
\* the send buffer, and its FIN comes after its last byte (ingest, drain_backlog, halfClose).
THEOREM UploadInOrderHolds == StackSpec => []UploadInOrder
<1>1. StackInv => UploadInOrder
  BY IntactFlow, FinFlow DEF UploadInOrder, StreamIntact, FinAfterData
<1> QED BY <1>1, StackAlways, PTL

LEMMA CreditFlow ==
    ASSUME StackInv, NEW f \in Flows, Sound(conn[f])
    PROVE  Outstanding(conn[f]) >= conn[f].queue + Cardinality(Held(f))
<1>1. StackTypeOK /\ NumbersInv(conn[f])
  BY DEF StackInv, FlowInv
<1>2. PICK acc, n, q, k : acc = conn[f].accepted_total /\ n = conn[f].sent /\ q = conn[f].queue /\ k = conn[f].acked
  OBVIOUS
<1>3. acc \in Nat /\ n \in Nat /\ q \in Nat /\ k \in Nat
  BY <1>1, <1>2, FlowNumbers, Constants
<1>4. k <= acc - q
  BY <1>1, <1>2 DEF NumbersInv
<1>5. Held(f) \subseteq acc + 1 .. n /\ acc <= n
  BY <1>2, HeldFacts
<1>6. IsFiniteSet(acc + 1 .. n) /\ Cardinality(acc + 1 .. n) = n - acc
  <2>1. acc + 1 \in Int /\ n \in Int
    BY <1>3
  <2>2. IsFiniteSet(acc + 1 .. n) /\ Cardinality(acc + 1 .. n) = IF acc + 1 > n THEN 0 ELSE n - (acc + 1) + 1
    BY <2>1, FS_Interval
  <2> QED BY <1>3, <1>5, <2>2
<1>7. IsFiniteSet(Held(f)) /\ Cardinality(Held(f)) <= n - acc
  BY <1>5, <1>6, FS_Subset
<1>8. Cardinality(Held(f)) \in Nat
  BY <1>7, FS_CardinalityType
<1>9. n - k >= q + Cardinality(Held(f))
  BY <1>3, <1>4, <1>7, <1>8
<1> QED BY <1>2, <1>9 DEF Outstanding

\* In every reachable state, the credit counts no byte as acknowledged that is still held, the
\* backlog's accounts are those of its queue and within a chunk of its bound, and only a
\* writer that has waited out its deadline is in it (publish, push, purge, reserve).
THEOREM AccountsAreTrueHolds == StackSpec => []AccountsAreTrue
<1>1. ASSUME StackInv PROVE CreditIsHonest
  BY <1>1, CreditFlow DEF CreditIsHonest, Sound
<1>2. ASSUME StackInv PROVE BacklogAccounts /\ AdmissionSparesBacklog
  <2>1. BacklogInv /\ backlog.close \in SUBSET Flows
    BY <1>2, TypeParts DEF StackInv
  <2>2. backlog.blocked = {g \in Flows : backlog.data[g] # <<>> \/ g \in backlog.close}
    BY <2>1 DEF BacklogInv
  <2> QED BY <2>1, <2>2 DEF BacklogInv, BacklogAccounts, AdmissionSparesBacklog
<1>3. StackInv => AccountsAreTrue
  BY <1>1, <1>2 DEF AccountsAreTrue
<1> QED BY <1>3, StackAlways, PTL
=============================================================================
