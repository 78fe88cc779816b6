--------------------------- MODULE EngineIdentity ---------------------------
(***************************************************************************)
(* The engine's accounts: what a start of the process does to have a device *)
(* identity for each hop (load_or_provision of lib.rs), the identity files  *)
(* (config.rs), the calls of the account API and the MASQUE certificate     *)
(* (account.rs), and the sign-in to a Zero Trust organization               *)
(* (zerotrust.rs). The account service is external: it issues devices,      *)
(* takes their keys and may stop accepting one.                             *)
(***************************************************************************)
EXTENDS Naturals, Sequences, FiniteSets

CONSTANTS
    Teams, None,    \* Zero Trust organizations; no organization
    Missing, Damaged, Torn,  \* what a file may hold instead of an identity
    Starts,         \* <<protocol, organization, whether the menu is shown>> of a start
    Devices,        \* names the service gives to devices
    Reprovision,    \* keep_saved_identity: values AETHER_REPROVISION may have
    Lifetime,       \* MASQUE_CERT_LIFETIME_SECS, in days
    RenewBefore,    \* MASQUE_CERT_RENEW_BEFORE_SECS, in days
    MaxDay,         \* bound: the clock stays within 1 .. MaxDay
    MaxCrashes,     \* bound: times the process is killed
    MaxRevoked      \* bound: devices the service refuses at a time

Protocols == {"wg", "masque", "gool", "mim"}
Scopes == Teams \cup {"wg", "masque"}

ASSUME StartsAssumption == Starts \subseteq Protocols \X (Teams \cup {None}) \X BOOLEAN
ASSUME NamesAssumption ==
    None \notin Teams /\ Devices # {} /\ Reprovision \subseteq BOOLEAN
ASSUME DaysAssumption ==
    /\ Lifetime \in Nat \ {0} /\ RenewBefore \in Nat /\ MaxDay \in Nat \ {0}
    /\ MaxCrashes \in Nat /\ MaxRevoked \in Nat

\* An identity: its device, the organization that took it in and the day its
\* certificate was enrolled (cert_issued_at), 0 without one.
Identities == [dev: Devices, org: Teams \cup {None}, issued: 0 .. MaxDay]

ASSUME FilesAssumption ==
    /\ Missing \notin Identities /\ Damaged \notin Identities /\ Torn \notin Identities
    /\ Torn \notin {Missing, Damaged}

VARIABLES
    pc, proto, team,
    todo,      \* the hops whose identity is still to be opened
    id,        \* the identity being opened
    fresh,     \* it was registered by this start
    token,     \* TOKEN_CACHE: the organization that issued the cached token
    file,      \* the identity files
    day,       \* the device's clock
    online,    \* whether the account API answers
    revoked,   \* the service: devices it no longer accepts
    crashes

startVars == <<proto, team, token>>
workVars == <<todo, id, fresh>>
worldVars == <<day, online, crashes>>
vars == <<pc, startVars, workVars, file, revoked, worldVars>>

Masque == proto \in {"masque", "mim"}
Hops == IF proto \in {"gool", "mim"} THEN <<1, 2>> ELSE <<1>>

\* warp_config_path, masque_config_path and derive_sibling_path: the file of an
\* organization serves both transports.
Paths == Scopes \X {1, 2}
Path(hop) == <<IF team # None THEN team ELSE IF Masque THEN "masque" ELSE "wg", hop>>
Whole(f) == f \notin {Missing, Damaged, Torn}

\* The service never runs out of names for devices.
ASSUME DevicesAssumption ==
    IsFiniteSet(Paths) /\ (IsFiniteSet(Devices) => Cardinality(Paths) < Cardinality(Devices))

NoId == [dev |-> CHOOSE d \in Devices : TRUE, org |-> None, issued |-> 0]
InUse == {file[p].dev : p \in {q \in Paths : Whole(file[q])}}

\* masque_cert_expiring: also when the clock went back behind the enrolment.
Expiring(i) == day < i.issued \/ day - i.issued + RenewBefore >= Lifetime
HasCredentials(i) == i.issued # 0 /\ ~Expiring(i)

\* Mutant: a certificate on disk is kept whatever its age.
StillUsable_Always(i) == i.issued # 0

\* cert_still_usable.
StillUsable(i) == i.issued # 0 /\ day >= i.issued /\ day - i.issued < Lifetime
-----------------------------------------------------------------------------
Init ==
    /\ pc = "off" /\ token = None /\ \E s \in Starts : proto = s[1] /\ team = s[2]
    /\ todo = <<>> /\ id = NoId /\ fresh = FALSE
    /\ \E first \in {Missing, Damaged} : file = [p \in Paths |-> IF p = Path(1) THEN first ELSE Missing]
    /\ day = 1 /\ online = TRUE /\ crashes = 0
    /\ revoked = {}

Start ==
    /\ pc = "off"
    /\ \E s \in Starts :
        /\ proto' = s[1] /\ team' = s[2]
        /\ pc' = IF s[3] THEN "menu" ELSE "chosen"
    /\ token' = None
    /\ UNCHANGED <<workVars, file, revoked, worldVars>>

\* resolve_token: the token of this process if there is one, whoever issued it,
\* or a sign-in with the organization, which is an error while it is out of reach.
Resolves == token # None \/ online
Resolved(t) == IF token # None THEN token ELSE t

\* enrol_zero_trust, from the menu of select_protocol: an organization with a
\* saved enrolment needs no sign-in, a failed one leaves the personal account.
PickTeam(t) ==
    /\ pc = "menu"
    /\ IF file[<<t, 1>>] # Missing THEN team' = t /\ UNCHANGED token
       ELSE IF Resolves THEN team' = t /\ token' = Resolved(t)
       ELSE team' = None /\ UNCHANGED token
    /\ UNCHANGED <<pc, proto, workVars, file, revoked, worldVars>>

Choose ==
    /\ pc \in {"menu", "chosen"} /\ pc' = "load" /\ todo' = Hops
    /\ UNCHANGED <<startVars, id, fresh, file, revoked, worldVars>>

TokenExpires ==
    /\ token # None /\ token' = None
    /\ UNCHANGED <<pc, proto, team, workVars, file, revoked, worldVars>>
-----------------------------------------------------------------------------
\* Mutant: a damaged file is left where it is.
Quarantined_Left(p) == file

\* config::load moves a damaged file aside and reports the error.
Quarantined(p) == [file EXCEPT ![p] = Missing]

\* An error of the start ends the process.
Fail == pc' = "off" /\ todo' = <<>> /\ id' = NoId /\ fresh' = FALSE

\* The head of load_or_provision_warp and load_or_provision_masque.
Load ==
    /\ pc = "load"
    /\ LET p == Path(Head(todo)) IN
        \/ /\ file[p] = Missing
           /\ pc' = "register" /\ UNCHANGED <<workVars, file>>
        \/ /\ file[p] \in {Damaged, Torn}
           /\ Fail /\ file' = Quarantined(p)
        \/ /\ Whole(file[p])
           /\ id' = file[p] /\ fresh' = FALSE
           /\ pc' = IF Masque /\ ~HasCredentials(file[p]) THEN "enroll" ELSE "refresh"
           /\ UNCHANGED <<todo, file>>
    /\ UNCHANGED <<startVars, revoked, worldVars>>

\* send_with_retry, then the camouflaged route: a call of the API is answered, in
\* the end, or it is an error.
Answers == online

NextHop == /\ todo' = Tail(todo) /\ pc' = IF Tail(todo) = <<>> THEN "ready" ELSE "load"

\* Mutant: an API that does not answer counts as a refusal.
Refused_Offline == team # None /\ (~online \/ id.dev \in revoked)

\* adopt_team_profile and refresh_profile: only the identities of organizations
\* are asked for, and only the API's own answer 401, 404 or 410, on the route
\* that answered last, is a refusal; without an answer the profile is kept.
Refused == team # None /\ Answers /\ id.dev \in revoked

\* An identity that was just registered is saved whatever the answer; a refused
\* one from disk is replaced, or used as it is if that was forbidden.
Refresh ==
    /\ pc = "refresh"
    /\ \/ /\ ~Refused \/ fresh
          /\ pc' = "save" /\ UNCHANGED workVars
       \/ /\ Refused /\ ~fresh /\ TRUE \in Reprovision
          /\ pc' = "register" /\ UNCHANGED workVars
       \/ /\ Refused /\ ~fresh /\ FALSE \in Reprovision
          /\ NextHop /\ UNCHANGED <<id, fresh>>
    /\ UNCHANGED <<startVars, file, revoked, worldVars>>

\* The service issues a name nobody holds; which one does not matter.
NewDevice == CHOOSE d \in Devices : d \notin InUse

\* finish_provision: a device of the organization whose token was shown, no
\* certificate yet.
Provisioned(d) == [dev |-> d, org |-> IF team = None THEN None ELSE Resolved(team), issued |-> 0]

\* provision_account: sign in if an organization is set, then register over the
\* direct route and the camouflaged one. A registration whose answer is lost
\* leaves a device nobody holds.
Register ==
    /\ pc = "register"
    /\ \/ /\ Answers
          /\ id' = Provisioned(NewDevice)
          /\ revoked' = revoked \ {NewDevice}
          /\ token' = IF team = None THEN token ELSE Resolved(team)
          /\ fresh' = TRUE /\ pc' = IF Masque THEN "enroll" ELSE "refresh"
          /\ UNCHANGED todo
       \/ /\ ~Answers /\ Fail
          /\ token' \in {token, IF team = None THEN token ELSE Resolved(team)}
          /\ UNCHANGED revoked
    /\ UNCHANGED <<proto, team, file, worldVars>>

\* Where a certificate leads: a registered identity is refreshed before it is
\* saved, one from disk is saved at once.
Certified == pc' = IF fresh THEN "refresh" ELSE "save"

\* ensure_masque_enrolled: a new key is generated and the service told.
Enroll ==
    /\ pc = "enroll" /\ Answers /\ id.dev \notin revoked
    /\ id' = [id EXCEPT !.issued = day]
    /\ Certified
    /\ UNCHANGED <<startVars, todo, fresh, file, revoked, worldVars>>

\* The same without an answer or with a refusal, which enroll_key turns into the
\* error of an API out of reach: the certificate on disk is used as long as it
\* is valid.
EnrollFails ==
    /\ pc = "enroll" /\ (~Answers \/ id.dev \in revoked)
    /\ IF StillUsable(id) THEN Certified /\ UNCHANGED workVars ELSE Fail
    /\ UNCHANGED <<startVars, file, revoked, worldVars>>
-----------------------------------------------------------------------------
\* Mutant: the file is opened and truncated in place.
Written_InPlace(p) == [file EXCEPT ![p] = Torn]

\* write_private: a temporary file beside the old one, written and synced, ...
Written(p) == file

Save ==
    /\ pc = "save" /\ pc' = "rename"
    /\ file' = Written(Path(Head(todo)))
    /\ UNCHANGED <<startVars, workVars, revoked, worldVars>>

\* ... and renamed over it. A write that fails ends like a crash before this.
Rename ==
    /\ pc = "rename"
    /\ file' = [file EXCEPT ![Path(Head(todo))] = id]
    /\ NextHop
    /\ UNCHANGED <<startVars, id, fresh, revoked, worldVars>>
-----------------------------------------------------------------------------
Crash ==
    /\ pc # "off" /\ crashes < MaxCrashes /\ crashes' = crashes + 1
    /\ Fail /\ UNCHANGED <<startVars, file, revoked, day, online>>

Quit ==
    /\ pc = "ready" /\ Fail
    /\ UNCHANGED <<startVars, file, revoked, worldVars>>

\* A start takes no day. The clock of a device may also be set back.
ClockMoves ==
    /\ pc = "off" /\ day' \in {day - 1, day + 1} \cap 1 .. MaxDay
    /\ UNCHANGED <<pc, startVars, workVars, file, revoked, online, crashes>>

ApiTurns ==
    /\ online' = ~online
    /\ UNCHANGED <<pc, startVars, workVars, file, revoked, day, crashes>>

Revoke ==
    /\ Cardinality(revoked) < MaxRevoked
    /\ \E d \in InUse \ revoked : revoked' = revoked \cup {d}
    /\ UNCHANGED <<pc, startVars, workVars, file, worldVars>>

Open == Load \/ Refresh \/ Register \/ Enroll \/ EnrollFails \/ Save \/ Rename
Next == Start \/ (\E t \in Teams : PickTeam(t)) \/ Choose \/ TokenExpires \/ Open
        \/ Crash \/ Quit \/ ClockMoves \/ ApiTurns \/ Revoke

\* The process is started again after an error, and a start makes progress.
Fairness == WF_vars(Start) /\ WF_vars(Choose) /\ WF_vars(Open)

Spec == Init /\ [][Next]_vars
FairSpec == Spec /\ Fairness
-----------------------------------------------------------------------------
TypeOK ==
    /\ pc \in {"off", "menu", "chosen", "load", "refresh", "register", "enroll", "save", "rename", "ready"}
    /\ proto \in Protocols /\ team \in Teams \cup {None} /\ token \in Teams \cup {None}
    /\ Len(todo) <= 2 /\ id \in Identities /\ fresh \in BOOLEAN
    /\ \A p \in Paths : Whole(file[p]) => file[p] \in Identities
    /\ day \in 1 .. MaxDay /\ online \in BOOLEAN /\ crashes \in 0 .. MaxCrashes
    /\ revoked \subseteq Devices

\* However a start is interrupted, an identity file is the old one or the new
\* one and never a half of either (write_private), and no device is saved twice:
\* the hops of a nested tunnel are two devices.
FilesAreWhole ==
    /\ \A p \in Paths : file[p] # Torn
    /\ \A p, q \in Paths : Whole(file[p]) /\ Whole(file[q]) /\ p # q => file[p].dev # file[q].dev

\* A device the service still accepts is never given up for a new one: not by an
\* API out of reach, a failed enrolment, a crash or a start with another
\* transport on the same file.
AcceptedDeviceIsKept ==
    [][\A p \in Paths : Whole(file[p]) /\ file[p].dev \notin revoked
            => Whole(file'[p]) /\ file'[p].dev = file[p].dev]_vars

\* An engine that is ready has a saved identity for each hop it opened, one after
\* the other, and over MASQUE each with a certificate that is within its lifetime
\* by the device's clock, whatever transport wrote the shared file last and
\* whether the enrolment was answered or not.
ReadyIsUsable ==
    pc = "ready" => \A n \in 1 .. Len(Hops) :
        LET f == file[Path(Hops[n])] IN
            /\ Whole(f)
            /\ Masque => f.issued # 0 /\ day >= f.issued /\ day - f.issued < Lifetime

\* With the API in reach and no saved device refused, starting over gets the engine
\* ready: no damaged file, expired certificate or interrupted start is in the
\* way for ever.
NeverWedged == <>[](online /\ revoked \cap InUse = {}) => []<>(pc = "ready")

\* What the manual says of a refused identity: the engine registers a fresh device
\* and rewrites the file, so with the API in reach a start succeeds.
RefusedIsReplaced == <>[]online => []<>(pc = "ready")

\* The file of an organization holds a device of that organization.
EnrolledWhereAsked ==
    \A t \in Teams, hop \in {1, 2} : Whole(file[<<t, hop>>]) => file[<<t, hop>>].org = t
=============================================================================
