----------------------------- MODULE ProfilePath -----------------------------
(***************************************************************************)
(* How a setting travels from the screen to the engine: the activity's     *)
(* in-memory profile and its debounced saves (MainActivity.kt), the        *)
(* preferences file and the sealed secrets (data/ProfileStore.kt,          *)
(* data/SecretStore.kt), the intent codec (core/AetherController.kt) and   *)
(* the service that decodes it (vpn/AetherVpnService.kt).                  *)
(*                                                                         *)
(* Several saves may be under way, the collector's and one for every       *)
(* onStop.  A save asks the DataStore, which commits the preferences in    *)
(* the order of the calls, and writes the secrets when it is resumed.  The *)
(* main thread's handlers are atomic.                                      *)
(***************************************************************************)
EXTENDS Profile, SequencesExt

CONSTANTS None,         \* no value yet
          Saved,        \* the preferences files the app may start with
          Edits,        \* the changes the user can make, as partial profiles
          EarlyEdits,   \* may the user edit before the stored profile is loaded?
          PromptFlush,  \* does a flush end before the user can come back to the activity?
          KeystoreMayFail,   \* can sealing or unsealing a secret fail?
          MaxEdits, MaxStops, MaxCreates, MaxKills   \* bounds on the user and the system

ASSUME PathAssumption == /\ {EarlyEdits, PromptFlush, KeystoreMayFail} \subseteq BOOLEAN
                         /\ {MaxEdits, MaxStops, MaxCreates, MaxKills} \subseteq Nat

SecretFields == {"accessClientSecret", "accessToken"}
StoredFields == Fields \ (SecretFields \cup {"chainedStage"})

\* The values of a setting.  Nothing on this path sets chainedStage, only the plan of a
\* chained session does; the store may hold the name of a retired backend.
EnumValues == [backend |-> StoredNames, protocol |-> Protocols, scanMode |-> ScanModes,
               ipVersion |-> {"V4", "V6", "BOTH"},
               noize |-> {"OFF", "LIGHT", "FIREWALL", "BALANCED", "GFW", "AGGRESSIVE"},
               endpointMode |-> EndpointModes, splitMode |-> {"OFF", "INCLUDE", "EXCLUDE"},
               teamAuth |-> {"OFF", "SERVICE_TOKEN", "EMAIL", "TOKEN"},
               coreLogLevel |-> {"OFF", "ERROR", "WARN", "INFO", "DEBUG"}, torBridges |-> TorBridges]

Setting(f) == CASE f \in TextFields     -> Seq(STRING)
                [] f \in OnByDefault    -> BOOLEAN
                [] f \in OffByDefault   -> IF f = "chainedStage" THEN {FALSE} ELSE BOOLEAN
                [] f \in DOMAIN Numbers -> Int
                [] f \in DOMAIN Enums   -> EnumValues[f]
Settings == Seq(STRING) \cup BOOLEAN \cup Int \cup UNION {EnumValues[f] : f \in DOMAIN Enums}

Steps == {"launched", "prefs", "secrets"}

ASSUME NoneAssumption == /\ None \notin [Fields -> Settings]
                         /\ None \notin [snapshot : [Fields -> Settings], step : Steps]
ASSUME SavedAssumption == \A p \in Saved : /\ p = [f \in StoredFields |-> p[f]]
                                           /\ \A f \in StoredFields : p[f] \in Setting(f)
ASSUME EditsAssumption == \A e \in Edits : /\ DOMAIN e \subseteq Fields
                                           /\ \A f \in DOMAIN e : e[f] \in Setting(f)
                                           /\ "backend" \in DOMAIN e => e.backend \in Backends

VARIABLES activity,   \* "gone", "started" or "stopped"
          uiProfile,  \* the profile the screen shows, None until it is loaded
          loaded,     \* has the initial load of this activity finished?
          pending,    \* profileSaves: the newest snapshot that waits for the debounce
          saves,      \* the saves under way, one slot per writer
          queue,      \* the writers whose edit the DataStore has yet to commit
          prefs,      \* the preferences file: everything but the secrets
          secrets,    \* the sealed store
          granted,    \* has the user given the VPN consent?
          pendingProfile,  \* the profile that waits for the VPN consent
          intent,     \* the start request on its way to the service
          service,    \* the profile the service runs, None when it does not run
          counts,     \* edits, stops, creates and kills so far
          wanted,     \* auxiliary: everything the user has set, over what was saved
          edited,     \* auxiliary: the settings the user has touched
          tapped,     \* auxiliary: the profile on the screen, or stored, at the last connect
          calm        \* auxiliary: no edit came before the load, no restart or recreation
                      \* during a flush, the Keystore never failed, nobody was killed

screen == <<activity, uiProfile, loaded, pending>>
store == <<prefs, secrets>>
ghosts == <<wanted, edited, tapped, calm>>
consent == <<granted, pendingProfile>>
pathVars == <<screen, saves, queue, store, consent, intent, service, counts, ghosts>>

-----------------------------------------------------------------------------
(* The store and the codec. *)

NoSecrets == [f \in SecretFields |-> Blank]

Only(p, fs) == [f \in fs |-> p[f]]
Over(e, p) == [f \in DOMAIN p |-> IF f \in DOMAIN e THEN e[f] ELSE p[f]]

\* ProfileStore.profile: what a reader of the store sees.
Stored == Over([prefs EXCEPT !.backend = fromStoredName(@)], Over(secrets, ConnectionProfile))

TorFields == {"torBridges", "torBridgeLines", "torCountry", "torDirectSecs", "torCheck"}
Lists == {"splitApps", "blockedApps"}
CarriedFields == StoredFields \ TorFields

firstLine(text) == SubSeq(text, 1, IF text = Blank THEN 0 ELSE 1)

\* One line per setting.  The further lines of a text hold no key, so decode skips them.
encode(p) == [f \in CarriedFields |-> IF f \in TextFields \ Lists THEN firstLine(p[f]) ELSE p[f]]

decode(payload) == IF payload = None THEN ConnectionProfile
                   ELSE Over([payload EXCEPT !.backend = fromStoredName(@)], ConnectionProfile)

\* A key that was invalidated makes a secret unreadable, and the entry is dropped.
Readable == {secrets} \cup IF KeystoreMayFail THEN {NoSecrets} ELSE {}

-----------------------------------------------------------------------------

\* The collector, and the flush of every onStop.
Collector == 0
Writers == 0..MaxStops

PathInit == /\ activity = "gone" /\ uiProfile = None /\ loaded = FALSE /\ pending = None
            /\ saves = [w \in Writers |-> None] /\ queue = <<>>
            /\ prefs \in Saved
            /\ secrets = NoSecrets
            /\ granted \in BOOLEAN /\ pendingProfile = None /\ intent = None /\ service = None
            /\ counts = [edits |-> 0, stops |-> 0, creates |-> 0, kills |-> 0]
            /\ wanted = Stored /\ edited = {} /\ tapped = Stored /\ calm = TRUE

(* The activity. *)

onCreate == /\ activity = "gone" /\ counts.creates < MaxCreates
            /\ activity' = "started" /\ uiProfile' = None /\ loaded' = FALSE /\ pending' = None
            /\ pendingProfile' = None
            /\ counts' = [counts EXCEPT !.creates = @ + 1]
            /\ calm' = (calm /\ counts.creates = 0)
            /\ UNCHANGED <<granted, saves, queue, store, intent, service, wanted, edited, tapped>>

\* Mutant: the loaded profile replaces an edit.
Load_Overwrites == /\ activity # "gone" /\ ~loaded
                   /\ loaded' = TRUE
                   /\ uiProfile' = Stored
                   /\ UNCHANGED <<activity, pending, saves, queue, store, consent, intent,
                                  service, counts, ghosts>>

\* compareAndSet(null, profileStore.profile.first())
Load == /\ activity # "gone" /\ ~loaded
        /\ loaded' = TRUE
        /\ uiProfile' = IF uiProfile = None THEN Stored ELSE uiProfile
        /\ UNCHANGED <<activity, pending, saves, queue, store, consent, intent, service, counts, ghosts>>

\* Mutant: the change is shown and never handed to the writer.
onProfileChange_NotEmitted(e) ==
    /\ activity = "started" /\ service = None /\ counts.edits < MaxEdits
    /\ EarlyEdits \/ loaded
    /\ uiProfile' = Over(e, IF uiProfile = None THEN ConnectionProfile ELSE uiProfile)
    /\ wanted' = Over(e, wanted) /\ calm' = (calm /\ loaded)
    /\ edited' = edited \cup DOMAIN e
    /\ counts' = [counts EXCEPT !.edits = @ + 1]
    /\ UNCHANGED <<activity, loaded, pending, saves, queue, store, consent, intent, service, tapped>>

\* A change on the settings screen; before the load the screen shows the defaults.
onProfileChange(e) ==
    /\ activity = "started" /\ service = None /\ counts.edits < MaxEdits
    /\ EarlyEdits \/ loaded
    /\ uiProfile' = Over(e, IF uiProfile = None THEN ConnectionProfile ELSE uiProfile)
    /\ pending' = uiProfile'
    /\ wanted' = Over(e, wanted) /\ calm' = (calm /\ loaded)
    /\ edited' = edited \cup DOMAIN e
    /\ counts' = [counts EXCEPT !.edits = @ + 1]
    /\ UNCHANGED <<activity, loaded, saves, queue, store, consent, intent, service, tapped>>

\* The debounce has passed and the collector is free; it calls edit at once.
collect == /\ activity # "gone" /\ pending # None /\ saves[Collector] = None
           /\ saves' = [saves EXCEPT ![Collector] = [snapshot |-> pending, step |-> "prefs"]]
           /\ queue' = Append(queue, Collector)
           /\ pending' = None
           /\ UNCHANGED <<activity, uiProfile, loaded, store, consent, intent, service, counts, ghosts>>

\* A flush gets a thread of the IO dispatcher and calls edit.
callEdit(w) == /\ saves[w] # None /\ saves[w].step = "launched"
               /\ saves' = [saves EXCEPT ![w].step = "prefs"]
               /\ queue' = Append(queue, w)
               /\ UNCHANGED <<screen, store, consent, intent, service, counts, ghosts>>

\* dataStore.edit: the whole file in one transaction.
savePrefs(w) == /\ queue # <<>> /\ Head(queue) = w
                /\ queue' = Tail(queue)
                /\ prefs' = Only(saves[w].snapshot, StoredFields)
                /\ saves' = [saves EXCEPT ![w].step = "secrets"]
                /\ UNCHANGED <<screen, secrets, consent, intent, service, counts, ghosts>>

\* secrets.write; a failing Keystore leaves the old value, and nobody hears of it.
saveSecrets(w) == /\ saves[w] # None /\ saves[w].step = "secrets"
                  /\ secrets' \in {Only(saves[w].snapshot, SecretFields)}
                                  \cup IF KeystoreMayFail THEN {secrets} ELSE {}
                  /\ saves' = [saves EXCEPT ![w] = None]
                  /\ calm' = (calm /\ secrets' = Only(saves[w].snapshot, SecretFields))
                  /\ UNCHANGED <<screen, queue, prefs, consent, intent, service, counts,
                                 wanted, edited, tapped>>

\* The flush runs outside the activity's scope.
onStop == /\ activity = "started" /\ counts.stops < MaxStops
          /\ activity' = "stopped"
          /\ counts' = [counts EXCEPT !.stops = @ + 1]
          /\ saves' = IF uiProfile = None THEN saves
                      ELSE [saves EXCEPT ![counts.stops + 1] =
                                [snapshot |-> uiProfile, step |-> "launched"]]
          /\ UNCHANGED <<uiProfile, loaded, pending, queue, store, consent, intent, service, ghosts>>

onRestart == /\ activity = "stopped"
             /\ PromptFlush => \A w \in Writers \ {Collector} : saves[w] = None
             /\ activity' = "started"
             /\ calm' = (calm /\ \A w \in Writers \ {Collector} : saves[w] = None)
             /\ UNCHANGED <<uiProfile, loaded, pending, saves, queue, store, consent, intent,
                            service, counts, wanted, edited, tapped>>

\* lifecycleScope is cancelled: the waiting snapshot and the collector's save end here, an
\* edit the DataStore has not begun included.
onDestroy == /\ activity = "stopped"
             /\ activity' = "gone" /\ uiProfile' = None /\ pending' = None /\ pendingProfile' = None
             /\ loaded' = FALSE
             /\ saves' = [saves EXCEPT ![Collector] = None]
             /\ queue' = RemoveFirst(queue, Collector)
             /\ UNCHANGED <<granted, store, intent, service, counts, ghosts>>

-----------------------------------------------------------------------------
(* Connecting. *)

\* Mutant: the button connects with the profile of the store.
Shown_Stored == Stored

Shown == IF uiProfile = None THEN Stored ELSE uiProfile

\* AetherController.connect.  Bound: one start request at a time.
Send(p) == intent = None /\ intent' = encode(p)

\* The button of the home screen, with the VPN consent given or still to be asked for.
toggleConnection ==
    /\ activity = "started" /\ pendingProfile = None /\ intent = None
    /\ IF service # None
       THEN service' = None /\ UNCHANGED <<pendingProfile, intent, tapped>>
       ELSE /\ tapped' = IF uiProfile = None THEN Stored ELSE uiProfile
            /\ \/ granted /\ Send(Shown) /\ UNCHANGED pendingProfile
               \/ ~granted /\ pendingProfile' = Shown /\ UNCHANGED intent
            /\ UNCHANGED service
    /\ UNCHANGED <<screen, granted, saves, queue, store, counts, wanted, edited, calm>>

\* The consent dialog was answered; the activity that asked must still be there.
vpnPermissionResult == /\ pendingProfile # None /\ activity # "gone"
                       /\ \/ Send(pendingProfile) /\ granted' = TRUE
                          \/ UNCHANGED <<intent, granted>>
                       /\ pendingProfile' = None
                       /\ UNCHANGED <<screen, saves, queue, store, service, counts, ghosts>>

\* The Quick Settings tile and the home-screen widget connect with what is stored; without
\* the consent they only open the activity.
tileConnect == /\ service = None /\ granted
               /\ Send(Stored)
               /\ tapped' = Stored
               /\ UNCHANGED <<screen, saves, queue, store, consent, service, counts, wanted, edited, calm>>

hydrateSecrets(p, s) == IF p.teamAuth = "OFF" THEN p ELSE Over(s, p)

onStartCommand == /\ intent # None
                  /\ \E s \in Readable :
                         /\ service' = hydrateSecrets(decode(intent), s)
                         /\ secrets' = IF decode(intent).teamAuth = "OFF" THEN secrets ELSE s
                  /\ intent' = None
                  /\ calm' = (calm /\ secrets' = secrets)
                  /\ UNCHANGED <<screen, saves, queue, prefs, consent, counts,
                                 wanted, edited, tapped>>

\* The system kills the process and, the service being START_STICKY, starts it again
\* without an intent; without a running service nothing comes back.
processDeath == /\ counts.kills < MaxKills
                /\ counts' = [counts EXCEPT !.kills = @ + 1]
                /\ activity' = "gone" /\ uiProfile' = None /\ loaded' = FALSE /\ pending' = None
                /\ saves' = [w \in Writers |-> None] /\ queue' = <<>>
                /\ pendingProfile' = None /\ intent' = None
                /\ service' = IF service = None THEN None ELSE decode(None)
                /\ calm' = FALSE
                /\ UNCHANGED <<granted, store, wanted, edited, tapped>>

PathNext == \/ onCreate \/ Load \/ collect \/ onStop \/ onRestart \/ onDestroy
            \/ \E e \in Edits : onProfileChange(e)
            \/ \E w \in Writers : callEdit(w) \/ savePrefs(w) \/ saveSecrets(w)
            \/ toggleConnection \/ vpnPermissionResult \/ tileConnect \/ onStartCommand
            \/ processDeath

PathSpec == PathInit /\ [][PathNext]_pathVars

\* The coroutines run; the user and the system need not do anything.
FairSpec == /\ PathSpec
            /\ WF_pathVars(Load) /\ WF_pathVars(collect)
            /\ \A w \in Writers : WF_pathVars(callEdit(w) \/ savePrefs(w) \/ saveSecrets(w))

-----------------------------------------------------------------------------
(* Properties. *)

IsProfile(p) == /\ p = [f \in Fields |-> p[f]]
                /\ \A f \in Fields : p[f] \in Setting(f)
                /\ p.backend \in Backends

\* Type invariant of the path's state.
PathTypeOK ==
    /\ activity \in {"gone", "started", "stopped"}
    /\ \A p \in {uiProfile, pending, pendingProfile, service} \ {None} : IsProfile(p)
    /\ \A w \in Writers : saves[w] # None =>
           IsProfile(saves[w].snapshot) /\ saves[w].step \in Steps
    /\ IsInjective(queue)
    /\ ToSet(queue) = {w \in Writers : saves[w] # None /\ saves[w].step = "prefs"}
    /\ IsProfile(Stored) /\ DOMAIN prefs = StoredFields /\ DOMAIN secrets = SecretFields
    /\ intent # None => DOMAIN intent = CarriedFields
    /\ IsProfile(wanted) /\ edited \subseteq Fields /\ IsProfile(tapped)

TorNames == {"--tor-bridges", "--no-tor-bridges", "--tor-bridge", "AETHER_TOR_CHECK",
             "AETHER_TOR_COUNTRY", "AETHER_TOR_DIRECT_SECS"}
SecretNames == {"AETHER_ACCESS_CLIENT_SECRET", "AETHER_ACCESS_TOKEN"}
Launch(p) == toArgs(p) \cup toEnv(p)
Besides(flags, names) == {f \in flags : f[1] \notin names}
OneLine(p) == \A f \in TextFields \ Lists : Len(p[f]) <= 1

\* The service runs the connect the user asked for, not a restart of the system.
Requested == service # None /\ counts.kills = 0

\* The engine is launched with what the screen showed at the tap, or the store held at a
\* tap of the tile, through the save that may still be waiting, the consent dialog, the
\* intent and a migrated backend name.  Tor settings, secrets and texts of several lines
\* are the subject of properties of their own.
SettingsArrive ==
    Requested /\ OneLine(tapped)
        => Besides(Launch(service), TorNames \cup SecretNames)
               = Besides(Launch(tapped), TorNames \cup SecretNames)

\* A secret only reaches a launch that enrols with it: nothing is sent to an organization
\* that the profile does not name.
SecretsOnlyForTeam == service # None /\ service.teamAuth = "OFF" => Only(service, SecretFields) = NoSecrets

\* What the user has set in this activity is never replaced on the screen, by the initial
\* load or by anything else.
EditsStayOnScreen ==
    counts.creates = 1 /\ counts.kills = 0 /\ uiProfile # None
        => Only(uiProfile, edited) = Only(wanted, edited)

\* While the activity lives every change reaches the store, secrets included, in
\* the runs in which none of the known ways to lose one has occurred.
EditsPersist == <>[](Stored = wanted \/ activity = "gone" \/ ~calm)

\* The same however late the flush of an onStop gets its thread.
LateFlushKeepsEdits == <>[](Stored = wanted \/ activity = "gone")

\* The Tor settings reach the engine.
TorSettingsArrive ==
    Requested => {f \in Launch(service) : f[1] \in TorNames} = {f \in Launch(tapped) : f[1] \in TorNames}

\* A rule list with an entry per line reaches the engine whole.
RulesArrive ==
    Requested => {f \in toArgs(service) : f[1] \in {"--route-block", "--route-direct"}}
                     = {f \in toArgs(tapped) : f[1] \in {"--route-block", "--route-direct"}}

\* A connect uses the credential the screen shows, however soon after typing it comes.
SecretIsCurrent == Requested => TeamEnv(service) = TeamEnv(tapped)

\* A change made before the initial load ended leaves the other saved settings alone.
EarlyEditKeepsRest == \A f \in StoredFields \ (edited \cup {"backend"}) : prefs[f] = wanted[f]

NothingUnderWay == activity = "gone" /\ \A w \in Writers : saves[w] = None

\* Once the activity is gone and its flush is done, the store holds what the user set.
NothingLost == counts.creates > 0 /\ NothingUnderWay => Stored = wanted

\* A recreated activity shows what the user had set.
RecreationKeepsEdits == uiProfile # None => uiProfile = wanted

\* A restart of the service by the system runs the profile that ran before.
UnattendedKeepsProfile ==
    service # None /\ counts.kills > 0
        => Besides(Launch(service), TorNames \cup SecretNames)
               = Besides(Launch(tapped), TorNames \cup SecretNames)
=============================================================================
