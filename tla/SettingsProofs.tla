--------------------------- MODULE SettingsProofs ---------------------------
(***************************************************************************)
(* Machine-checked proofs about what becomes of the user's settings:       *)
(* ConnectPlan, for every profile, every fingerprint of the network and    *)
(* any number of restarts; ProfilePath, for every saved profile, every set *)
(* of edits and any number of them; and the two together, from the screen  *)
(* to the engine's command line.                                           *)
(***************************************************************************)
EXTENDS ConnectPlan, ProfilePath, SequenceTheorems, TLAPS

-----------------------------------------------------------------------------
(* Settings.                                                               *)

Levels == {"OFF", "LIGHT", "FIREWALL", "BALANCED", "GFW", "AGGRESSIVE"}
Covers == {"masqueHttp2", "fragment", "ech"}

\* The order of the obfuscation profiles.
LEMMA Ordinals ==
    /\ ordinal("OFF") = 1 /\ ordinal("LIGHT") = 2 /\ ordinal("FIREWALL") = 3
    /\ ordinal("BALANCED") = 4 /\ ordinal("GFW") = 5 /\ ordinal("AGGRESSIVE") = 6
    /\ \A n \in Levels : ordinal(n) \in 1 .. 6
<1>1. ordinal("OFF") = 1
  BY DEF ordinal, Noize
<1>2. ordinal("LIGHT") = 2
  BY DEF ordinal, Noize
<1>3. ordinal("FIREWALL") = 3
  BY DEF ordinal, Noize
<1>4. ordinal("BALANCED") = 4
  BY DEF ordinal, Noize
<1>5. ordinal("GFW") = 5
  BY DEF ordinal, Noize
<1>6. ordinal("AGGRESSIVE") = 6
  BY DEF ordinal, Noize
<1> QED BY <1>1, <1>2, <1>3, <1>4, <1>5, <1>6 DEF Levels

\* The settings the plans read or change are settings of a profile.
LEMMA FieldFacts ==
    {"backend", "protocol", "scanMode", "noize", "endpointMode", "teamAuth", "masqueHttp2", "fragment",
     "ech", "manualRange", "manualPeer", "proxyMode", "lanShare", "chainedStage", "torBridges"} \subseteq Fields
BY DEF Fields, TextFields, OnByDefault, OffByDefault, Numbers, Enums

LEMMA FormFacts ==
    ASSUME NEW p, WellFormed(p)
    PROVE  /\ p = [f \in Fields |-> p[f]] /\ DOMAIN p = Fields
           /\ p.backend \in Backends /\ p.protocol \in Protocols /\ p.scanMode \in ScanModes
           /\ p.endpointMode \in EndpointModes
           /\ p.teamAuth \in {"OFF", "SERVICE_TOKEN", "EMAIL", "TOKEN"}
           /\ p.noize \in Levels
           /\ p.masqueHttp2 \in BOOLEAN /\ p.fragment \in BOOLEAN /\ p.ech \in BOOLEAN
<1>1. p.noize \in Levels
  BY DEF WellFormed, Noize, Levels
<1>2. p = [f \in Fields |-> p[f]]
  BY DEF WellFormed
<1>3. DOMAIN p = Fields
  BY <1>2
<1> QED BY <1>1, <1>2, <1>3 DEF WellFormed

LEMMA IsWellFormed ==
    ASSUME NEW p, p = [f \in Fields |-> p[f]],
           p.backend \in Backends, p.protocol \in Protocols, p.scanMode \in ScanModes,
           p.endpointMode \in EndpointModes, p.teamAuth \in {"OFF", "SERVICE_TOKEN", "EMAIL", "TOKEN"},
           p.noize \in Levels,
           p.masqueHttp2 \in BOOLEAN, p.fragment \in BOOLEAN, p.ech \in BOOLEAN
    PROVE  WellFormed(p)
<1>1. \E i \in DOMAIN Noize : p.noize = Noize[i]
  BY DEF Noize, Levels
<1> QED BY <1>1 DEF WellFormed

\* Whatever the wait, it is a number of seconds.
LEMMA TimeoutType ==
    ASSUME NEW p, WellFormed(p)
    PROVE  connectTimeout(p) \in Nat
<1>1. p.scanMode \in ScanModes
  BY FormFacts
<1> QED BY <1>1 DEF connectTimeout, ScanModes

-----------------------------------------------------------------------------
(* What a launch keeps of the profile the user asked for.                  *)

\* The way Tor takes part, the cover and a pinned endpoint.
Cover(u, q) == /\ ordinal(q.noize) >= ordinal(u.noize)
               /\ u.masqueHttp2 => q.masqueHttp2
               /\ u.fragment => q.fragment
               /\ u.ech => q.ech

Endpoint(u, q) == /\ q.manualPeer = u.manualPeer
                  /\ u.endpointMode # "AUTO" => /\ q.endpointMode = u.endpointMode
                                                /\ q.manualRange = u.manualRange

Keeps(u, q) == /\ WellFormed(q) /\ torMode(q.backend) = torMode(u.backend)
               /\ Cover(u, q) /\ Endpoint(u, q)
               /\ u.protocol # "AUTO" /\ torMode(u.backend) # "REVERSE" => q.protocol = u.protocol
               /\ usesWarp(u.backend) => q.protocol # "AUTO"

\* One strategy of the ladder.
LEMMA CandKeeps ==
    ASSUME NEW u, WellFormed(u), NEW f, NEW proto \in {"WIREGUARD", "MASQUE", "GOOL"},
           NEW noize \in Levels, NEW h2, NEW hard,
           NEW c, c = cand(u, f, proto, noize, h2, hard)
    PROVE  /\ WellFormed(c.profile) /\ c.profile.protocol = proto /\ c.profile.backend = u.backend
           /\ Cover(u, c.profile) /\ Endpoint(u, c.profile) /\ c.profile.scanMode = "TURBO"
           /\ u.endpointMode = "AUTO" /\ f.best # Blank => c.profile.endpointMode = "MANUAL_RANGE"
           /\ u.endpointMode = "AUTO" /\ f.best = Blank => c.profile.endpointMode = "AUTO"
           /\ c.timeout = connectTimeout(c.profile)
<1> DEFINE stronger == IF ordinal(u.noize) >= ordinal(noize) THEN u.noize ELSE noize
           merged == IF stronger = "OFF" /\ f.iranCellular THEN "LIGHT" ELSE stronger
           tuned == [u EXCEPT !.protocol = proto, !.noize = merged,
                              !.masqueHttp2 = @ \/ (h2 /\ proto = "MASQUE"),
                              !.fragment = @ \/ hard, !.ech = @ \/ hard,
                              !.scanMode = "TURBO"]
           ranged == [tuned EXCEPT !.endpointMode = "MANUAL_RANGE", !.manualRange = f.best]
           p == IF u.endpointMode = "AUTO" /\ f.best # Blank THEN ranged ELSE tuned
<1>0. c.profile = p /\ c.timeout = connectTimeout(p)
  BY DEF cand, AutoCandidate
<1>1. /\ u = [x \in Fields |-> u[x]] /\ DOMAIN u = Fields
      /\ u.backend \in Backends /\ u.protocol \in Protocols /\ u.scanMode \in ScanModes
      /\ u.endpointMode \in EndpointModes
      /\ u.teamAuth \in {"OFF", "SERVICE_TOKEN", "EMAIL", "TOKEN"}
      /\ u.noize \in Levels
      /\ u.masqueHttp2 \in BOOLEAN /\ u.fragment \in BOOLEAN /\ u.ech \in BOOLEAN
  BY FormFacts
<1>2. merged \in Levels /\ ordinal(merged) >= ordinal(u.noize)
  <2>1. stronger \in Levels /\ ordinal(stronger) >= ordinal(u.noize)
    BY <1>1, Ordinals
  <2>2. stronger = "OFF" => ordinal("LIGHT") >= ordinal(u.noize) /\ "LIGHT" \in Levels
    BY <2>1, Ordinals, <1>1 DEF Levels
  <2> HIDE DEF stronger
  <2> QED BY <2>1, <2>2
<1> HIDE DEF merged
<1>3. /\ tuned = [x \in Fields |-> tuned[x]] /\ DOMAIN tuned = Fields
      /\ tuned.protocol = proto /\ tuned.noize = merged /\ tuned.scanMode = "TURBO"
      /\ tuned.masqueHttp2 = (u.masqueHttp2 \/ (h2 /\ proto = "MASQUE"))
      /\ tuned.fragment = (u.fragment \/ hard) /\ tuned.ech = (u.ech \/ hard)
      /\ tuned.backend = u.backend /\ tuned.endpointMode = u.endpointMode
      /\ tuned.teamAuth = u.teamAuth /\ tuned.manualPeer = u.manualPeer
      /\ tuned.manualRange = u.manualRange
  BY <1>1, FieldFacts
<1> HIDE DEF tuned
<1>4. /\ ranged = [x \in Fields |-> ranged[x]]
      /\ ranged.endpointMode = "MANUAL_RANGE"
      /\ \A x \in Fields \ {"endpointMode", "manualRange"} : ranged[x] = tuned[x]
  BY <1>3, FieldFacts
<1>5. /\ ranged.protocol = tuned.protocol /\ ranged.noize = tuned.noize
      /\ ranged.scanMode = tuned.scanMode /\ ranged.masqueHttp2 = tuned.masqueHttp2
      /\ ranged.fragment = tuned.fragment /\ ranged.ech = tuned.ech
      /\ ranged.backend = tuned.backend /\ ranged.teamAuth = tuned.teamAuth
      /\ ranged.manualPeer = tuned.manualPeer
  BY <1>4, FieldFacts
<1> HIDE DEF ranged
<1>6. /\ p = [x \in Fields |-> p[x]]
      /\ p.protocol = proto /\ p.noize = merged /\ p.scanMode = "TURBO"
      /\ p.backend = u.backend /\ p.teamAuth = u.teamAuth /\ p.manualPeer = u.manualPeer
  BY <1>3, <1>4, <1>5
<1>7. /\ p.masqueHttp2 = tuned.masqueHttp2 /\ p.fragment = tuned.fragment /\ p.ech = tuned.ech
  BY <1>5
<1>8. /\ p.masqueHttp2 \in BOOLEAN /\ (u.masqueHttp2 => p.masqueHttp2)
      /\ p.fragment \in BOOLEAN /\ (u.fragment => p.fragment)
      /\ p.ech \in BOOLEAN /\ (u.ech => p.ech)
  <2> HIDE DEF p
  <2> QED BY <1>3, <1>7, Zenon
<1>9. /\ u.endpointMode # "AUTO" => p.endpointMode = u.endpointMode /\ p.manualRange = u.manualRange
      /\ u.endpointMode = "AUTO" /\ f.best # Blank => p.endpointMode = "MANUAL_RANGE"
      /\ u.endpointMode = "AUTO" /\ f.best = Blank => p.endpointMode = "AUTO"
      /\ p.endpointMode \in EndpointModes
  BY <1>1, <1>3, <1>4 DEF EndpointModes
<1> HIDE DEF p
<1>10. WellFormed(p)
  BY <1>1, <1>2, <1>6, <1>8, <1>9, IsWellFormed DEF Protocols, ScanModes
<1>11. Cover(u, p)
  BY <1>2, <1>6, <1>8 DEF Cover
<1>12. Endpoint(u, p)
  BY <1>6, <1>9 DEF Endpoint
<1> QED BY <1>0, <1>6, <1>9, <1>10, <1>11, <1>12

-----------------------------------------------------------------------------
(* The plans.                                                              *)

\* A strategy of the ladder for f: what CandKeeps says of it.
Strategy(u, f, c) ==
    LET q == c.profile IN
    /\ WellFormed(q) /\ q.protocol \in {"WIREGUARD", "MASQUE", "GOOL"} /\ q.backend = u.backend
    /\ Cover(u, q) /\ Endpoint(u, q) /\ q.scanMode = "TURBO"
    /\ u.endpointMode = "AUTO" /\ f.best # Blank => q.endpointMode = "MANUAL_RANGE"
    /\ u.endpointMode = "AUTO" /\ f.best = Blank => q.endpointMode = "AUTO"
    /\ c.timeout \in Nat

\* The ladder has three of them, whatever the probes concluded.
LEMMA LadderFacts ==
    ASSUME NEW u, WellFormed(u), NEW f \in Fingerprints
    PROVE  /\ Len(ladder(u, f)) = 3 /\ DOMAIN ladder(u, f) = 1 .. 3
           /\ \A i \in 1 .. 3 : Strategy(u, f, ladder(u, f)[i])
           /\ \E a, b, c : ladder(u, f) = <<a, b, c>>
<1>1. \A proto \in {"WIREGUARD", "MASQUE", "GOOL"}, noize \in Levels, h2, hard \in BOOLEAN :
          Strategy(u, f, cand(u, f, proto, noize, h2, hard))
  <2> SUFFICES ASSUME NEW proto \in {"WIREGUARD", "MASQUE", "GOOL"}, NEW noize \in Levels,
                      NEW h2 \in BOOLEAN, NEW hard \in BOOLEAN
               PROVE  Strategy(u, f, cand(u, f, proto, noize, h2, hard))
    OBVIOUS
  <2>0. PICK c : c = cand(u, f, proto, noize, h2, hard)
    OBVIOUS
  <2>1. /\ WellFormed(c.profile) /\ c.profile.protocol = proto /\ c.profile.backend = u.backend
        /\ Cover(u, c.profile) /\ Endpoint(u, c.profile) /\ c.profile.scanMode = "TURBO"
        /\ u.endpointMode = "AUTO" /\ f.best # Blank => c.profile.endpointMode = "MANUAL_RANGE"
        /\ u.endpointMode = "AUTO" /\ f.best = Blank => c.profile.endpointMode = "AUTO"
        /\ c.timeout = connectTimeout(c.profile)
    BY <2>0, CandKeeps
  <2>2. c.timeout \in Nat
    BY <2>1, TimeoutType
  <2>3. Strategy(u, f, c)
    BY <2>1, <2>2 DEF Strategy
  <2> QED BY <2>0, <2>3
<1>2. \E a, b, c : Strategy(u, f, a) /\ Strategy(u, f, b) /\ Strategy(u, f, c) /\ ladder(u, f) = <<a, b, c>>
  <2>0. f.dpiClass \in {"OPEN", "SNI_FILTERING", "UDP_THROTTLED", "HOSTILE"}
    <3>1. f.dpiClass \in {DpiClass(x, t) : x, t \in BOOLEAN}
      BY DEF Fingerprints
    <3> QED BY <3>1 DEF DpiClass
  <2>1. CASE f.dpiClass = "OPEN"
    <3> DEFINE a == cand(u, f, "WIREGUARD", "OFF", FALSE, FALSE)
               b == cand(u, f, "MASQUE", "OFF", FALSE, FALSE)
               c == cand(u, f, "GOOL", "LIGHT", FALSE, FALSE)
    <3>1. ladder(u, f) = <<a, b, c>>
      BY <2>1 DEF ladder
    <3>2. Strategy(u, f, a) /\ Strategy(u, f, b) /\ Strategy(u, f, c)
      BY <1>1 DEF Levels
    <3> HIDE DEF a, b, c
    <3> QED BY <3>1, <3>2
  <2>2. CASE f.dpiClass = "SNI_FILTERING"
    <3> DEFINE a == cand(u, f, "WIREGUARD", "BALANCED", FALSE, FALSE)
               b == cand(u, f, "GOOL", "BALANCED", FALSE, FALSE)
               c == cand(u, f, "MASQUE", "FIREWALL", FALSE, TRUE)
    <3>1. ladder(u, f) = <<a, b, c>>
      BY <2>2 DEF ladder
    <3>2. Strategy(u, f, a) /\ Strategy(u, f, b) /\ Strategy(u, f, c)
      BY <1>1 DEF Levels
    <3> HIDE DEF a, b, c
    <3> QED BY <3>1, <3>2
  <2>3. CASE f.dpiClass = "UDP_THROTTLED"
    <3> DEFINE a == cand(u, f, "MASQUE", "LIGHT", TRUE, TRUE)
               b == cand(u, f, "GOOL", "AGGRESSIVE", FALSE, FALSE)
               c == cand(u, f, "WIREGUARD", "GFW", FALSE, FALSE)
    <3>1. ladder(u, f) = <<a, b, c>>
      BY <2>3 DEF ladder
    <3>2. Strategy(u, f, a) /\ Strategy(u, f, b) /\ Strategy(u, f, c)
      BY <1>1 DEF Levels
    <3> HIDE DEF a, b, c
    <3> QED BY <3>1, <3>2
  <2>4. CASE f.dpiClass = "HOSTILE"
    <3> DEFINE a == cand(u, f, "MASQUE", "GFW", TRUE, TRUE)
               b == cand(u, f, "GOOL", "AGGRESSIVE", FALSE, FALSE)
               c == cand(u, f, "WIREGUARD", "AGGRESSIVE", FALSE, FALSE)
    <3>1. ladder(u, f) = <<a, b, c>>
      BY <2>4 DEF ladder
    <3>2. Strategy(u, f, a) /\ Strategy(u, f, b) /\ Strategy(u, f, c)
      BY <1>1 DEF Levels
    <3> HIDE DEF a, b, c
    <3> QED BY <3>1, <3>2
  <2> QED BY <2>0, <2>1, <2>2, <2>3, <2>4
<1>3. PICK a, b, c : Strategy(u, f, a) /\ Strategy(u, f, b) /\ Strategy(u, f, c) /\ ladder(u, f) = <<a, b, c>>
  BY <1>2
<1> QED BY <1>3

\* The last resort is the first strategy on the engine's own ranges and the
\* user's scan mode.
LEMMA FallbackFacts ==
    ASSUME NEW u, WellFormed(u), NEW f \in Fingerprints, NEW d, d = fallback(u, f)
    PROVE  /\ WellFormed(d.profile) /\ d.profile.protocol \in {"WIREGUARD", "MASQUE", "GOOL"}
           /\ d.profile.backend = u.backend
           /\ Cover(u, d.profile) /\ Endpoint(u, d.profile) /\ d.profile.scanMode = u.scanMode
           /\ u.endpointMode = "AUTO" => d.profile.endpointMode = "AUTO"
           /\ d.timeout \in Nat
<1> DEFINE s == ladder(u, f)[1].profile
           first == [s EXCEPT !.scanMode = u.scanMode]
           p == IF u.endpointMode = "AUTO"
                THEN [first EXCEPT !.endpointMode = "AUTO", !.manualRange = u.manualRange]
                ELSE first
<1>0. d.profile = p /\ d.timeout = connectTimeout(p)
  BY DEF fallback, AutoCandidate
<1>1. /\ WellFormed(s) /\ s.protocol \in {"WIREGUARD", "MASQUE", "GOOL"} /\ s.backend = u.backend
      /\ Cover(u, s) /\ Endpoint(u, s)
  <2>1. Strategy(u, f, ladder(u, f)[1])
    BY LadderFacts
  <2> QED BY <2>1 DEF Strategy
<1> HIDE DEF s
<1>2. /\ s = [x \in Fields |-> s[x]] /\ DOMAIN s = Fields
      /\ s.endpointMode \in EndpointModes /\ s.teamAuth \in {"OFF", "SERVICE_TOKEN", "EMAIL", "TOKEN"}
      /\ s.noize \in Levels /\ s.backend \in Backends
      /\ s.masqueHttp2 \in BOOLEAN /\ s.fragment \in BOOLEAN /\ s.ech \in BOOLEAN
  BY <1>1, FormFacts
<1>3. /\ first = [x \in Fields |-> first[x]] /\ DOMAIN first = Fields /\ first.scanMode = u.scanMode
      /\ \A x \in Fields \ {"scanMode"} : first[x] = s[x]
  BY <1>2, FieldFacts
<1> HIDE DEF first
<1>4. /\ p = [x \in Fields |-> p[x]]
      /\ \A x \in Fields \ {"endpointMode", "manualRange"} : p[x] = first[x]
      /\ u.endpointMode = "AUTO" => p.endpointMode = "AUTO"
      /\ u.endpointMode # "AUTO" => p = first
  BY <1>3, FieldFacts
<1> HIDE DEF p
<1>5. /\ p.protocol = s.protocol /\ p.noize = s.noize /\ p.backend = s.backend
      /\ p.masqueHttp2 = s.masqueHttp2 /\ p.fragment = s.fragment /\ p.ech = s.ech
      /\ p.teamAuth = s.teamAuth /\ p.manualPeer = s.manualPeer /\ p.scanMode = u.scanMode
  BY <1>3, <1>4, FieldFacts
<1>6. u.endpointMode # "AUTO" => p.endpointMode = s.endpointMode /\ p.manualRange = s.manualRange
  BY <1>3, <1>4, FieldFacts
<1>7. p.endpointMode \in EndpointModes
  BY <1>2, <1>4, <1>6 DEF EndpointModes
<1>8. WellFormed(p)
  <2>1. u.scanMode \in ScanModes
    BY FormFacts
  <2>2. p.protocol \in Protocols
    BY <1>1, <1>5 DEF Protocols
  <2> QED BY <1>2, <1>4, <1>5, <1>7, <2>1, <2>2, IsWellFormed
<1>9. Cover(u, p) /\ Endpoint(u, p)
  BY <1>1, <1>5, <1>6 DEF Cover, Endpoint
<1>10. connectTimeout(p) \in Nat
  BY <1>8, TimeoutType
<1> QED BY <1>0, <1>1, <1>4, <1>5, <1>8, <1>9, <1>10

\* A plan for u: it has an attempt, each keeps what was asked for, and with no
\* endpoint pinned the last one is on the engine's own ranges.
Unrestricted(u, q) == u.endpointMode = "AUTO" /\ usesWarp(u.backend)
                        => q.endpointMode = "AUTO" /\ q.scanMode = u.scanMode

PlanFor(u, plan) ==
    /\ Len(plan) \in Nat \ {0} /\ DOMAIN plan = 1 .. Len(plan)
    /\ \A i \in 1 .. Len(plan) : Keeps(u, plan[i].profile) /\ plan[i].timeout \in Nat
    /\ Unrestricted(u, plan[Len(plan)].profile)

LEMMA SinglePlan ==
    ASSUME NEW u, NEW c, Keeps(u, c.profile), c.timeout \in Nat, Unrestricted(u, c.profile)
    PROVE  PlanFor(u, <<c>>)
BY DEF PlanFor

LEMMA StrategyKeeps ==
    ASSUME NEW u, u.protocol = "AUTO", NEW q, WellFormed(q), q.backend = u.backend,
           q.protocol \in {"WIREGUARD", "MASQUE", "GOOL"}, Cover(u, q), Endpoint(u, q)
    PROVE  Keeps(u, q)
BY DEF Keeps

\* SmartAuto's plan.
LEMMA BuildPlanFacts ==
    ASSUME NEW u, WellFormed(u), u.protocol = "AUTO", NEW f \in Fingerprints
    PROVE  PlanFor(u, buildPlan(u, f))
<1>l. PICK l : l = ladder(u, f)
  OBVIOUS
<1>1. /\ Len(l) = 3 /\ DOMAIN l = 1 .. 3
      /\ \A i \in 1 .. 3 : Strategy(u, f, l[i])
  BY <1>l, LadderFacts
<1>d. PICK d : d = fallback(u, f)
  OBVIOUS
<1>2. /\ WellFormed(d.profile) /\ d.profile.protocol \in {"WIREGUARD", "MASQUE", "GOOL"}
      /\ d.profile.backend = u.backend
      /\ Cover(u, d.profile) /\ Endpoint(u, d.profile) /\ d.profile.scanMode = u.scanMode
      /\ u.endpointMode = "AUTO" => d.profile.endpointMode = "AUTO"
      /\ d.timeout \in Nat
  BY <1>d, FallbackFacts
<1>3. Keeps(u, d.profile) /\ Unrestricted(u, d.profile)
  BY <1>2, StrategyKeeps DEF Unrestricted
<1>4. \A i \in 1 .. 3 : Keeps(u, l[i].profile) /\ l[i].timeout \in Nat
  BY <1>1, StrategyKeeps DEF Strategy
<1>5. CASE \E i \in DOMAIN l : l[i].profile = d.profile
  <2>1. buildPlan(u, f) = l
    BY <1>5, <1>l, <1>d DEF buildPlan
  <2>2. PICK i \in 1 .. 3 : l[i].profile = d.profile
    BY <1>1, <1>5
  <2>3. /\ l[i].profile.scanMode = "TURBO" /\ l[3].profile.scanMode = "TURBO"
        /\ u.endpointMode = "AUTO" /\ f.best # Blank => l[i].profile.endpointMode = "MANUAL_RANGE"
        /\ u.endpointMode = "AUTO" /\ f.best = Blank => l[3].profile.endpointMode = "AUTO"
    BY <1>1, <2>2 DEF Strategy
  <2>4. Unrestricted(u, l[3].profile)
    BY <1>2, <2>2, <2>3 DEF Unrestricted
  <2>5. Len(l) \in Nat \ {0} /\ 1 .. Len(l) = 1 .. 3
    BY <1>1
  <2>6. PlanFor(u, l)
    BY <1>1, <1>4, <2>4, <2>5, Zenon DEF PlanFor
  <2> QED BY <2>1, <2>6
<1>6. CASE ~\E i \in DOMAIN l : l[i].profile = d.profile
  <2>1. buildPlan(u, f) = Append(l, d)
    BY <1>6, <1>l, <1>d DEF buildPlan
  <2>2. PICK a, b, c : l = <<a, b, c>>
    BY <1>l, LadderFacts
  <2>3. l \in Seq({a, b, c, d}) /\ d \in {a, b, c, d}
    BY <2>2
  <2>4. PICK plan : plan = Append(l, d)
    OBVIOUS
  <2>5. /\ Len(plan) = 4 /\ DOMAIN plan = 1 .. 4 /\ plan[4] = d
        /\ plan[1] = l[1] /\ plan[2] = l[2] /\ plan[3] = l[3]
    <3>0. PICK S : l \in Seq(S) /\ d \in S
      BY <2>3
    <3>1. /\ Len(Append(l, d)) = Len(l) + 1
          /\ \A i \in 1 .. Len(l) : Append(l, d)[i] = l[i]
          /\ Append(l, d)[Len(l) + 1] = d
          /\ Append(l, d) \in Seq(S)
      BY <3>0, AppendProperties
    <3>2. DOMAIN Append(l, d) = 1 .. Len(Append(l, d))
      BY <3>1
    <3>3. /\ Len(Append(l, d)) = 4 /\ Append(l, d)[4] = d
          /\ Append(l, d)[1] = l[1] /\ Append(l, d)[2] = l[2] /\ Append(l, d)[3] = l[3]
      BY <1>1, <3>1
    <3> QED BY <2>4, <3>2, <3>3
  <2>6. \A i \in 1 .. 4 : i \in 1 .. 3 \/ i = 4
    OBVIOUS
  <2>7. \A i \in 1 .. 4 : Keeps(u, plan[i].profile) /\ plan[i].timeout \in Nat
    BY <1>2, <1>3, <1>4, <2>5, <2>6
  <2> QED BY <1>3, <2>1, <2>4, <2>5, <2>7 DEF PlanFor
<1> QED BY <1>5, <1>6

\* The two passes of a protocol picked by hand.
LEMMA DirectPlanFacts ==
    ASSUME NEW u, WellFormed(u), u.protocol # "AUTO"
    PROVE  PlanFor(u, directPlan(u))
<1> DEFINE masque == u.protocol = "MASQUE"
           hardened == [u EXCEPT !.noize = IF @ = "OFF" THEN "FIREWALL" ELSE @,
                                 !.masqueHttp2 = @ \/ masque, !.fragment = @ \/ masque,
                                 !.ech = @ \/ masque]
           full == connectTimeout(u)
           short == IF full < FIRST_PASS_MAX THEN full ELSE FIRST_PASS_MAX
<1>0. directPlan(u) = IF hardened = u THEN <<AutoCandidate(u, full)>>
                      ELSE <<AutoCandidate(u, short), AutoCandidate(hardened, full)>>
  BY DEF directPlan
<1>1. /\ u = [x \in Fields |-> u[x]] /\ DOMAIN u = Fields
      /\ u.backend \in Backends /\ u.protocol \in Protocols /\ u.scanMode \in ScanModes
      /\ u.endpointMode \in EndpointModes
      /\ u.teamAuth \in {"OFF", "SERVICE_TOKEN", "EMAIL", "TOKEN"}
      /\ u.noize \in Levels
      /\ u.masqueHttp2 \in BOOLEAN /\ u.fragment \in BOOLEAN /\ u.ech \in BOOLEAN
  BY FormFacts
<1>2. full \in Nat /\ short \in Nat
  BY TimeoutType DEF FIRST_PASS_MAX
<1>3. Keeps(u, u) /\ Unrestricted(u, u)
  <2>1. ordinal(u.noize) >= ordinal(u.noize)
    BY <1>1, Ordinals
  <2> QED BY <2>1 DEF Keeps, Unrestricted, Cover, Endpoint
<1>h. PICK h : h = hardened
  OBVIOUS
<1>4. /\ h = [x \in Fields |-> h[x]]
      /\ h.noize = (IF u.noize = "OFF" THEN "FIREWALL" ELSE u.noize)
      /\ h.masqueHttp2 = (u.masqueHttp2 \/ masque) /\ h.fragment = (u.fragment \/ masque)
      /\ h.ech = (u.ech \/ masque)
      /\ h.backend = u.backend /\ h.protocol = u.protocol /\ h.scanMode = u.scanMode
      /\ h.endpointMode = u.endpointMode /\ h.teamAuth = u.teamAuth
      /\ h.manualPeer = u.manualPeer /\ h.manualRange = u.manualRange
  BY <1>1, <1>h, FieldFacts
<1>5. h.noize \in Levels /\ ordinal(h.noize) >= ordinal(u.noize)
  BY <1>1, <1>4, Ordinals DEF Levels
<1>6. /\ h.masqueHttp2 \in BOOLEAN /\ h.fragment \in BOOLEAN /\ h.ech \in BOOLEAN
      /\ u.masqueHttp2 => h.masqueHttp2
      /\ u.fragment => h.fragment
      /\ u.ech => h.ech
  <2> HIDE DEF masque
  <2> QED BY <1>4, Zenon
<1>7. WellFormed(h)
  BY <1>1, <1>4, <1>5, <1>6, IsWellFormed
<1>8. Cover(u, h) /\ Endpoint(u, h)
  BY <1>4, <1>5, <1>6 DEF Cover, Endpoint
<1>9. Keeps(u, h) /\ Unrestricted(u, h)
  BY <1>4, <1>7, <1>8 DEF Keeps, Unrestricted
<1>10. \A q, n : AutoCandidate(q, n).profile = q /\ AutoCandidate(q, n).timeout = n
  BY DEF AutoCandidate
<1> HIDE DEF hardened, full, short
<1>11. CASE hardened = u
  <2>1. PICK c : c = AutoCandidate(u, full)
    OBVIOUS
  <2>2. c.profile = u /\ c.timeout = full /\ directPlan(u) = <<c>>
    BY <1>0, <1>10, <1>11, <2>1
  <2> QED BY <1>2, <1>3, <2>2, SinglePlan
<1>12. CASE hardened # u
  <2>1. PICK a, b : a = AutoCandidate(u, short) /\ b = AutoCandidate(h, full)
    OBVIOUS
  <2>2. a.profile = u /\ a.timeout = short /\ b.profile = h /\ b.timeout = full
    BY <1>10, <2>1
  <2>3. directPlan(u) = <<a, b>>
    BY <1>0, <1>h, <1>12, <2>1
  <2>4. Keeps(u, a.profile) /\ Keeps(u, b.profile) /\ a.timeout \in Nat /\ b.timeout \in Nat
        /\ Unrestricted(u, b.profile)
    BY <1>2, <1>3, <1>9, <2>2
  <2> QED BY <2>3, <2>4 DEF PlanFor
<1> QED BY <1>11, <1>12

-----------------------------------------------------------------------------
(* The plan of a session.                                                  *)

\* The settings Keeps and Unrestricted look at.
SameAsked(u, s) ==
    /\ torMode(s.backend) = torMode(u.backend)
    /\ s.protocol = u.protocol /\ s.noize = u.noize /\ s.scanMode = u.scanMode
    /\ s.masqueHttp2 = u.masqueHttp2 /\ s.fragment = u.fragment /\ s.ech = u.ech
    /\ s.endpointMode = u.endpointMode /\ s.manualPeer = u.manualPeer /\ s.manualRange = u.manualRange

LEMMA SamePlan ==
    ASSUME NEW u, NEW s, SameAsked(u, s), NEW plan, PlanFor(s, plan)
    PROVE  PlanFor(u, plan)
<1>1. \A q : Keeps(s, q) => Keeps(u, q)
  BY DEF SameAsked, Keeps, Cover, Endpoint, usesWarp
<1>2. \A q : Unrestricted(s, q) => Unrestricted(u, q)
  BY DEF SameAsked, Unrestricted, usesWarp
<1> QED BY <1>1, <1>2, Zenon DEF PlanFor

\* Staging a session changes its backend, not the way Tor takes part.
LEMMA StageFacts ==
    ASSUME NEW p, WellFormed(p), Staged(p), NEW s, s = stageOf(p)
    PROVE  /\ WellFormed(s) /\ SameAsked(p, s) /\ torMode(s.backend) # "REVERSE"
<1>1. /\ p = [x \in Fields |-> p[x]] /\ DOMAIN p = Fields
      /\ p.backend \in Backends /\ p.protocol \in Protocols /\ p.scanMode \in ScanModes
      /\ p.endpointMode \in EndpointModes
      /\ p.teamAuth \in {"OFF", "SERVICE_TOKEN", "EMAIL", "TOKEN"}
      /\ p.noize \in Levels
      /\ p.masqueHttp2 \in BOOLEAN /\ p.fragment \in BOOLEAN /\ p.ech \in BOOLEAN
  BY FormFacts
<1> DEFINE b == CASE torMode(p.backend) = "CHAIN"   -> "AETHER_TOR"
                  [] torMode(p.backend) = "ONLY"    -> "TOR"
                  [] torMode(p.backend) = "REVERSE" -> "TOR_AETHER"
                  [] OTHER                          -> "AETHER"
<1>2. /\ torMode(p.backend) \in {"CHAIN", "ONLY", "none"}
  BY <1>1 DEF Staged, usesExternal, needsTorFront, torMode, Backends
<1>3. b \in Backends /\ torMode(b) = torMode(p.backend)
  <2>1. CASE torMode(p.backend) = "CHAIN"
    BY <2>1 DEF torMode, Backends
  <2>2. CASE torMode(p.backend) = "ONLY"
    BY <2>2 DEF torMode, Backends
  <2>3. CASE torMode(p.backend) = "none"
    <3>1. b = "AETHER"
      BY <2>3
    <3> QED BY <2>3, <3>1 DEF torMode, Backends
  <2> QED BY <1>2, <2>1, <2>2, <2>3
<1>4. s = [p EXCEPT !.backend = b, !.proxyMode = FALSE, !.lanShare = FALSE, !.chainedStage = TRUE]
  BY DEF stageOf
<1> HIDE DEF b
<1>5. /\ s = [x \in Fields |-> s[x]] /\ s.backend = b
      /\ \A x \in Fields \ {"backend", "proxyMode", "lanShare", "chainedStage"} : s[x] = p[x]
  <2>1. DOMAIN s = Fields /\ s.backend = b
    BY <1>1, <1>4, FieldFacts
  <2>2. \A x \in Fields \ {"backend", "proxyMode", "lanShare", "chainedStage"} : s[x] = p[x]
    BY <1>1, <1>4
  <2>3. s = [x \in Fields |-> s[x]]
    BY <1>1, <1>4
  <2> QED BY <2>1, <2>2, <2>3
<1>8. /\ s.protocol = p.protocol /\ s.noize = p.noize /\ s.scanMode = p.scanMode
      /\ s.masqueHttp2 = p.masqueHttp2 /\ s.fragment = p.fragment /\ s.ech = p.ech
      /\ s.endpointMode = p.endpointMode /\ s.manualPeer = p.manualPeer /\ s.manualRange = p.manualRange
      /\ s.teamAuth = p.teamAuth
  BY <1>5, FieldFacts
<1>6. WellFormed(s)
  BY <1>1, <1>3, <1>5, <1>8, IsWellFormed
<1>7. SameAsked(p, s)
  BY <1>3, <1>5, <1>8 DEF SameAsked
<1> QED BY <1>2, <1>3, <1>5, <1>6, <1>7

\* The stage-1 plan of the chained and Tor modes.
LEMMA StagePlanFacts ==
    ASSUME NEW p, WellFormed(p), Staged(p), NEW f, NeedsProbe(p) => f \in Fingerprints
    PROVE  PlanFor(p, connectAetherStage(p, f))
<1>1. PICK s : s = stageOf(p)
  OBVIOUS
<1>2. WellFormed(s) /\ SameAsked(p, s) /\ torMode(s.backend) # "REVERSE"
  BY <1>1, StageFacts
<1>3. CASE ~usesWarp(s.backend)
  <2>1. PICK c : c = AutoCandidate(s, torBudget(s))
    OBVIOUS
  <2>2. c.profile = s /\ c.timeout = torBudget(s)
    BY <2>1 DEF AutoCandidate
  <2>3. c.timeout \in Nat
    BY <2>2 DEF torBudget, TOR_BRIDGE_BUDGET, TOR_BOOTSTRAP_TIMEOUT
  <2>4. s.noize \in Levels
    BY <1>2, FormFacts
  <2>5. ordinal(s.noize) >= ordinal(s.noize)
    BY <2>4, Ordinals
  <2>6. Keeps(s, s) /\ Unrestricted(s, s)
    BY <1>2, <1>3, <2>5 DEF Keeps, Unrestricted, Cover, Endpoint
  <2>7. PlanFor(s, <<c>>)
    BY <2>2, <2>3, <2>6, SinglePlan
  <2>8. connectAetherStage(p, f) = <<c>>
    BY <1>1, <1>3, <2>1 DEF connectAetherStage
  <2> QED BY <1>2, <2>7, <2>8, SamePlan
<1>4. CASE usesWarp(s.backend) /\ s.protocol = "AUTO"
  <2>1. f \in Fingerprints
    BY <1>2, <1>4 DEF NeedsProbe, SameAsked, usesWarp
  <2>2. connectAetherStage(p, f) = buildPlan(s, f)
    BY <1>1, <1>2, <1>4 DEF connectAetherStage
  <2>3. PlanFor(s, buildPlan(s, f))
    BY <1>2, <1>4, <2>1, BuildPlanFacts
  <2> QED BY <1>2, <2>2, <2>3, SamePlan
<1>5. CASE usesWarp(s.backend) /\ s.protocol # "AUTO"
  <2>1. connectAetherStage(p, f) = directPlan(s)
    BY <1>1, <1>2, <1>5 DEF connectAetherStage
  <2>2. PlanFor(s, directPlan(s))
    BY <1>2, <1>5, DirectPlanFacts
  <2> QED BY <1>2, <2>1, <2>2, SamePlan
<1> QED BY <1>3, <1>4, <1>5

\* Once the network was probed where the plan needs it, there is a plan for the
\* profile that was asked for.
LEMMA PlanFacts ==
    ASSUME WellFormed(asked), NeedsProbe(asked) => fp \in Fingerprints
    PROVE  PlanFor(asked, Plan)
<1>1. CASE Staged(asked)
  <2>1. PlanFor(asked, connectAetherStage(asked, fp))
    BY <1>1, StagePlanFacts
  <2> QED BY <1>1, <2>1 DEF Plan
<1>2. CASE ~Staged(asked) /\ asked.protocol = "AUTO"
  <2>1. PlanFor(asked, buildPlan(asked, fp))
    BY <1>2, BuildPlanFacts DEF NeedsProbe
  <2> QED BY <1>2, <2>1 DEF Plan
<1>3. CASE ~Staged(asked) /\ asked.protocol # "AUTO"
  <2>1. PlanFor(asked, directPlan(asked))
    BY <1>3, DirectPlanFacts
  <2> QED BY <1>3, <2>1 DEF Plan
<1> QED BY <1>1, <1>2, <1>3

-----------------------------------------------------------------------------
(* The command line and the environment of a launch.                       *)

TorFlags == {"--tor", "--tor-only", "--tor-reverse"}

\* The protocol flags of a command line are those of the protocol.
LEMMA WarpProtocol ==
    ASSUME NEW p, NEW x \in WarpArgs(p), x[1] \in ProtocolFlags
    PROVE  x \in ProtocolArgs(p)
BY DEF WarpArgs, Flag, TextFlag, SecsFlag, ProtocolFlags

LEMMA WarpOthers ==
    ASSUME NEW p, NEW x \in WarpArgs(p)
    PROVE  /\ x[1] \notin TorFlags
           /\ x[1] = "--scan" => x = <<"--scan", <<p.scanMode>>>>
<1>1. x \in ProtocolArgs(p) => x[1] \in ProtocolFlags
  BY DEF ProtocolArgs, Flag, ProtocolFlags
<1>2. x[1] \notin TorFlags
  BY <1>1 DEF WarpArgs, Flag, TextFlag, SecsFlag, ProtocolFlags, TorFlags
<1>3. x[1] = "--scan" => x = <<"--scan", <<p.scanMode>>>>
  BY <1>1 DEF WarpArgs, Flag, TextFlag, SecsFlag, ProtocolFlags
<1> QED BY <1>2, <1>3

LEMMA TorArgNames ==
    ASSUME NEW p, NEW x \in TorArgs(p)
    PROVE  /\ x[1] \notin ProtocolFlags /\ x[1] # "--scan" /\ x[1] # "--dns"
           /\ x[1] = "--tor" => torMode(p.backend) = "CHAIN"
           /\ x[1] = "--tor-only" => torMode(p.backend) = "ONLY"
           /\ x[1] = "--tor-reverse" => torMode(p.backend) = "REVERSE"
BY DEF TorArgs, Flag, TextFlag, ProtocolFlags

LEMMA ArgSplit ==
    ASSUME NEW p, NEW x
    PROVE  x \in toArgs(p) <=> \/ x \in TorArgs(p) \/ x \in TextFlag("--dns", p.dnsServers)
                               \/ usesWarp(p.backend) /\ x \in WarpArgs(p)
BY DEF toArgs

LEMMA DnsName ==
    ASSUME NEW p, NEW x \in TextFlag("--dns", p.dnsServers)
    PROVE  x[1] = "--dns"
BY DEF TextFlag, Flag

\* A mode with a tunnel names its protocol and no other, plain Tor names none.
LEMMA ArgsProtocol ==
    ASSUME NEW p, p.protocol \in Protocols
    PROVE  /\ ~usesWarp(p.backend) => Names(toArgs(p)) \cap ProtocolFlags = {}
           /\ usesWarp(p.backend) /\ effectiveProtocol(p) # "AUTO"
                => Names(toArgs(p)) \cap ProtocolFlags = {ProtocolFlag[effectiveProtocol(p)]}
<1>1. \A x \in toArgs(p) : x[1] \in ProtocolFlags => usesWarp(p.backend) /\ x \in ProtocolArgs(p)
  <2> SUFFICES ASSUME NEW x \in toArgs(p), x[1] \in ProtocolFlags
               PROVE  usesWarp(p.backend) /\ x \in ProtocolArgs(p)
    OBVIOUS
  <2>1. x \notin TorArgs(p)
    BY TorArgNames
  <2>2. x \notin TextFlag("--dns", p.dnsServers)
    BY DnsName DEF ProtocolFlags
  <2>3. usesWarp(p.backend) /\ x \in WarpArgs(p)
    BY <2>1, <2>2, ArgSplit
  <2> QED BY <2>3, WarpProtocol
<1>2. ~usesWarp(p.backend) => Names(toArgs(p)) \cap ProtocolFlags = {}
  BY <1>1 DEF Names
<1>3. ASSUME usesWarp(p.backend), effectiveProtocol(p) # "AUTO"
      PROVE  Names(toArgs(p)) \cap ProtocolFlags = {ProtocolFlag[effectiveProtocol(p)]}
  <2>0. PICK e : e = effectiveProtocol(p)
    OBVIOUS
  <2>1. e \in {"MASQUE", "WIREGUARD", "GOOL", "MIM"}
    BY <1>3, <2>0 DEF effectiveProtocol, Protocols
  <2>2. ProtocolFlag[e] \in ProtocolFlags
    BY <2>1 DEF ProtocolFlag, ProtocolFlags
  <2>3. ProtocolArgs(p) = {<<ProtocolFlag[e], <<>>>>}
    BY <2>0, <2>1 DEF ProtocolArgs, Flag, ProtocolFlag
  <2>4. <<ProtocolFlag[e], <<>>>> \in toArgs(p)
    <3>1. <<ProtocolFlag[e], <<>>>> \in WarpArgs(p)
      BY <2>3 DEF WarpArgs
    <3> QED BY <1>3, <3>1, ArgSplit
  <2>5. \A x \in toArgs(p) : x[1] \in ProtocolFlags => x[1] = ProtocolFlag[e]
    BY <1>1, <2>3
  <2>6. <<ProtocolFlag[e], <<>>>>[1] = ProtocolFlag[e]
    OBVIOUS
  <2>7. ProtocolFlag[e] \in Names(toArgs(p))
    BY <2>4, <2>6 DEF Names
  <2>8. \A n \in Names(toArgs(p)) \cap ProtocolFlags : n = ProtocolFlag[e]
    BY <2>5 DEF Names
  <2> QED BY <2>0, <2>2, <2>7, <2>8
<1> QED BY <1>2, <1>3

\* The Tor flags depend on the way Tor takes part and on nothing else.
TorOf(mode) == {n \in TorFlags : \/ n = "--tor" /\ mode = "CHAIN"
                                 \/ n = "--tor-only" /\ mode = "ONLY"
                                 \/ n = "--tor-reverse" /\ mode = "REVERSE"}

LEMMA ArgsTor ==
    ASSUME NEW p
    PROVE  /\ Names(toArgs(p)) \cap TorFlags = TorOf(torMode(p.backend))
           /\ Names(TorArgs(p)) \cap TorFlags = TorOf(torMode(p.backend))
<1>0. PICK m : m = torMode(p.backend)
  OBVIOUS
<1>1. /\ m = "CHAIN" => <<"--tor", <<>>>> \in TorArgs(p)
      /\ m = "ONLY" => <<"--tor-only", <<>>>> \in TorArgs(p)
      /\ m = "REVERSE" => <<"--tor-reverse", <<>>>> \in TorArgs(p)
  BY <1>0 DEF TorArgs, Flag
<1>2. \A n, v : <<n, v>>[1] = n
  OBVIOUS
<1>3. /\ m = "CHAIN" => "--tor" \in Names(TorArgs(p))
      /\ m = "ONLY" => "--tor-only" \in Names(TorArgs(p))
      /\ m = "REVERSE" => "--tor-reverse" \in Names(TorArgs(p))
  BY <1>1, <1>2 DEF Names
<1>4. TorOf(m) \subseteq Names(TorArgs(p)) \cap TorFlags
  BY <1>3 DEF TorOf
<1>5. \A x \in TorArgs(p) : x[1] \in TorFlags => x[1] \in TorOf(m)
  BY <1>0, TorArgNames DEF TorOf, TorFlags
<1>6. Names(TorArgs(p)) \cap TorFlags \subseteq TorOf(m)
  BY <1>5 DEF Names
<1>7. \A x \in toArgs(p) : x[1] \in TorFlags => x \in TorArgs(p)
  <2> SUFFICES ASSUME NEW x \in toArgs(p), x[1] \in TorFlags
               PROVE  x \in TorArgs(p)
    OBVIOUS
  <2>1. x \notin TextFlag("--dns", p.dnsServers)
    BY DnsName DEF TorFlags
  <2>2. x \notin WarpArgs(p)
    BY WarpOthers
  <2> QED BY <2>1, <2>2, ArgSplit
<1>8. TorArgs(p) \subseteq toArgs(p)
  BY ArgSplit
<1>9. Names(toArgs(p)) \cap TorFlags = Names(TorArgs(p)) \cap TorFlags
  BY <1>7, <1>8 DEF Names
<1> QED BY <1>0, <1>4, <1>6, <1>9

\* The endpoint scan of a command line is the one of the profile.
LEMMA ArgsScan ==
    ASSUME NEW p, usesWarp(p.backend)
    PROVE  /\ ~hasManualPeer(p) => ValueOf(toArgs(p), "--scan") = <<p.scanMode>>
           /\ hasManualPeer(p) => <<"--peer", p.manualPeer>> \in toArgs(p)
<1>1. hasManualPeer(p) => <<"--peer", p.manualPeer>> \in WarpArgs(p)
  BY DEF WarpArgs, Flag
<1>2. ~hasManualPeer(p) => <<"--scan", <<p.scanMode>>>> \in WarpArgs(p)
  BY DEF WarpArgs, Flag
<1>3. WarpArgs(p) \subseteq toArgs(p)
  BY ArgSplit
<1>4. \A x \in toArgs(p) : x[1] = "--scan" => x = <<"--scan", <<p.scanMode>>>>
  <2> SUFFICES ASSUME NEW x \in toArgs(p), x[1] = "--scan"
               PROVE  x = <<"--scan", <<p.scanMode>>>>
    OBVIOUS
  <2>1. x \notin TorArgs(p)
    BY TorArgNames
  <2>2. x \notin TextFlag("--dns", p.dnsServers)
    BY DnsName
  <2> QED BY <2>1, <2>2, ArgSplit, WarpOthers
<1>5. ASSUME ~hasManualPeer(p) PROVE ValueOf(toArgs(p), "--scan") = <<p.scanMode>>
  <2>1. \E x \in toArgs(p) : x[1] = "--scan"
    BY <1>2, <1>3, <1>5
  <2>2. PICK c : c = CHOOSE x \in toArgs(p) : x[1] = "--scan"
    OBVIOUS
  <2>3. c \in toArgs(p) /\ c[1] = "--scan"
    BY <2>1, <2>2
  <2>4. c[2] = <<p.scanMode>>
    BY <1>4, <2>3
  <2> QED BY <2>2, <2>4 DEF ValueOf
<1> QED BY <1>1, <1>3, <1>5

\* The ranges and the HTTP/2 switch of an environment.
RangeOf(p) == Flag(p.endpointMode = "MANUAL_RANGE" /\ p.manualRange # Blank, "AETHER_SCAN_CIDRS", p.manualRange)

LEMMA TeamNames ==
    ASSUME NEW p, p.teamAuth \in {"OFF", "SERVICE_TOKEN", "EMAIL", "TOKEN"}, NEW x \in TeamEnv(p)
    PROVE  x[1] # "AETHER_SCAN_CIDRS" /\ x[1] # "AETHER_MASQUE_HTTP2"
<1>1. hasTeam(p) => p.teamAuth # "OFF"
  BY DEF hasTeam
<1>2. CASE ~hasTeam(p)
  BY <1>2 DEF TeamEnv
<1>3. CASE hasTeam(p) /\ p.teamAuth = "SERVICE_TOKEN"
  BY <1>3 DEF TeamEnv, Flag
<1>4. CASE hasTeam(p) /\ p.teamAuth = "EMAIL"
  BY <1>4 DEF TeamEnv, Flag
<1>5. CASE hasTeam(p) /\ p.teamAuth = "TOKEN"
  BY <1>5 DEF TeamEnv, Flag
<1> QED BY <1>1, <1>2, <1>3, <1>4, <1>5

LEMMA TorEnvNames ==
    ASSUME NEW p, NEW x \in TorEnv(p)
    PROVE  x[1] # "AETHER_SCAN_CIDRS" /\ x[1] # "AETHER_MASQUE_HTTP2"
BY DEF TorEnv, Flag, TextFlag, SecsFlag

LEMMA BudgetNames ==
    ASSUME NEW p, NEW x \in BudgetEnv(p)
    PROVE  x[1] # "AETHER_SCAN_CIDRS" /\ x[1] # "AETHER_MASQUE_HTTP2"
BY DEF BudgetEnv, Flag

LEMMA EnvEntries ==
    ASSUME NEW p, p.teamAuth \in {"OFF", "SERVICE_TOKEN", "EMAIL", "TOKEN"}
    PROVE  /\ {x \in toEnv(p) : x[1] = "AETHER_SCAN_CIDRS"} = RangeOf(p)
           /\ torMode(p.backend) = "REVERSE" => ValueOf(toEnv(p), "AETHER_MASQUE_HTTP2") = <<1>>
<1>1. \A x \in toEnv(p) : x[1] = "AETHER_SCAN_CIDRS" => x \in RangeOf(p)
  <2> SUFFICES ASSUME NEW x \in toEnv(p), x[1] = "AETHER_SCAN_CIDRS"
               PROVE  x \in RangeOf(p)
    OBVIOUS
  <2>1. x \notin TeamEnv(p) /\ x \notin TorEnv(p) /\ x \notin BudgetEnv(p)
    BY TeamNames, TorEnvNames, BudgetNames
  <2> QED BY <2>1 DEF toEnv, RangeOf, Flag, TextFlag, SecsFlag
<1>2. RangeOf(p) \subseteq toEnv(p)
  BY DEF toEnv, RangeOf, Flag
<1>3. \A x \in RangeOf(p) : x[1] = "AETHER_SCAN_CIDRS"
  BY DEF RangeOf, Flag
<1>4. ASSUME torMode(p.backend) = "REVERSE"
      PROVE  ValueOf(toEnv(p), "AETHER_MASQUE_HTTP2") = <<1>>
  <2>1. <<"AETHER_MASQUE_HTTP2", <<1>>>> \in toEnv(p)
    BY <1>4 DEF toEnv, Flag
  <2>2. \A x \in toEnv(p) : x[1] = "AETHER_MASQUE_HTTP2" => x = <<"AETHER_MASQUE_HTTP2", <<1>>>>
    <3> SUFFICES ASSUME NEW x \in toEnv(p), x[1] = "AETHER_MASQUE_HTTP2"
                 PROVE  x = <<"AETHER_MASQUE_HTTP2", <<1>>>>
      OBVIOUS
    <3>1. x \notin TeamEnv(p) /\ x \notin TorEnv(p) /\ x \notin BudgetEnv(p)
      BY TeamNames, TorEnvNames, BudgetNames
    <3> QED BY <1>4, <3>1 DEF toEnv, Flag, TextFlag, SecsFlag
  <2>3. PICK c : c = CHOOSE x \in toEnv(p) : x[1] = "AETHER_MASQUE_HTTP2"
    OBVIOUS
  <2>4. c \in toEnv(p) /\ c[1] = "AETHER_MASQUE_HTTP2"
    BY <2>1, <2>3
  <2>5. c[2] = <<1>>
    BY <2>2, <2>4
  <2> QED BY <2>3, <2>5 DEF ValueOf
<1> QED BY <1>1, <1>2, <1>3, <1>4

-----------------------------------------------------------------------------
(* The invariant.                                                          *)

\* The network was probed before a plan that looks at it is walked.
Probed == phase # "requested" /\ NeedsProbe(asked) => fp \in Fingerprints

\* The engine runs, or last ran, the attempt the walk is at; phase "planned" is
\* between two attempts.
LaunchIsRung == Launching => /\ launch.profile = Plan[rung].profile
                             /\ launch.args = toArgs(launch.profile)
                             /\ launch.env = toEnv(launch.profile)

\* The walk starts at the first attempt.
FirstRung == phase = "requested" => rung = 1

IInv == /\ asked \in Profiles
        /\ TypeOK
        /\ FirstRung
        /\ Probed
        /\ LaunchIsRung

LEMMA AskedForm ==
    ASSUME asked \in Profiles
    PROVE  WellFormed(asked) /\ DOMAIN asked = Fields
<1>1. WellFormed(asked)
  BY ProfilesAssumption
<1> QED BY <1>1, FormFacts

\* The attempt the walk is at keeps what was asked for.
LEMMA RungKeeps ==
    ASSUME IInv, phase # "requested"
    PROVE  /\ PlanFor(asked, Plan) /\ rung \in 1 .. Len(Plan)
           /\ Keeps(asked, Plan[rung].profile) /\ Plan[rung].timeout \in Nat
           /\ WellFormed(Plan[rung].profile)
<1>1. WellFormed(asked)
  BY AskedForm DEF IInv
<1>2. PlanFor(asked, Plan)
  BY <1>1, PlanFacts DEF IInv, Probed
<1>3. rung \in 1 .. Len(Plan)
  BY DEF IInv, TypeOK
<1>4. Keeps(asked, Plan[rung].profile) /\ Plan[rung].timeout \in Nat
  BY <1>2, <1>3 DEF PlanFor
<1> QED BY <1>2, <1>3, <1>4 DEF Keeps

LEMMA LaunchedFacts ==
    ASSUME NEW q, NEW n, NEW l, l = Launched(AutoCandidate(q, n))
    PROVE  l.profile = q /\ l.args = toArgs(q) /\ l.env = toEnv(q) /\ l.wait = n
BY DEF Launched, AutoCandidate

LEMMA LaunchedRung ==
    ASSUME NEW c, NEW l, l = Launched(c)
    PROVE  l.profile = c.profile /\ l.args = toArgs(c.profile) /\ l.env = toEnv(c.profile)
           /\ l.wait = c.timeout
BY DEF Launched

LEMMA InitIInv == Init => IInv
<1> SUFFICES ASSUME Init PROVE IInv
  OBVIOUS
<1>1. asked \in Profiles /\ DOMAIN asked = Fields
  BY AskedForm DEF Init
<1>2. /\ launch.profile = ConnectionProfile /\ launch.wait = 0
  BY LaunchedFacts DEF Init, NoLaunch
<1>3. DOMAIN ConnectionProfile = Fields
  BY DEF ConnectionProfile
<1>4. TypeOK
  BY <1>1, <1>2, <1>3, RestartsAssumption DEF Init, TypeOK
<1>5. Probed /\ LaunchIsRung /\ FirstRung
  BY DEF Init, Probed, LaunchIsRung, Launching, FirstRung
<1> QED BY <1>1, <1>4, <1>5 DEF IInv

\* The ports a session reports itself connected through.
LEMMA PortType ==
    ASSUME NEW p
    PROVE  devicePort(p) \in {0, SOCKS_PORT, TOR_FRONT_PORT, CHAIN_SOCKS_PORT, SHARE_PORT}
BY DEF devicePort, exposedSocksPort

\* A step that leaves asked and fp alone leaves the plan alone.
LEMMA PlanStays ==
    ASSUME UNCHANGED <<asked, fp>>
    PROVE  Plan' = Plan
BY DEF Plan

\* A step that starts no engine and moves no rung.
LEMMA QuietStep ==
    ASSUME IInv, UNCHANGED <<asked, fp, rung, launch>>, phase # "requested", phase # "planned",
           phase' \in {"stageUp", "connected", "failed"},
           tested' = tested \/ tested' = devicePort(asked) \/ tested' = SOCKS_PORT,
           restarts' = restarts \/ restarts' = 0
    PROVE  IInv'
<1>1. Plan' = Plan
  BY PlanStays
<1>2. LaunchIsRung'
  BY <1>1 DEF IInv, LaunchIsRung, Launching
<1>3. tested' \in {0, SOCKS_PORT, TOR_FRONT_PORT, CHAIN_SOCKS_PORT, SHARE_PORT}
  BY PortType DEF IInv, TypeOK
<1>4. restarts' \in 0 .. MaxRestarts
  BY RestartsAssumption DEF IInv, TypeOK
<1>5. TypeOK'
  BY <1>1, <1>3, <1>4 DEF IInv, TypeOK
<1>6. Probed' /\ FirstRung'
  BY DEF IInv, Probed, FirstRung
<1> QED BY <1>2, <1>5, <1>6 DEF IInv

LEMMA NextIInv == IInv /\ [Next]_vars => IInv'
<1> SUFFICES ASSUME IInv, [Next]_vars PROVE IInv'
  OBVIOUS
<1>1. CASE fingerprint
  <2>0. /\ phase = "requested" /\ phase' = "planned"
        /\ UNCHANGED <<asked, rung, launch, tested, restarts>>
        /\ rung = 1
        /\ fp' \in Fingerprints \cup {Unprobed}
        /\ NeedsProbe(asked) => fp' \in Fingerprints
    BY <1>1 DEF fingerprint, IInv, FirstRung
  <2>1. WellFormed(asked) /\ asked' = asked
    BY <2>0, AskedForm DEF IInv
  <2>2. PlanFor(asked', Plan')
    <3>1. WellFormed(asked') /\ (NeedsProbe(asked') => fp' \in Fingerprints)
      BY <2>0, <2>1
    <3>2. (WellFormed(asked) /\ (NeedsProbe(asked) => fp \in Fingerprints) => PlanFor(asked, Plan))'
      BY PlanFacts, PTL
    <3> QED BY <3>1, <3>2
  <2>3. rung' \in 1 .. Len(Plan')
    BY <2>0, <2>2 DEF PlanFor
  <2>4. TypeOK'
    BY <2>0, <2>3 DEF IInv, TypeOK
  <2>5. Probed'
    BY <2>0 DEF Probed
  <2>6. LaunchIsRung' /\ FirstRung'
    BY <2>0 DEF LaunchIsRung, Launching, FirstRung
  <2> QED BY <2>0, <2>4, <2>5, <2>6 DEF IInv
<1>2. CASE connectAttempt
  <2>0. /\ phase = "planned" /\ phase' = "trying" /\ launch' = Launched(Plan[rung])
        /\ UNCHANGED <<asked, fp, rung, tested, restarts>>
    BY <1>2 DEF connectAttempt
  <2>1. Plan' = Plan
    BY <2>0, PlanStays
  <2>2. /\ Plan[rung].timeout \in Nat /\ WellFormed(Plan[rung].profile) /\ rung \in 1 .. Len(Plan)
    BY <2>0, RungKeeps
  <2>3. /\ launch'.profile = Plan[rung].profile /\ launch'.args = toArgs(Plan[rung].profile)
        /\ launch'.env = toEnv(Plan[rung].profile) /\ launch'.wait = Plan[rung].timeout
    BY <2>0, LaunchedRung
  <2>4. DOMAIN launch'.profile = Fields
    BY <2>2, <2>3, FormFacts
  <2>5. TypeOK'
    BY <2>0, <2>1, <2>2, <2>3, <2>4 DEF IInv, TypeOK
  <2>6. Probed' /\ FirstRung'
    BY <2>0 DEF IInv, Probed, FirstRung
  <2>7. LaunchIsRung'
    BY <2>0, <2>1, <2>3 DEF LaunchIsRung
  <2> QED BY <2>0, <2>5, <2>6, <2>7 DEF IInv
<1>3. CASE AttemptFails
  <2>0. /\ phase = "trying" /\ UNCHANGED <<asked, fp, launch, tested, restarts>>
    BY <1>3 DEF AttemptFails
  <2>1. Plan' = Plan
    BY <2>0, PlanStays
  <2>2. CASE rung < Len(Plan)
    <3>1. rung' = rung + 1 /\ phase' = "planned"
      BY <1>3, <2>2 DEF AttemptFails
    <3>2. Len(Plan) \in Nat /\ rung \in 1 .. Len(Plan)
      BY <2>0, RungKeeps DEF PlanFor
    <3>3. rung' \in 1 .. Len(Plan)
      BY <2>2, <3>1, <3>2
    <3>4. TypeOK'
      BY <2>0, <2>1, <3>1, <3>3 DEF IInv, TypeOK
    <3>5. Probed' /\ FirstRung' /\ LaunchIsRung'
      BY <2>0, <3>1 DEF IInv, Probed, FirstRung, LaunchIsRung, Launching
    <3> QED BY <2>0, <3>4, <3>5 DEF IInv
  <2>3. CASE ~(rung < Len(Plan))
    <3>1. phase' = "failed" /\ UNCHANGED rung
      BY <1>3, <2>3 DEF AttemptFails
    <3> QED BY <2>0, <3>1, QuietStep
  <2> QED BY <2>2, <2>3
<1>4. CASE StagePasses
  BY <1>4, QuietStep DEF StagePasses
<1>5. CASE PlainPasses
  BY <1>5, QuietStep DEF PlainPasses
<1>6. CASE FrontPasses
  BY <1>6, QuietStep DEF FrontPasses
<1>7. CASE FrontFails
  BY <1>7, QuietStep DEF FrontFails
<1>8. CASE superviseEngine
  <2> DEFINE q == Plan[rung].profile
  <2>0. /\ phase \in {"connected", "reconnecting"} /\ phase' = "reconnecting"
        /\ restarts < MaxRestarts /\ restarts' = restarts + 1
        /\ launch' = Launched(AutoCandidate(q, connectTimeout(q)))
        /\ UNCHANGED <<asked, fp, rung, tested>>
    BY <1>8 DEF superviseEngine
  <2>1. Plan' = Plan
    BY <2>0, PlanStays
  <2>2. WellFormed(q) /\ rung \in 1 .. Len(Plan)
    BY <2>0, RungKeeps
  <2>3. /\ launch'.profile = q /\ launch'.args = toArgs(q)
        /\ launch'.env = toEnv(q) /\ launch'.wait = connectTimeout(q)
    BY <2>0, LaunchedFacts
  <2>4. DOMAIN launch'.profile = Fields /\ launch'.wait \in Nat
    BY <2>2, <2>3, FormFacts, TimeoutType
  <2>5. restarts' \in 0 .. MaxRestarts
    BY <2>0, RestartsAssumption DEF IInv, TypeOK
  <2>6. TypeOK'
    BY <2>0, <2>1, <2>2, <2>4, <2>5 DEF IInv, TypeOK
  <2>7. Probed' /\ FirstRung'
    BY <2>0 DEF IInv, Probed, FirstRung
  <2>8. LaunchIsRung'
    BY <2>0, <2>1, <2>3 DEF LaunchIsRung
  <2> QED BY <2>0, <2>6, <2>7, <2>8 DEF IInv
<1>9. CASE RestartPasses
  BY <1>9, QuietStep DEF RestartPasses
<1>10. CASE SessionEnds
  BY <1>10, QuietStep DEF SessionEnds
<1>11. CASE UNCHANGED vars
  <2>1. Plan' = Plan
    BY <1>11, PlanStays DEF vars
  <2> QED BY <1>11, <2>1 DEF vars, IInv, TypeOK, FirstRung, Probed, LaunchIsRung, Launching
<1> QED BY <1>1, <1>2, <1>3, <1>4, <1>5, <1>6, <1>7, <1>8, <1>9, <1>10, <1>11 DEF Next

LEMMA Invariance == Spec => []IInv
BY InitIInv, NextIInv, PTL DEF Spec

-----------------------------------------------------------------------------
(* Theorems.                                                               *)

\* The session's state keeps its type, whatever the profile and the network: in
\* particular the walk never leaves the plan it is in.
THEOREM TypeCorrect == Spec => []TypeOK
<1>1. IInv => TypeOK
  BY DEF IInv
<1> QED BY <1>1, Invariance, PTL

\* What a launch has of the profile.
LEMMA LaunchFacts ==
    ASSUME IInv, Launching
    PROVE  /\ Keeps(asked, launch.profile)
           /\ launch.args = toArgs(launch.profile) /\ launch.env = toEnv(launch.profile)
           /\ launch.profile.protocol \in Protocols
           /\ launch.profile.teamAuth \in {"OFF", "SERVICE_TOKEN", "EMAIL", "TOKEN"}
<1>1. phase # "requested"
  BY DEF Launching
<1>2. Keeps(asked, launch.profile) /\ launch.args = toArgs(launch.profile)
      /\ launch.env = toEnv(launch.profile)
  BY <1>1, RungKeeps DEF IInv, LaunchIsRung
<1>3. WellFormed(launch.profile)
  BY <1>2 DEF Keeps
<1> QED BY <1>2, <1>3, FormFacts

LEMMA AskedType ==
    ASSUME IInv
    PROVE  /\ asked.backend \in Backends /\ asked.protocol \in Protocols
           /\ asked.teamAuth \in {"OFF", "SERVICE_TOKEN", "EMAIL", "TOKEN"}
<1>1. WellFormed(asked)
  BY AskedForm DEF IInv
<1> QED BY <1>1, FormFacts

\* What the user decided is in every launch, of any rung, stage or restart
\* (cand, stageOf, directPlan, superviseEngine): the protocol picked by hand,
\* the way Tor takes part, the pinned endpoint and no less cover.
THEOREM AskedIsKeptHolds == Spec => []AskedIsKept
<1>1. IInv => AskedIsKept
  <2> SUFFICES ASSUME IInv PROVE AskedIsKept
    OBVIOUS
  <2>q. PICK q : q = launch.profile
    OBVIOUS
  <2>0. Launching => /\ Keeps(asked, q) /\ launch.args = toArgs(q) /\ launch.env = toEnv(q)
                     /\ q.protocol \in Protocols
                     /\ q.teamAuth \in {"OFF", "SERVICE_TOKEN", "EMAIL", "TOKEN"}
    BY <2>q, LaunchFacts
  <2>1. ProtocolNeverSwapped
    <3> SUFFICES ASSUME Launching, asked.protocol # "AUTO", torMode(asked.backend) \notin {"REVERSE", "ONLY"}
                 PROVE  Names(launch.args) \cap ProtocolFlags = {ProtocolFlag[asked.protocol]}
      BY DEF ProtocolNeverSwapped
    <3>1. /\ q.protocol = asked.protocol /\ torMode(q.backend) = torMode(asked.backend)
      BY <2>0 DEF Keeps
    <3>2. usesWarp(q.backend) /\ effectiveProtocol(q) = asked.protocol
      BY <3>1 DEF usesWarp, effectiveProtocol
    <3> QED BY <2>0, <3>2, ArgsProtocol
  <2>2. TorSurvivesStaging
    <3> SUFFICES ASSUME Launching
                 PROVE  Names(launch.args) \cap TorFlags = Names(TorArgs(asked)) \cap TorFlags
      BY DEF TorSurvivesStaging, TorFlags
    <3>1. torMode(q.backend) = torMode(asked.backend)
      BY <2>0 DEF Keeps
    <3> QED BY <2>0, <3>1, ArgsTor
  <2>3. PinnedEndpointKept
    <3> SUFFICES ASSUME Launching, asked.endpointMode # "AUTO", usesWarp(asked.backend)
                 PROVE  /\ hasManualPeer(asked) => <<"--peer", asked.manualPeer>> \in launch.args
                        /\ {f \in launch.env : f[1] = "AETHER_SCAN_CIDRS"}
                               = {f \in toEnv(asked) : f[1] = "AETHER_SCAN_CIDRS"}
      BY DEF PinnedEndpointKept
    <3>1. /\ q.manualPeer = asked.manualPeer /\ q.endpointMode = asked.endpointMode
          /\ q.manualRange = asked.manualRange /\ torMode(q.backend) = torMode(asked.backend)
      BY <2>0 DEF Keeps, Endpoint
    <3>2. hasManualPeer(asked) => hasManualPeer(q)
      BY <3>1 DEF hasManualPeer
    <3>3. usesWarp(q.backend)
      BY <3>1 DEF usesWarp
    <3>4. hasManualPeer(asked) => <<"--peer", asked.manualPeer>> \in launch.args
      BY <2>0, <3>1, <3>2, <3>3, ArgsScan
    <3>5. {f \in launch.env : f[1] = "AETHER_SCAN_CIDRS"} = RangeOf(q)
      BY <2>0, EnvEntries
    <3>6. {f \in toEnv(asked) : f[1] = "AETHER_SCAN_CIDRS"} = RangeOf(asked)
      BY AskedType, EnvEntries
    <3>7. RangeOf(q) = RangeOf(asked)
      BY <3>1 DEF RangeOf
    <3> QED BY <3>4, <3>5, <3>6, <3>7
  <2>4. NeverWeakerThanAsked
    BY <2>0, <2>q DEF NeverWeakerThanAsked, Keeps, Cover
  <2> QED BY <2>1, <2>2, <2>3, <2>4 DEF AskedIsKept
<1> QED BY <1>1, Invariance, PTL

\* The engine is never given a combination it refuses (toArgs, toEnv): exactly one
\* protocol with a tunnel, none with plain Tor, and MASQUE over HTTP/2 through Tor.
THEOREM EngineAcceptsHolds == Spec => []EngineAccepts
<1>1. IInv => EngineAccepts
  <2> SUFFICES ASSUME IInv, Launching PROVE EngineAccepts
    BY DEF EngineAccepts
  <2>q. PICK q : q = launch.profile
    OBVIOUS
  <2>0. /\ Keeps(asked, q) /\ launch.args = toArgs(q) /\ launch.env = toEnv(q)
        /\ q.protocol \in Protocols
        /\ q.teamAuth \in {"OFF", "SERVICE_TOKEN", "EMAIL", "TOKEN"}
    BY <2>q, LaunchFacts
  <2>m. torMode(q.backend) = torMode(asked.backend) /\ (usesWarp(asked.backend) => q.protocol # "AUTO")
    BY <2>0 DEF Keeps
  <2>1. /\ "--tor-only" \in Names(launch.args) <=> torMode(q.backend) = "ONLY"
        /\ "--tor-reverse" \in Names(launch.args) <=> torMode(q.backend) = "REVERSE"
    <3>1. Names(launch.args) \cap TorFlags = TorOf(torMode(q.backend))
      BY <2>0, ArgsTor
    <3>2. "--tor-only" \in TorFlags /\ "--tor-reverse" \in TorFlags
      BY DEF TorFlags
    <3>3. /\ "--tor-only" \in TorOf(torMode(q.backend)) <=> torMode(q.backend) = "ONLY"
          /\ "--tor-reverse" \in TorOf(torMode(q.backend)) <=> torMode(q.backend) = "REVERSE"
      BY DEF TorOf, TorFlags
    <3> QED BY <3>1, <3>2, <3>3
  <2>2. ASSUME torMode(q.backend) = "ONLY" PROVE Names(launch.args) \cap ProtocolFlags = {}
    BY <2>0, <2>2, ArgsProtocol DEF usesWarp
  <2>3. ASSUME torMode(q.backend) # "ONLY"
        PROVE  Names(launch.args) \cap ProtocolFlags = {ProtocolFlag[effectiveProtocol(q)]}
    <3>1. usesWarp(q.backend) /\ effectiveProtocol(q) # "AUTO"
      BY <2>m, <2>3 DEF usesWarp, effectiveProtocol
    <3> QED BY <2>0, <3>1, ArgsProtocol
  <2>4. ASSUME torMode(q.backend) = "REVERSE"
        PROVE  /\ Names(launch.args) \cap ProtocolFlags = {"--masque"}
               /\ ValueOf(launch.env, "AETHER_MASQUE_HTTP2") = <<1>>
    <3>1. ProtocolFlag[effectiveProtocol(q)] = "--masque"
      BY <2>4 DEF effectiveProtocol, ProtocolFlag
    <3>2. ValueOf(launch.env, "AETHER_MASQUE_HTTP2") = <<1>>
      BY <2>0, <2>4, EnvEntries
    <3> QED BY <2>3, <2>4, <3>1, <3>2
  <2>5. PICK ps : ps = Names(launch.args) \cap ProtocolFlags
    OBVIOUS
  <2>6. torMode(q.backend) # "ONLY" => \E f \in ps : ps = {f}
    BY <2>3, <2>5
  <2> QED BY <2>1, <2>2, <2>4, <2>5, <2>6 DEF EngineAccepts
<1> QED BY <1>1, Invariance, PTL

\* A ladder that gives up has tried the engine's own ranges in the user's scan
\* mode (fallback, buildPlan, directPlan).
THEOREM LastResortUnrestrictedHolds == Spec => []LastResortUnrestricted
<1>1. IInv => LastResortUnrestricted
  <2> SUFFICES ASSUME IInv, phase = "failed", rung = Len(Plan), asked.endpointMode = "AUTO",
                      usesWarp(asked.backend)
               PROVE  /\ "AETHER_SCAN_CIDRS" \notin Names(launch.env)
                      /\ ValueOf(launch.args, "--scan") = <<asked.scanMode>>
    BY DEF LastResortUnrestricted
  <2>q. PICK q : q = launch.profile
    OBVIOUS
  <2>0. /\ Keeps(asked, q) /\ launch.args = toArgs(q) /\ launch.env = toEnv(q)
        /\ q.teamAuth \in {"OFF", "SERVICE_TOKEN", "EMAIL", "TOKEN"}
    BY <2>q, LaunchFacts DEF Launching
  <2>1. q = Plan[Len(Plan)].profile
    BY <2>q DEF IInv, LaunchIsRung, Launching
  <2>2. Unrestricted(asked, q)
    BY <2>1, RungKeeps DEF PlanFor
  <2>3. q.endpointMode = "AUTO" /\ q.scanMode = asked.scanMode
    BY <2>2 DEF Unrestricted
  <2>4. usesWarp(q.backend) /\ ~hasManualPeer(q)
    BY <2>0, <2>3 DEF Keeps, usesWarp, hasManualPeer
  <2>5. ValueOf(launch.args, "--scan") = <<asked.scanMode>>
    BY <2>0, <2>3, <2>4, ArgsScan
  <2>6. RangeOf(q) = {}
    BY <2>3 DEF RangeOf, Flag
  <2>7. {f \in launch.env : f[1] = "AETHER_SCAN_CIDRS"} = {}
    BY <2>0, <2>6, EnvEntries
  <2>8. "AETHER_SCAN_CIDRS" \notin Names(launch.env)
    BY <2>7 DEF Names
  <2> QED BY <2>5, <2>8
<1> QED BY <1>1, Invariance, PTL

-----------------------------------------------------------------------------
(* The settings path: profiles, the store and the codec.                   *)

\* Which settings the store keeps, the intent carries and the Keystore seals.
LEMMA PathFields ==
    /\ StoredFields \subseteq Fields /\ SecretFields \subseteq Fields /\ CarriedFields \subseteq StoredFields
    /\ TextFields \subseteq Fields /\ SecretFields \subseteq TextFields
    /\ Fields = StoredFields \cup SecretFields \cup {"chainedStage"}
    /\ {"backend", "teamAuth"} \subseteq CarriedFields
    /\ {"backend", "teamAuth", "chainedStage"} \cap TextFields = {}
    /\ SecretFields \cap StoredFields = {} /\ "chainedStage" \notin StoredFields \cup SecretFields
BY DEF Fields, StoredFields, SecretFields, CarriedFields, TorFields, TextFields, OnByDefault,
       OffByDefault, Numbers, Enums

LEMMA SettingFacts ==
    /\ Setting("teamAuth") = {"OFF", "SERVICE_TOKEN", "EMAIL", "TOKEN"}
    /\ Setting("chainedStage") = {FALSE} /\ Setting("backend") = StoredNames
    /\ \A f \in TextFields : Setting(f) = Seq(STRING)
    /\ \A f \in OnByDefault \cup (OffByDefault \ {"chainedStage"}) : Setting(f) = BOOLEAN
    /\ \A f \in DOMAIN Numbers : Setting(f) = Int
    /\ \A f \in DOMAIN Enums : Setting(f) = EnumValues[f]
    /\ \A f \in Fields : Setting(f) \subseteq Settings
<1>1. Setting("chainedStage") = {FALSE}
  BY DEF Setting, TextFields, OnByDefault, OffByDefault, Numbers, Enums
<1>2. \A f \in TextFields : Setting(f) = Seq(STRING)
  BY DEF Setting, TextFields, OnByDefault, OffByDefault, Numbers, Enums
<1>3. \A f \in OnByDefault \cup (OffByDefault \ {"chainedStage"}) : Setting(f) = BOOLEAN
  BY DEF Setting, TextFields, OnByDefault, OffByDefault, Numbers, Enums
<1>4. \A f \in DOMAIN Numbers : Setting(f) = Int
  BY DEF Setting, TextFields, OnByDefault, OffByDefault, Numbers, Enums
<1>5. \A f \in DOMAIN Enums : Setting(f) = EnumValues[f]
  BY DEF Setting, TextFields, OnByDefault, OffByDefault, Numbers, Enums
<1>6. {"teamAuth", "backend"} \subseteq DOMAIN Enums
  BY DEF Enums
<1>7. EnumValues["teamAuth"] = {"OFF", "SERVICE_TOKEN", "EMAIL", "TOKEN"} /\ EnumValues["backend"] = StoredNames
  BY DEF EnumValues
<1>8. ASSUME NEW f \in Fields PROVE Setting(f) \subseteq Settings
  <2>1. \/ f \in TextFields \/ f \in OnByDefault \cup (OffByDefault \ {"chainedStage"})
        \/ f \in DOMAIN Numbers \/ f \in DOMAIN Enums \/ f = "chainedStage"
    BY DEF Fields
  <2>2. CASE f \in DOMAIN Enums
    BY <1>5, <2>2 DEF Settings
  <2>3. CASE f = "chainedStage"
    BY <1>1, <2>3 DEF Settings
  <2>4. CASE f \in TextFields
    BY <1>2, <2>4 DEF Settings
  <2>5. CASE f \in OnByDefault \cup (OffByDefault \ {"chainedStage"})
    BY <1>3, <2>5 DEF Settings
  <2>6. CASE f \in DOMAIN Numbers
    BY <1>4, <2>6 DEF Settings
  <2> QED BY <2>1, <2>2, <2>3, <2>4, <2>5, <2>6
<1> QED BY <1>1, <1>2, <1>3, <1>4, <1>5, <1>6, <1>7, <1>8

\* The profile of a first start is one.
LEMMA DefaultIsProfile == IsProfile(ConnectionProfile)
<1> DEFINE value(f) == CASE f \in TextFields     -> Blank
                         [] f \in OnByDefault    -> TRUE
                         [] f \in OffByDefault   -> FALSE
                         [] f \in DOMAIN Numbers -> Numbers[f]
                         [] f \in DOMAIN Enums   -> Enums[f]
<1> PICK d : d = ConnectionProfile
  OBVIOUS
<1>1. d = [f \in Fields |-> value(f)]
  BY DEF ConnectionProfile
<1>2. \A f \in TextFields : value(f) = Blank
  <2> SUFFICES ASSUME NEW f \in TextFields PROVE value(f) = Blank
    OBVIOUS
  <2>1. f \notin OnByDefault /\ f \notin OffByDefault /\ f \notin DOMAIN Numbers /\ f \notin DOMAIN Enums
    BY DEF TextFields, OnByDefault, OffByDefault, Numbers, Enums
  <2> QED BY <2>1
<1>3. (\A f \in OnByDefault : value(f) = TRUE) /\ (\A f \in OffByDefault : value(f) = FALSE)
  BY DEF TextFields, OnByDefault, OffByDefault, Numbers, Enums
<1>4. \A f \in DOMAIN Numbers : value(f) \in Int
  BY DEF TextFields, OnByDefault, OffByDefault, Numbers, Enums
<1>5. \A f \in DOMAIN Enums : value(f) = Enums[f]
  BY DEF TextFields, OnByDefault, OffByDefault, Numbers, Enums
<1> HIDE DEF value
<1>6. d = [f \in Fields |-> d[f]] /\ \A f \in Fields : d[f] = value(f)
  BY <1>1
<1>7. \A f \in DOMAIN Enums : Enums[f] \in EnumValues[f]
  BY DEF Enums, EnumValues, StoredNames, Backends, Protocols, ScanModes, EndpointModes, TorBridges
<1>8. d.backend \in Backends
  <2>1. "backend" \in DOMAIN Enums /\ Enums["backend"] = "AETHER"
    BY DEF Enums
  <2>2. d["backend"] = "AETHER"
    BY <1>5, <1>6, <2>1, PathFields
  <2> QED BY <2>2 DEF Backends
<1>9. ASSUME NEW f \in Fields PROVE value(f) \in Setting(f)
  <2>1. \/ f \in TextFields \/ f \in OnByDefault \cup (OffByDefault \ {"chainedStage"})
        \/ f \in DOMAIN Numbers \/ f \in DOMAIN Enums \/ f = "chainedStage"
    BY DEF Fields
  <2>2. CASE f \in TextFields
    <3>1. Blank \in Seq(STRING)
      BY DEF Blank
    <3>2. Setting(f) = Seq(STRING)
      BY <2>2, SettingFacts
    <3> QED BY <1>2, <2>2, <3>1, <3>2
  <2>3. CASE f \in OnByDefault \cup (OffByDefault \ {"chainedStage"})
    <3>1. value(f) \in BOOLEAN
      BY <1>3, <2>3
    <3> QED BY <2>3, <3>1, SettingFacts
  <2>4. CASE f \in DOMAIN Numbers
    BY <1>4, <2>4, SettingFacts
  <2>5. CASE f \in DOMAIN Enums
    BY <1>5, <1>7, <2>5, SettingFacts
  <2>6. CASE f = "chainedStage"
    <3>1. f \in OffByDefault
      BY <2>6 DEF OffByDefault
    <3>2. value(f) = FALSE
      BY <1>3, <3>1
    <3> QED BY <2>6, <3>2, SettingFacts
  <2> QED BY <2>1, <2>2, <2>3, <2>4, <2>5, <2>6
<1>10. IsProfile(d)
  BY <1>6, <1>8, <1>9 DEF IsProfile
<1> QED BY <1>10

LEMMA ProfileFacts ==
    ASSUME NEW p, IsProfile(p)
    PROVE  /\ DOMAIN p = Fields /\ p = [f \in Fields |-> p[f]]
           /\ p.backend \in Backends /\ p.teamAuth \in {"OFF", "SERVICE_TOKEN", "EMAIL", "TOKEN"}
           /\ p.chainedStage = FALSE
           /\ \A f \in TextFields : p[f] \in Seq(STRING)
           /\ \A f \in Fields : p[f] \in Setting(f)
           /\ p \in [Fields -> Settings] /\ p # None
<1>1. p = [f \in Fields |-> p[f]] /\ (\A f \in Fields : p[f] \in Setting(f)) /\ p.backend \in Backends
  BY DEF IsProfile
<1>2. DOMAIN p = Fields
  BY <1>1
<1>3. /\ p.teamAuth \in {"OFF", "SERVICE_TOKEN", "EMAIL", "TOKEN"} /\ p.chainedStage = FALSE
      /\ \A f \in TextFields : p[f] \in Seq(STRING)
  <2>1. {"teamAuth", "chainedStage"} \subseteq Fields /\ TextFields \subseteq Fields
    BY PathFields
  <2>2. p["teamAuth"] \in Setting("teamAuth") /\ p["chainedStage"] \in Setting("chainedStage")
    BY <1>1, <2>1
  <2>3. p["chainedStage"] = FALSE
    BY <2>2, SettingFacts
  <2> QED BY <1>1, <2>1, <2>2, <2>3, SettingFacts
<1>4. \A f \in Fields : p[f] \in Settings
  BY <1>1, SettingFacts
<1>5. p \in [Fields -> Settings]
  BY <1>1, <1>4
<1> QED BY <1>1, <1>2, <1>3, <1>5, NoneAssumption

LEMMA BackendNames ==
    ASSUME NEW n
    PROVE  fromStoredName(n) \in Backends /\ (n \in Backends => fromStoredName(n) = n)
BY DEF fromStoredName, Backends

\* A change laid over a profile leaves a profile.
LEMMA OverIsProfile ==
    ASSUME NEW e, NEW p, IsProfile(p), DOMAIN e \subseteq Fields,
           \A f \in DOMAIN e : e[f] \in Setting(f),
           "backend" \in DOMAIN e => e["backend"] \in Backends
    PROVE  IsProfile(Over(e, p))
<1> DEFINE o == Over(e, p)
<1>1. DOMAIN p = Fields /\ p.backend \in Backends /\ \A f \in Fields : p[f] \in Setting(f)
  BY ProfileFacts
<1>2. o = [f \in Fields |-> IF f \in DOMAIN e THEN e[f] ELSE p[f]]
  BY <1>1 DEF Over
<1> HIDE DEF o
<1>3. o = [f \in Fields |-> o[f]]
  BY <1>2
<1>4. \A f \in Fields : o[f] = IF f \in DOMAIN e THEN e[f] ELSE p[f]
  BY <1>2
<1>5. \A f \in Fields : o[f] \in Setting(f)
  BY <1>1, <1>4
<1>6. o.backend \in Backends
  BY <1>1, <1>4, PathFields
<1>7. IsProfile(o)
  BY <1>3, <1>5, <1>6 DEF IsProfile
<1> QED BY <1>7 DEF o

\* What the two stores may hold.
IsPrefs(r) == r = [f \in StoredFields |-> r[f]] /\ \A f \in StoredFields : r[f] \in Setting(f)
IsSecrets(r) == r = [f \in SecretFields |-> r[f]] /\ \A f \in SecretFields : r[f] \in Setting(f)

\* What decode and the store's reader do with a backend's name.
LEMMA MigrateFacts ==
    ASSUME NEW fs, fs \subseteq StoredFields, "backend" \in fs, NEW r, r = [f \in fs |-> r[f]],
           \A f \in fs : r[f] \in Setting(f),
           NEW m, m = [r EXCEPT !.backend = fromStoredName(@)]
    PROVE  /\ DOMAIN m = fs /\ (\A f \in fs : m[f] \in Setting(f)) /\ m["backend"] \in Backends
           /\ \A f \in fs \ {"backend"} : m[f] = r[f]
           /\ r["backend"] \in Backends => m["backend"] = r["backend"]
<1>1. DOMAIN r = fs
  OBVIOUS
<1>2. DOMAIN m = fs /\ \A f \in fs \ {"backend"} : m[f] = r[f]
  BY <1>1
<1>3. m["backend"] = fromStoredName(r["backend"])
  BY <1>1
<1>4. m["backend"] \in Backends /\ (r["backend"] \in Backends => m["backend"] = r["backend"])
  BY <1>3, BackendNames
<1>5. m["backend"] \in Setting("backend")
  BY <1>4, SettingFacts DEF StoredNames
<1>6. \A f \in fs : m[f] \in Setting(f)
  BY <1>2, <1>5
<1> QED BY <1>2, <1>4, <1>6

LEMMA StoredIsProfile ==
    ASSUME IsPrefs(prefs), IsSecrets(secrets)
    PROVE  IsProfile(Stored)
<1> PICK m : m = [prefs EXCEPT !.backend = fromStoredName(@)]
  OBVIOUS
<1>1. /\ DOMAIN m = StoredFields /\ (\A f \in StoredFields : m[f] \in Setting(f)) /\ m["backend"] \in Backends
  BY MigrateFacts, PathFields DEF IsPrefs
<1>2. DOMAIN secrets = SecretFields /\ \A f \in SecretFields : secrets[f] \in Setting(f)
  BY DEF IsSecrets
<1> PICK d : d = Over(secrets, ConnectionProfile)
  OBVIOUS
<1>3. IsProfile(d)
  BY <1>2, OverIsProfile, DefaultIsProfile, PathFields
<1>4. IsProfile(Over(m, d))
  BY <1>1, <1>3, OverIsProfile, PathFields
<1> QED BY <1>4 DEF Stored

LEMMA FirstLineFacts ==
    ASSUME NEW t \in Seq(STRING)
    PROVE  firstLine(t) \in Seq(STRING) /\ (Len(t) <= 1 => firstLine(t) = t)
<1>1. CASE t = <<>>
  BY <1>1 DEF firstLine, Blank
<1>2. CASE t # <<>>
  <2> DEFINE l == SubSeq(t, 1, 1)
  <2>1. firstLine(t) = l
    BY <1>2 DEF firstLine, Blank
  <2>2. Len(t) \in Nat /\ Len(t) >= 1
    BY <1>2
  <2>3. l \in Seq(STRING) /\ Len(l) = 1 /\ l[1] = t[1]
    BY <2>2
  <2> HIDE DEF l
  <2>4. ASSUME Len(t) <= 1 PROVE l = t
    <3>1. Len(t) = 1
      <4>1. \A n \in Nat : n >= 1 /\ n <= 1 => n = 1
        OBVIOUS
      <4> QED BY <2>2, <2>4, <4>1
    <3> QED BY <2>3, <3>1
  <2> QED BY <2>1, <2>3, <2>4
<1> QED BY <1>1, <1>2

\* The intent carries settings of the same types, unchanged when every text is one line.
LEMMA EncodeFacts ==
    ASSUME NEW t, IsProfile(t), NEW c, c = encode(t)
    PROVE  /\ c = [f \in CarriedFields |-> c[f]] /\ DOMAIN c = CarriedFields
           /\ \A f \in CarriedFields : c[f] \in Setting(f)
           /\ c["backend"] \in Backends
           /\ OneLine(t) => \A f \in CarriedFields : c[f] = t[f]
<1> DEFINE line(f) == IF f \in TextFields \ Lists THEN firstLine(t[f]) ELSE t[f]
<1>1. c = [f \in CarriedFields |-> line(f)]
  BY DEF encode
<1> HIDE DEF line
<1>2. c = [f \in CarriedFields |-> c[f]] /\ DOMAIN c = CarriedFields /\ \A f \in CarriedFields : c[f] = line(f)
  BY <1>1
<1> USE DEF line
<1>3. \A f \in TextFields \ Lists : line(f) \in Seq(STRING) /\ (Len(t[f]) <= 1 => line(f) = t[f])
  BY ProfileFacts, FirstLineFacts
<1>4. \A f \in Fields \ (TextFields \ Lists) : line(f) = t[f]
  OBVIOUS
<1> HIDE DEF line
<1>5. ASSUME NEW f \in CarriedFields PROVE c[f] \in Setting(f)
  <2>1. f \in Fields
    BY PathFields
  <2>2. CASE f \in TextFields \ Lists
    BY <1>2, <1>3, <2>2, SettingFacts
  <2>3. CASE f \notin TextFields \ Lists
    BY <1>2, <1>4, <2>1, <2>3, ProfileFacts
  <2> QED BY <2>2, <2>3
<1>6. c["backend"] \in Backends
  <2>1. "backend" \in CarriedFields /\ "backend" \in Fields \ (TextFields \ Lists)
    BY PathFields
  <2> QED BY <1>2, <1>4, <2>1, ProfileFacts
<1>7. ASSUME OneLine(t), NEW f \in CarriedFields PROVE c[f] = t[f]
  <2>1. f \in Fields
    BY PathFields
  <2>2. CASE f \in TextFields \ Lists
    BY <1>2, <1>3, <1>7, <2>2 DEF OneLine
  <2>3. CASE f \notin TextFields \ Lists
    BY <1>2, <1>4, <2>1, <2>3
  <2> QED BY <2>2, <2>3
<1> QED BY <1>2, <1>5, <1>6, <1>7

LEMMA DefaultSecrets == \A f \in SecretFields : ConnectionProfile[f] = Blank
<1> SUFFICES ASSUME NEW f \in SecretFields PROVE ConnectionProfile[f] = Blank
  OBVIOUS
<1>1. /\ f \in Fields /\ f \in TextFields
      /\ f \notin OnByDefault /\ f \notin OffByDefault /\ f \notin DOMAIN Numbers /\ f \notin DOMAIN Enums
  BY DEF SecretFields, Fields, TextFields, OnByDefault, OffByDefault, Numbers, Enums
<1> QED BY <1>1 DEF ConnectionProfile

\* What the service makes of an intent, before it reads the sealed store.
LEMMA DecodeFacts ==
    ASSUME NEW t, IsProfile(t), NEW c, c = encode(t), c # None, NEW d, d = decode(c)
    PROVE  /\ IsProfile(d)
           /\ OneLine(t) => \A f \in CarriedFields : d[f] = t[f]
           /\ \A f \in SecretFields : d[f] = Blank
<1>1. /\ c = [f \in CarriedFields |-> c[f]] /\ c["backend"] \in Backends
      /\ \A f \in CarriedFields : c[f] \in Setting(f)
      /\ OneLine(t) => \A f \in CarriedFields : c[f] = t[f]
  BY EncodeFacts
<1> PICK m : m = [c EXCEPT !.backend = fromStoredName(@)]
  OBVIOUS
<1>2. CarriedFields \subseteq StoredFields /\ "backend" \in CarriedFields
  BY PathFields
<1>3. /\ DOMAIN m = CarriedFields /\ (\A f \in CarriedFields : m[f] \in Setting(f)) /\ m["backend"] \in Backends
      /\ \A f \in CarriedFields \ {"backend"} : m[f] = c[f]
      /\ m["backend"] = c["backend"]
  BY <1>1, <1>2, MigrateFacts
<1>4. d = Over(m, ConnectionProfile)
  BY DEF decode
<1>5. IsProfile(d)
  BY <1>3, <1>4, OverIsProfile, DefaultIsProfile, PathFields
<1>6. DOMAIN ConnectionProfile = Fields
  BY ProfileFacts, DefaultIsProfile
<1>7. \A f \in Fields : d[f] = IF f \in CarriedFields THEN m[f] ELSE ConnectionProfile[f]
  BY <1>3, <1>4, <1>6 DEF Over
<1>8. \A f \in CarriedFields : d[f] = c[f]
  BY <1>3, <1>7, PathFields
<1>9. \A f \in SecretFields : d[f] = ConnectionProfile[f]
  BY <1>7, PathFields
<1> QED BY <1>1, <1>5, <1>8, <1>9, DefaultSecrets

\* What it makes of it with the secrets of the sealed store.
LEMMA HydrateFacts ==
    ASSUME NEW d, IsProfile(d), \A f \in SecretFields : d[f] = Blank,
           NEW s, IsSecrets(s), NEW h, h = hydrateSecrets(d, s)
    PROVE  /\ IsProfile(h) /\ \A f \in CarriedFields : h[f] = d[f]
           /\ h["teamAuth"] = "OFF" => Only(h, SecretFields) = NoSecrets
<1>1. CASE d["teamAuth"] = "OFF"
  <2>1. h = d
    BY <1>1 DEF hydrateSecrets
  <2> QED BY <2>1 DEF Only, NoSecrets
<1>2. CASE d["teamAuth"] # "OFF"
  <2>1. h = Over(s, d)
    BY <1>2 DEF hydrateSecrets
  <2>2. DOMAIN s = SecretFields /\ \A f \in SecretFields : s[f] \in Setting(f)
    BY DEF IsSecrets
  <2>3. IsProfile(h)
    BY <2>1, <2>2, OverIsProfile, PathFields
  <2>4. DOMAIN d = Fields
    BY ProfileFacts
  <2>5. \A f \in Fields : h[f] = IF f \in SecretFields THEN s[f] ELSE d[f]
    BY <2>1, <2>2, <2>4 DEF Over
  <2>6. \A f \in CarriedFields : h[f] = d[f]
    BY <2>5, PathFields
  <2>7. h["teamAuth"] # "OFF"
    BY <1>2, <2>6, PathFields
  <2> QED BY <2>3, <2>6, <2>7
<1> QED BY <1>1, <1>2

-----------------------------------------------------------------------------
(* The queue of the DataStore.                                             *)

Waits(q, w) == \E i \in 1 .. Len(q) : q[i] = w

\* A queue in which nobody waits twice.
IsQueue(q) == q \in Seq(Writers) /\ \A i, j \in 1 .. Len(q) : q[i] = q[j] => i = j

LEMMA AppendWaits ==
    ASSUME NEW q, IsQueue(q), NEW w \in Writers, ~Waits(q, w), NEW t, t = Append(q, w)
    PROVE  IsQueue(t) /\ \A x \in Writers : Waits(t, x) <=> Waits(q, x) \/ x = w
<1>1. q \in Seq(Writers) /\ Len(q) \in Nat
  BY DEF IsQueue
<1>2. /\ t \in Seq(Writers) /\ Len(t) = Len(q) + 1
      /\ \A i \in 1 .. Len(q) : t[i] = q[i]
      /\ t[Len(q) + 1] = w
  BY <1>1, AppendProperties
<1>3. 1 .. Len(t) = (1 .. Len(q)) \cup {Len(q) + 1}
  BY <1>1, <1>2
<1>4. \A i, j \in 1 .. Len(t) : t[i] = t[j] => i = j
  BY <1>2, <1>3 DEF IsQueue, Waits
<1>5. \A x \in Writers : Waits(t, x) <=> Waits(q, x) \/ x = w
  BY <1>2, <1>3 DEF Waits
<1> QED BY <1>2, <1>4, <1>5 DEF IsQueue

LEMMA TailWaits ==
    ASSUME NEW q, IsQueue(q), q # <<>>, NEW t, t = Tail(q)
    PROVE  /\ IsQueue(t) /\ Head(q) \in Writers /\ Waits(q, Head(q))
           /\ \A x \in Writers : Waits(t, x) <=> Waits(q, x) /\ x # Head(q)
<1>1. q \in Seq(Writers) /\ Len(q) \in Nat /\ Len(q) >= 1
  BY DEF IsQueue
<1>2. /\ t \in Seq(Writers) /\ Len(t) = Len(q) - 1
      /\ \A i \in 1 .. Len(t) : t[i] = q[i + 1]
      /\ Head(q) = q[1] /\ Head(q) \in Writers
  BY <1>1, HeadTailProperties
<1>3. \A i \in 1 .. Len(t) : i + 1 \in 1 .. Len(q) /\ i + 1 # 1
  BY <1>1, <1>2
<1>4. \A i \in 1 .. Len(q) : i # 1 => i - 1 \in 1 .. Len(t) /\ (i - 1) + 1 = i
  BY <1>1, <1>2
<1>5. 1 \in 1 .. Len(q)
  BY <1>1
<1>6. \A i, j \in 1 .. Len(t) : t[i] = t[j] => i = j
  <2> SUFFICES ASSUME NEW i \in 1 .. Len(t), NEW j \in 1 .. Len(t), t[i] = t[j] PROVE i = j
    OBVIOUS
  <2>1. i + 1 = j + 1
    BY <1>2, <1>3 DEF IsQueue
  <2> QED BY <2>1
<1>7. ASSUME NEW x \in Writers PROVE Waits(t, x) <=> Waits(q, x) /\ x # Head(q)
  <2>1. ASSUME Waits(t, x) PROVE Waits(q, x) /\ x # Head(q)
    <3> PICK i \in 1 .. Len(t) : t[i] = x
      BY <2>1 DEF Waits
    <3>1. q[i + 1] = x /\ i + 1 \in 1 .. Len(q) /\ i + 1 # 1
      BY <1>2, <1>3
    <3> QED BY <1>2, <1>5, <3>1 DEF Waits, IsQueue
  <2>2. ASSUME Waits(q, x), x # Head(q) PROVE Waits(t, x)
    <3> PICK i \in 1 .. Len(q) : q[i] = x
      BY <2>2 DEF Waits
    <3>1. i # 1
      BY <1>2, <2>2
    <3>2. i - 1 \in 1 .. Len(t) /\ t[i - 1] = x
      BY <1>2, <1>4, <3>1
    <3> QED BY <3>2 DEF Waits
  <2> QED BY <2>1, <2>2
<1>8. Waits(q, Head(q))
  BY <1>2, <1>5 DEF Waits
<1> QED BY <1>2, <1>6, <1>7, <1>8 DEF IsQueue

LEMMA Joined ==
    ASSUME NEW S, NEW a \in Seq(S), NEW b \in Seq(S), NEW t, t = a \o b
    PROVE  /\ t \in Seq(S) /\ Len(t) = Len(a) + Len(b)
           /\ \A i \in 1 .. Len(a) + Len(b) : t[i] = IF i <= Len(a) THEN a[i] ELSE b[i - Len(a)]
BY ConcatProperties

LEMMA RemoveWaits ==
    ASSUME NEW q, IsQueue(q), NEW w \in Writers, NEW t, t = RemoveFirst(q, w)
    PROVE  IsQueue(t) /\ \A x \in Writers : Waits(t, x) <=> Waits(q, x) /\ x # w
<1>0. q \in Seq(Writers) /\ Len(q) \in Nat /\ \A i, j \in 1 .. Len(q) : q[i] = q[j] => i = j
  BY DEF IsQueue
<1>1. CASE ~\E i \in 1 .. Len(q) : q[i] = w
  <2>1. t = q
    BY <1>1 DEF RemoveFirst
  <2> QED BY <1>1, <2>1 DEF Waits
<1>2. CASE \E i \in 1 .. Len(q) : q[i] = w
  <2> PICK k \in 1 .. Len(q) : q[k] = w
    BY <1>2
  <2>1. {i \in 1 .. Len(q) : q[i] = w} = {k}
    BY <1>0
  <2>2. SelectInSeq(q, LAMBDA v : v = w) = k
    BY <2>1 DEF SelectInSeq, Min
  <2>3. t = RemoveAt(q, k)
    BY <1>2, <2>2 DEF RemoveFirst
  <2> DEFINE a == SubSeq(q, 1, k - 1)
             b == SubSeq(q, k + 1, Len(q))
  <2>4. /\ a \in Seq(Writers) /\ Len(a) = k - 1
        /\ \A i \in 1 .. k - 1 : a[i] = q[i]
    BY <1>0
  <2>5. /\ b \in Seq(Writers) /\ Len(b) = Len(q) - k
        /\ \A i \in 1 .. Len(q) - k : b[i] = q[k + i]
    BY <1>0
  <2>6. t = a \o b
    BY <2>3 DEF RemoveAt
  <2> HIDE DEF a, b
  <2>7. /\ t \in Seq(Writers) /\ Len(t) = Len(q) - 1
        /\ \A i \in 1 .. Len(t) : t[i] = IF i <= k - 1 THEN a[i] ELSE b[i - (k - 1)]
    <3>1. /\ t \in Seq(Writers) /\ Len(t) = Len(a) + Len(b)
          /\ \A i \in 1 .. Len(a) + Len(b) : t[i] = IF i <= Len(a) THEN a[i] ELSE b[i - Len(a)]
      <4>1. a \in Seq(Writers) /\ b \in Seq(Writers)
        BY <2>4, <2>5
      <4> QED BY <2>6, <4>1, Joined
    <3>2. Len(a) + Len(b) = Len(q) - 1
      BY <1>0, <2>4, <2>5
    <3> QED BY <2>4, <3>1, <3>2
  <2>8. ASSUME NEW i \in 1 .. Len(t)
        PROVE  t[i] = IF i < k THEN q[i] ELSE q[i + 1]
    <3>1. CASE i < k
      BY <2>4, <2>7, <3>1
    <3>2. CASE i >= k
      <4>1. i - (k - 1) \in 1 .. Len(q) - k /\ k + (i - (k - 1)) = i + 1
        BY <1>0, <2>7, <3>2
      <4> QED BY <2>5, <2>7, <3>2, <4>1
    <3> QED BY <3>1, <3>2
  <2> DEFINE at(i) == IF i < k THEN i ELSE i + 1
  <2>9. \A i \in 1 .. Len(t) : at(i) \in 1 .. Len(q) /\ t[i] = q[at(i)] /\ at(i) # k
    BY <1>0, <2>7, <2>8
  <2>10. \A i, j \in 1 .. Len(t) : at(i) = at(j) => i = j
    BY <1>0, <2>7
  <2>11. \A i \in 1 .. Len(q) : i # k => \E j \in 1 .. Len(t) : at(j) = i
    <3> SUFFICES ASSUME NEW i \in 1 .. Len(q), i # k PROVE \E j \in 1 .. Len(t) : at(j) = i
      OBVIOUS
    <3>1. CASE i < k
      BY <1>0, <2>7, <3>1
    <3>2. CASE i > k
      <4>1. i - 1 \in 1 .. Len(t) /\ at(i - 1) = i
        BY <1>0, <2>7, <3>2
      <4> QED BY <4>1
    <3> QED BY <3>1, <3>2
  <2> HIDE DEF at
  <2>12. \A i, j \in 1 .. Len(t) : t[i] = t[j] => i = j
    BY <1>0, <2>9, <2>10
  <2>13. ASSUME NEW x \in Writers PROVE Waits(t, x) <=> Waits(q, x) /\ x # w
    <3>1. ASSUME Waits(t, x) PROVE Waits(q, x) /\ x # w
      <4> PICK i \in 1 .. Len(t) : t[i] = x
        BY <3>1 DEF Waits
      <4>1. at(i) \in 1 .. Len(q) /\ q[at(i)] = x /\ at(i) # k
        BY <2>9
      <4> QED BY <1>0, <4>1 DEF Waits
    <3>2. ASSUME Waits(q, x), x # w PROVE Waits(t, x)
      <4> PICK i \in 1 .. Len(q) : q[i] = x
        BY <3>2 DEF Waits
      <4> PICK j \in 1 .. Len(t) : at(j) = i
        BY <2>11, <3>2
      <4> QED BY <2>9 DEF Waits
    <3> QED BY <3>1, <3>2
  <2> QED BY <2>7, <2>12, <2>13 DEF IsQueue
<1> QED BY <1>1, <1>2

-----------------------------------------------------------------------------
(* The inductive invariant of the settings path, part by part.             *)

Shape(p) == p # None => IsProfile(p)

\* The screen, and the auxiliary record of what the user did.
ScreenInv == /\ activity \in {"gone", "started", "stopped"}
             /\ activity = "gone" => uiProfile = None
             /\ Shape(uiProfile) /\ Shape(pending)
             /\ IsProfile(wanted) /\ edited \subseteq Fields

StoreInv == IsPrefs(prefs) /\ IsSecrets(secrets)

CountsInv == counts \in [edits : Nat, stops : Nat, creates : Nat, kills : Nat]

IsSave(r) == r = [snapshot |-> r.snapshot, step |-> r.step] /\ IsProfile(r.snapshot) /\ r.step \in Steps

\* The saves under way; the slot of a flush is taken when its onStop comes and not before.
SaveInv == /\ saves = [w \in Writers |-> saves[w]]
           /\ \A w \in Writers : saves[w] # None => IsSave(saves[w])
           /\ \A w \in Writers : w > counts.stops => saves[w] = None

\* The DataStore's queue holds exactly the saves that have called edit.
QueueInv == /\ IsQueue(queue)
            /\ \A w \in Writers : Waits(queue, w) <=> saves[w] # None /\ saves[w].step = "prefs"

\* A start request comes from the last tap, and only with the consent.
RequestInv == /\ IsProfile(tapped) /\ granted \in BOOLEAN
              /\ ~granted => intent = None /\ service = None
              /\ pendingProfile # None => ~granted /\ pendingProfile = tapped
              /\ intent # None => intent = encode(tapped)

\* What the service runs is the tapped profile, as far as the intent carries it.
ServiceInv == /\ Shape(service)
              /\ service # None /\ service["teamAuth"] = "OFF" => Only(service, SecretFields) = NoSecrets
              /\ Requested /\ OneLine(tapped) => \A f \in CarriedFields : service[f] = tapped[f]

\* Until the first load or edit of the first activity the user has set nothing.
EditInv == /\ counts.creates = 0 => activity = "gone" /\ edited = {}
           /\ counts.creates = 1 /\ counts.kills = 0 /\ activity # "gone" /\ uiProfile = None => edited = {}
           /\ counts.creates = 1 /\ counts.kills = 0 /\ uiProfile # None
                  => \A f \in edited : uiProfile[f] = wanted[f]

PathInv == /\ ScreenInv /\ StoreInv /\ CountsInv /\ SaveInv
           /\ QueueInv /\ RequestInv /\ ServiceInv /\ EditInv

-----------------------------------------------------------------------------
(* The parts hold at the start and are kept by every step.                 *)

LEMMA InitIsPrefs == ASSUME PathInit PROVE IsPrefs(prefs) /\ IsSecrets(secrets)
<1>1. IsPrefs(prefs)
  BY SavedAssumption DEF PathInit, IsPrefs
<1>2. Blank \in Seq(STRING)
  BY DEF Blank
<1>3. \A f \in SecretFields : Setting(f) = Seq(STRING)
  BY SettingFacts, PathFields
<1>4. secrets = [f \in SecretFields |-> Blank]
  BY DEF PathInit, NoSecrets
<1>5. IsSecrets(secrets)
  BY <1>2, <1>3, <1>4 DEF IsSecrets
<1> QED BY <1>1, <1>5

LEMMA InitPathInv == PathInit => PathInv
<1> SUFFICES ASSUME PathInit PROVE PathInv
  OBVIOUS
<1>1. StoreInv /\ IsProfile(Stored)
  BY InitIsPrefs, StoredIsProfile DEF StoreInv
<1>2. ScreenInv
  BY <1>1 DEF PathInit, ScreenInv, Shape
<1>3. CountsInv
  BY DEF PathInit, CountsInv
<1>4. SaveInv
  BY DEF PathInit, SaveInv
<1>5. QueueInv
  <2>1. queue = <<>> /\ \A w \in Writers : saves[w] = None
    BY DEF PathInit
  <2>2. IsQueue(queue) /\ \A w \in Writers : ~Waits(queue, w)
    BY <2>1 DEF IsQueue, Waits
  <2> QED BY <2>1, <2>2 DEF QueueInv
<1>6. RequestInv
  BY <1>1 DEF PathInit, RequestInv
<1>7. ServiceInv
  BY DEF PathInit, ServiceInv, Shape, Requested
<1>8. EditInv
  BY DEF PathInit, EditInv
<1> QED BY <1>1, <1>2, <1>3, <1>4, <1>5, <1>6, <1>7, <1>8 DEF PathInv

LEMMA StoreStep ==
    ASSUME PathInv, [PathNext]_pathVars
    PROVE  StoreInv'
<1> USE DEF StoreInv, store
<1>1. IsPrefs(prefs) /\ IsSecrets(secrets)
  BY DEF PathInv
<1>2. ASSUME NEW w \in Writers, savePrefs(w) PROVE StoreInv'
  <2>1. saves[w] # None
    <3>1. Waits(queue, w)
      BY <1>2, TailWaits DEF savePrefs, PathInv, QueueInv
    <3> QED BY <3>1 DEF PathInv, QueueInv
  <2> PICK p : p = saves[w].snapshot
    OBVIOUS
  <2>2. \A f \in Fields : p[f] \in Setting(f)
    BY <2>1, ProfileFacts DEF PathInv, SaveInv, IsSave
  <2>3. prefs' = [f \in StoredFields |-> p[f]] /\ secrets' = secrets
    BY <1>2 DEF savePrefs, Only
  <2>4. IsPrefs(prefs')
    BY <2>2, <2>3, PathFields DEF IsPrefs
  <2> QED BY <1>1, <2>3, <2>4
<1>3. ASSUME NEW w \in Writers, saveSecrets(w) PROVE StoreInv'
  <2>1. saves[w] # None /\ prefs' = prefs
    BY <1>3 DEF saveSecrets
  <2> PICK p : p = saves[w].snapshot
    OBVIOUS
  <2>2. \A f \in Fields : p[f] \in Setting(f)
    BY <2>1, ProfileFacts DEF PathInv, SaveInv, IsSave
  <2>3. secrets' = [f \in SecretFields |-> p[f]] \/ secrets' = secrets
    BY <1>3 DEF saveSecrets, Only
  <2>4. IsSecrets(secrets')
    BY <1>1, <2>2, <2>3, PathFields DEF IsSecrets
  <2> QED BY <1>1, <2>1, <2>4
<1>4. CASE onStartCommand
  <2>1. IsSecrets(NoSecrets)
    <3>1. Blank \in Seq(STRING)
      BY DEF Blank
    <3>2. \A f \in SecretFields : Setting(f) = Seq(STRING)
      BY SettingFacts, PathFields
    <3> QED BY <3>1, <3>2 DEF IsSecrets, NoSecrets
  <2>2. prefs' = prefs /\ (secrets' = secrets \/ secrets' = NoSecrets)
    BY <1>4 DEF onStartCommand, Readable
  <2> QED BY <1>1, <2>1, <2>2
<1>5. CASE onCreate \/ Load \/ collect \/ onStop \/ onRestart \/ onDestroy
  BY <1>1, <1>5 DEF onCreate, Load, collect, onStop, onRestart, onDestroy
<1>6. ASSUME NEW e \in Edits, onProfileChange(e) PROVE StoreInv'
  BY <1>1, <1>6 DEF onProfileChange
<1>7. ASSUME NEW w \in Writers, callEdit(w) PROVE StoreInv'
  BY <1>1, <1>7 DEF callEdit
<1>8. CASE toggleConnection \/ vpnPermissionResult \/ tileConnect \/ processDeath
  BY <1>1, <1>8 DEF toggleConnection, vpnPermissionResult, tileConnect, processDeath
<1>9. CASE UNCHANGED pathVars
  BY <1>1, <1>9 DEF pathVars
<1> QED BY <1>2, <1>3, <1>4, <1>5, <1>6, <1>7, <1>8, <1>9 DEF PathNext

LEMMA CountsStep ==
    ASSUME PathInv, [PathNext]_pathVars
    PROVE  /\ CountsInv'
           /\ counts'.stops >= counts.stops
           /\ UNCHANGED counts.creates \/ onCreate
           /\ UNCHANGED counts.kills \/ processDeath
           /\ UNCHANGED counts.stops \/ onStop
<1>1. CountsInv
  BY DEF PathInv
<1>2. /\ DOMAIN counts = {"edits", "stops", "creates", "kills"}
      /\ counts.edits \in Nat /\ counts.stops \in Nat /\ counts.creates \in Nat /\ counts.kills \in Nat
  BY <1>1 DEF CountsInv
<1>3. CASE onCreate
  <2>1. counts' = [counts EXCEPT !.creates = @ + 1]
    BY <1>3 DEF onCreate
  <2> QED BY <1>1, <1>2, <1>3, <2>1 DEF CountsInv
<1>4. CASE onStop
  <2>1. counts' = [counts EXCEPT !.stops = @ + 1]
    BY <1>4 DEF onStop
  <2> QED BY <1>1, <1>2, <1>4, <2>1 DEF CountsInv
<1>5. CASE processDeath
  <2>1. counts' = [counts EXCEPT !.kills = @ + 1]
    BY <1>5 DEF processDeath
  <2> QED BY <1>1, <1>2, <1>5, <2>1 DEF CountsInv
<1>6. ASSUME NEW e \in Edits, onProfileChange(e)
      PROVE  CountsInv' /\ counts'.stops = counts.stops /\ counts'.creates = counts.creates /\ counts'.kills = counts.kills
  <2>1. counts' = [counts EXCEPT !.edits = @ + 1]
    BY <1>6 DEF onProfileChange
  <2> QED BY <1>1, <1>2, <2>1 DEF CountsInv
<1>7. ASSUME counts' = counts
      PROVE  CountsInv' /\ counts'.stops = counts.stops /\ counts'.creates = counts.creates /\ counts'.kills = counts.kills
  BY <1>1, <1>7 DEF CountsInv
<1>8. CASE Load \/ collect \/ onRestart \/ onDestroy
  <2>1. counts' = counts
    BY <1>8 DEF Load, collect, onRestart, onDestroy
  <2> QED BY <1>2, <1>7, <2>1
<1>9. ASSUME NEW w \in Writers, callEdit(w) \/ savePrefs(w) \/ saveSecrets(w) PROVE counts' = counts
  BY <1>9 DEF callEdit, savePrefs, saveSecrets
<1>10. CASE toggleConnection \/ vpnPermissionResult \/ tileConnect \/ onStartCommand \/ UNCHANGED pathVars
  <2>1. counts' = counts
    BY <1>10 DEF toggleConnection, vpnPermissionResult, tileConnect, onStartCommand, pathVars
  <2> QED BY <1>2, <1>7, <2>1
<1> QED BY <1>2, <1>3, <1>4, <1>5, <1>6, <1>7, <1>8, <1>9, <1>10 DEF PathNext

LEMMA ScreenStep ==
    ASSUME PathInv, [PathNext]_pathVars
    PROVE  ScreenInv'
<1> USE DEF screen, ghosts
<1>1. /\ activity \in {"gone", "started", "stopped"} /\ (activity = "gone" => uiProfile = None)
      /\ Shape(uiProfile) /\ Shape(pending) /\ IsProfile(wanted) /\ edited \subseteq Fields
      /\ IsProfile(Stored) /\ Shape(None) /\ IsProfile(ConnectionProfile)
  BY StoredIsProfile, DefaultIsProfile DEF PathInv, ScreenInv, StoreInv, Shape
<1>2. CASE onCreate \/ onDestroy \/ processDeath
  BY <1>1, <1>2 DEF onCreate, onDestroy, processDeath, ScreenInv
<1>3. CASE Load
  BY <1>1, <1>3 DEF Load, ScreenInv, Shape
<1>4. CASE collect \/ onStop \/ onRestart
  BY <1>1, <1>4 DEF collect, onStop, onRestart, ScreenInv
<1>5. ASSUME NEW e \in Edits, onProfileChange(e) PROVE ScreenInv'
  <2>1. /\ DOMAIN e \subseteq Fields /\ (\A f \in DOMAIN e : e[f] \in Setting(f))
        /\ "backend" \in DOMAIN e => e["backend"] \in Backends
    BY EditsAssumption
  <2> PICK p : p = IF uiProfile = None THEN ConnectionProfile ELSE uiProfile
    OBVIOUS
  <2>2. IsProfile(p)
    BY <1>1 DEF Shape
  <2>3. /\ uiProfile' = Over(e, p) /\ pending' = uiProfile' /\ wanted' = Over(e, wanted)
        /\ edited' = edited \cup DOMAIN e /\ activity' = activity /\ activity = "started"
    BY <1>5 DEF onProfileChange
  <2>4. IsProfile(uiProfile') /\ IsProfile(wanted')
    BY <1>1, <2>1, <2>2, <2>3, OverIsProfile
  <2> QED BY <1>1, <2>1, <2>3, <2>4 DEF ScreenInv, Shape
<1>6. ASSUME NEW w \in Writers, callEdit(w) \/ savePrefs(w) \/ saveSecrets(w) PROVE ScreenInv'
  BY <1>1, <1>6 DEF callEdit, savePrefs, saveSecrets, ScreenInv
<1>7. CASE toggleConnection \/ vpnPermissionResult \/ tileConnect \/ onStartCommand
  BY <1>1, <1>7 DEF toggleConnection, vpnPermissionResult, tileConnect, onStartCommand, ScreenInv
<1>8. CASE UNCHANGED pathVars
  BY <1>1, <1>8 DEF pathVars, ScreenInv
<1> QED BY <1>2, <1>3, <1>4, <1>5, <1>6, <1>7, <1>8 DEF PathNext

LEMMA IsSaveFacts ==
    ASSUME NEW p, IsProfile(p), NEW st \in Steps, NEW r, r = [snapshot |-> p, step |-> st]
    PROVE  IsSave(r) /\ r # None /\ r.step = st /\ r.snapshot = p
<1>1. IsSave(r) /\ r.step = st /\ r.snapshot = p
  BY DEF IsSave
<1>2. r \in [snapshot : [Fields -> Settings], step : Steps]
  BY ProfileFacts
<1> QED BY <1>1, <1>2, NoneAssumption

\* A save that goes on to another step stays one.
LEMMA NextStep ==
    ASSUME NEW r, IsSave(r), NEW st \in Steps, NEW n, n = [r EXCEPT !.step = st]
    PROVE  IsSave(n) /\ n # None /\ n.step = st
<1>1. IsProfile(r.snapshot) /\ r = [snapshot |-> r.snapshot, step |-> r.step]
  BY DEF IsSave
<1>2. n = [snapshot |-> r.snapshot, step |-> st]
  BY <1>1
<1> QED BY <1>1, <1>2, IsSaveFacts

\* One slot is changed.
LEMMA SlotFacts ==
    ASSUME saves = [w \in Writers |-> saves[w]], NEW k \in Writers, NEW r, NEW n, n = [saves EXCEPT ![k] = r]
    PROVE  /\ n = [w \in Writers |-> n[w]] /\ n[k] = r /\ \A w \in Writers \ {k} : n[w] = saves[w]
<1>1. DOMAIN saves = Writers
  OBVIOUS
<1>2. n = [w \in Writers |-> IF w = k THEN r ELSE saves[w]]
  BY <1>1
<1> QED BY <1>2

\* A step that changes one slot, leaves the counts alone and keeps the queue in step.
LEMMA SlotStep ==
    ASSUME PathInv, NEW k \in Writers, NEW r, r # None => IsSave(r) /\ k <= counts.stops,
           saves' = [saves EXCEPT ![k] = r], counts' = counts, IsQueue(queue'),
           \A w \in Writers \ {k} : Waits(queue', w) <=> Waits(queue, w),
           Waits(queue', k) <=> r # None /\ r.step = "prefs"
    PROVE  SaveInv' /\ QueueInv'
<1> PICK n : n = [saves EXCEPT ![k] = r]
  OBVIOUS
<1>1. saves = [w \in Writers |-> saves[w]]
  BY DEF PathInv, SaveInv
<1>2. n = [w \in Writers |-> n[w]] /\ n[k] = r /\ \A w \in Writers \ {k} : n[w] = saves[w]
  BY <1>1, SlotFacts
<1>3. counts.stops \in Nat /\ k \in Nat
  BY PathAssumption DEF PathInv, CountsInv, Writers
<1>4. \A w \in Writers : n[w] # None => IsSave(n[w])
  BY <1>2 DEF PathInv, SaveInv
<1>5. \A w \in Writers : w > counts.stops => n[w] = None
  BY <1>2, <1>3 DEF PathInv, SaveInv
<1>6. SaveInv'
  BY <1>2, <1>4, <1>5 DEF SaveInv
<1>7. \A w \in Writers : Waits(queue', w) <=> n[w] # None /\ n[w].step = "prefs"
  BY <1>2 DEF PathInv, QueueInv
<1> QED BY <1>6, <1>7 DEF QueueInv

LEMMA SaveStep ==
    ASSUME PathInv, [PathNext]_pathVars
    PROVE  SaveInv' /\ QueueInv'
<1> USE DEF Steps
<1>1. IsQueue(queue) /\ (\A w \in Writers : Waits(queue, w) <=> saves[w] # None /\ saves[w].step = "prefs")
  BY DEF PathInv, QueueInv
<1>2. /\ saves = [w \in Writers |-> saves[w]] /\ DOMAIN saves = Writers
      /\ \A w \in Writers : saves[w] # None => IsSave(saves[w])
      /\ \A w \in Writers : w > counts.stops => saves[w] = None
  BY DEF PathInv, SaveInv
<1>3. counts.stops \in Nat /\ Writers \subseteq Nat /\ Collector \in Writers /\ Collector = 0
  BY PathAssumption DEF PathInv, CountsInv, Writers, Collector
<1>4. \A w \in Writers : saves[w] # None => w <= counts.stops
  BY <1>2, <1>3
<1>5. CASE collect
  <2> PICK r : r = [snapshot |-> pending, step |-> "prefs"]
    OBVIOUS
  <2>1. IsProfile(pending)
    BY <1>5 DEF collect, PathInv, ScreenInv, Shape
  <2>2. IsSave(r) /\ r # None /\ r.step = "prefs"
    BY <2>1, IsSaveFacts
  <2>3. saves' = [saves EXCEPT ![Collector] = r] /\ queue' = Append(queue, Collector) /\ counts' = counts
    BY <1>5 DEF collect
  <2>4. ~Waits(queue, Collector)
    BY <1>1, <1>3, <1>5 DEF collect
  <2>5. IsQueue(queue') /\ \A x \in Writers : Waits(queue', x) <=> Waits(queue, x) \/ x = Collector
    BY <1>1, <1>3, <2>3, <2>4, AppendWaits
  <2>6. /\ \A x \in Writers \ {Collector} : Waits(queue', x) <=> Waits(queue, x)
        /\ Waits(queue', Collector) /\ Collector <= counts.stops
    BY <1>3, <2>5
  <2> QED BY <1>3, <2>2, <2>3, <2>5, <2>6, SlotStep
<1>6. ASSUME NEW w \in Writers, callEdit(w) PROVE SaveInv' /\ QueueInv'
  <2> PICK r : r = [saves[w] EXCEPT !.step = "prefs"]
    OBVIOUS
  <2>1. IsSave(saves[w]) /\ w <= counts.stops /\ saves[w].step = "launched"
    BY <1>2, <1>4, <1>6 DEF callEdit
  <2>2. IsSave(r) /\ r # None /\ r.step = "prefs"
    BY <2>1, NextStep
  <2>3. saves' = [saves EXCEPT ![w] = r] /\ queue' = Append(queue, w) /\ counts' = counts
    BY <1>2, <1>6 DEF callEdit
  <2>4. ~Waits(queue, w)
    BY <1>1, <2>1
  <2>5. IsQueue(queue') /\ \A x \in Writers : Waits(queue', x) <=> Waits(queue, x) \/ x = w
    BY <1>1, <2>3, <2>4, AppendWaits
  <2>6. (\A x \in Writers \ {w} : Waits(queue', x) <=> Waits(queue, x)) /\ Waits(queue', w)
    BY <2>5
  <2> QED BY <2>1, <2>2, <2>3, <2>5, <2>6, SlotStep
<1>7. ASSUME NEW w \in Writers, savePrefs(w) PROVE SaveInv' /\ QueueInv'
  <2> PICK r : r = [saves[w] EXCEPT !.step = "secrets"]
    OBVIOUS
  <2>1. saves' = [saves EXCEPT ![w] = r] /\ queue' = Tail(queue) /\ counts' = counts /\ queue # <<>> /\ Head(queue) = w
    BY <1>2, <1>7 DEF savePrefs
  <2>2. /\ IsQueue(queue') /\ Waits(queue, w)
        /\ \A x \in Writers : Waits(queue', x) <=> Waits(queue, x) /\ x # w
    BY <1>1, <2>1, TailWaits
  <2>3. IsSave(saves[w]) /\ w <= counts.stops
    BY <1>1, <1>2, <1>4, <2>2
  <2>4. IsSave(r) /\ r # None /\ r.step = "secrets"
    BY <2>3, NextStep
  <2>5. (\A x \in Writers \ {w} : Waits(queue', x) <=> Waits(queue, x)) /\ ~Waits(queue', w)
    BY <2>2
  <2>6. r.step # "prefs"
    BY <2>4
  <2> QED BY <2>1, <2>2, <2>3, <2>4, <2>5, <2>6, SlotStep
<1>8. ASSUME NEW w \in Writers, saveSecrets(w) PROVE SaveInv' /\ QueueInv'
  <2>1. saves' = [saves EXCEPT ![w] = None] /\ queue' = queue /\ counts' = counts
    BY <1>8 DEF saveSecrets
  <2>2. ~Waits(queue, w)
    BY <1>1, <1>8 DEF saveSecrets
  <2> QED BY <1>1, <2>1, <2>2, SlotStep
<1>9. CASE onDestroy
  <2>1. saves' = [saves EXCEPT ![Collector] = None] /\ queue' = RemoveFirst(queue, Collector) /\ counts' = counts
    BY <1>9 DEF onDestroy
  <2>2. IsQueue(queue') /\ \A x \in Writers : Waits(queue', x) <=> Waits(queue, x) /\ x # Collector
    BY <1>1, <1>3, <2>1, RemoveWaits
  <2>3. (\A x \in Writers \ {Collector} : Waits(queue', x) <=> Waits(queue, x)) /\ ~Waits(queue', Collector)
    BY <1>3, <2>2
  <2> QED BY <1>3, <2>1, <2>2, <2>3, SlotStep
<1>10. CASE onStop
  <2>1. queue' = queue /\ counts'.stops = counts.stops + 1 /\ counts.stops < MaxStops
    BY <1>10 DEF onStop, PathInv, CountsInv
  <2> PICK k : k = counts.stops + 1
    OBVIOUS
  <2>2. k \in Writers /\ k > counts.stops /\ counts'.stops = k
    BY <1>3, <2>1, PathAssumption DEF Writers
  <2>3. saves[k] = None
    BY <1>2, <2>2
  <2>4. CASE uiProfile = None
    <3>1. saves' = saves
      BY <1>10, <2>4 DEF onStop
    <3>2. \A w \in Writers : w > k => w > counts.stops
      BY <1>3, <2>2
    <3> QED BY <1>1, <1>2, <2>1, <2>2, <3>1, <3>2 DEF SaveInv, QueueInv
  <2>5. CASE uiProfile # None
    <3> PICK r : r = [snapshot |-> uiProfile, step |-> "launched"]
      OBVIOUS
    <3>1. IsSave(r) /\ r # None /\ r.step = "launched"
      BY <2>5, IsSaveFacts DEF PathInv, ScreenInv, Shape
    <3> PICK n : n = [saves EXCEPT ![k] = r]
      OBVIOUS
    <3>2. saves' = n
      BY <1>10, <2>5 DEF onStop
    <3>3. n = [w \in Writers |-> n[w]] /\ n[k] = r /\ \A w \in Writers \ {k} : n[w] = saves[w]
      BY <1>2, <2>2, SlotFacts
    <3>4. \A w \in Writers : w > k => w > counts.stops /\ w # k
      BY <1>3, <2>2
    <3>5. SaveInv'
      <4>1. \A w \in Writers : n[w] # None => IsSave(n[w])
        BY <1>2, <3>1, <3>3
      <4>2. \A w \in Writers : w > k => n[w] = None
        BY <1>2, <3>3, <3>4
      <4> QED BY <2>2, <3>2, <3>3, <4>1, <4>2 DEF SaveInv
    <3>6. \A w \in Writers : Waits(queue, w) <=> n[w] # None /\ n[w].step = "prefs"
      BY <1>1, <2>3, <3>1, <3>3
    <3> QED BY <1>1, <2>1, <3>2, <3>5, <3>6 DEF QueueInv
  <2> QED BY <2>4, <2>5
<1>11. CASE processDeath
  <2>1. queue' = <<>> /\ saves' = [w \in Writers |-> None]
    BY <1>11 DEF processDeath
  <2>2. IsQueue(queue') /\ \A w \in Writers : ~Waits(queue', w)
    BY <2>1 DEF IsQueue, Waits
  <2> QED BY <2>1, <2>2 DEF SaveInv, QueueInv
<1>12. ASSUME saves' = saves, queue' = queue, counts'.stops = counts.stops PROVE SaveInv' /\ QueueInv'
  BY <1>1, <1>2, <1>12 DEF SaveInv, QueueInv
<1>13. CASE onCreate
  <2>1. counts'.stops = counts.stops
    BY <1>13 DEF onCreate, PathInv, CountsInv
  <2> QED BY <1>12, <1>13, <2>1 DEF onCreate
<1>14. CASE Load \/ onRestart
  BY <1>12, <1>14 DEF Load, onRestart
<1>15. ASSUME NEW e \in Edits, onProfileChange(e) PROVE SaveInv' /\ QueueInv'
  <2>1. counts'.stops = counts.stops
    BY <1>15 DEF onProfileChange, PathInv, CountsInv
  <2> QED BY <1>12, <1>15, <2>1 DEF onProfileChange
<1>16. CASE toggleConnection \/ vpnPermissionResult \/ tileConnect \/ onStartCommand
  BY <1>12, <1>16 DEF toggleConnection, vpnPermissionResult, tileConnect, onStartCommand
<1>17. CASE UNCHANGED pathVars
  BY <1>12, <1>17 DEF pathVars
<1> QED BY <1>5, <1>6, <1>7, <1>8, <1>9, <1>10, <1>11, <1>13, <1>14, <1>15, <1>16, <1>17 DEF PathNext

LEMMA ShownIsProfile ==
    ASSUME PathInv
    PROVE  IsProfile(Shown) /\ IsProfile(Stored)
BY StoredIsProfile DEF PathInv, StoreInv, ScreenInv, Shape, Shown

\* A tap is recorded, sent or kept for the consent; the consent sends what was tapped.
LEMMA RequestStep ==
    ASSUME PathInv, [PathNext]_pathVars
    PROVE  RequestInv'
<1> USE DEF screen, consent, ghosts
<1>1. /\ IsProfile(tapped) /\ granted \in BOOLEAN
      /\ ~granted => intent = None /\ service = None
      /\ pendingProfile # None => ~granted /\ pendingProfile = tapped
      /\ intent # None => intent = encode(tapped)
  BY DEF PathInv, RequestInv
<1>2. CASE onCreate \/ onDestroy \/ processDeath
  BY <1>1, <1>2 DEF onCreate, onDestroy, processDeath, RequestInv
<1>3. CASE Load \/ collect \/ onStop \/ onRestart
  BY <1>1, <1>3 DEF Load, collect, onStop, onRestart, RequestInv
<1>4. ASSUME NEW e \in Edits, onProfileChange(e) PROVE RequestInv'
  BY <1>1, <1>4 DEF onProfileChange, RequestInv
<1>5. ASSUME NEW w \in Writers, callEdit(w) \/ savePrefs(w) \/ saveSecrets(w) PROVE RequestInv'
  BY <1>1, <1>5 DEF callEdit, savePrefs, saveSecrets, RequestInv
<1>6. CASE toggleConnection
  <2>1. CASE service # None
    BY <1>1, <1>6, <2>1 DEF toggleConnection, RequestInv
  <2>2. CASE service = None
    <3>1. /\ tapped' = Shown /\ granted' = granted /\ service' = None /\ intent = None /\ pendingProfile = None
          /\ \/ granted /\ intent' = encode(Shown) /\ pendingProfile' = pendingProfile
             \/ ~granted /\ pendingProfile' = Shown /\ intent' = intent
      BY <1>6, <2>2 DEF toggleConnection, Send, Shown
    <3> QED BY <1>1, <3>1, ShownIsProfile DEF RequestInv
  <2> QED BY <2>1, <2>2
<1>7. CASE vpnPermissionResult
  <2>1. /\ pendingProfile # None /\ pendingProfile' = None /\ tapped' = tapped /\ service' = service
        /\ \/ intent' = encode(pendingProfile) /\ granted' = TRUE
           \/ intent' = intent /\ granted' = granted
    BY <1>7 DEF vpnPermissionResult, Send
  <2> QED BY <1>1, <2>1 DEF RequestInv
<1>8. CASE tileConnect
  <2>1. /\ granted /\ granted' = granted /\ intent' = encode(Stored) /\ tapped' = Stored
        /\ pendingProfile' = pendingProfile /\ service' = service
    BY <1>8 DEF tileConnect, Send
  <2> QED BY <1>1, <2>1, ShownIsProfile DEF RequestInv
<1>9. CASE onStartCommand
  <2>1. /\ intent # None /\ intent' = None /\ granted' = granted /\ tapped' = tapped
        /\ pendingProfile' = pendingProfile
    BY <1>9 DEF onStartCommand
  <2> QED BY <1>1, <2>1 DEF RequestInv
<1>10. CASE UNCHANGED pathVars
  BY <1>1, <1>10 DEF pathVars, RequestInv
<1> QED BY <1>2, <1>3, <1>4, <1>5, <1>6, <1>7, <1>8, <1>9, <1>10 DEF PathNext

LEMMA ServiceStep ==
    ASSUME PathInv, [PathNext]_pathVars
    PROVE  ServiceInv'
<1> USE DEF ghosts
<1>1. ServiceInv
  BY DEF PathInv
<1>2. ASSUME service' = service, tapped' = tapped, counts'.kills = counts.kills PROVE ServiceInv'
  BY <1>1, <1>2 DEF ServiceInv, Requested
<1>3. ASSUME service' = None PROVE ServiceInv'
  BY <1>3 DEF ServiceInv, Requested, Shape
<1>4. CASE onStartCommand
  <2> PICK d : d = decode(intent)
    OBVIOUS
  <2>1. \E s \in Readable : service' = hydrateSecrets(d, s)
    BY <1>4 DEF onStartCommand
  <2> PICK s \in Readable : service' = hydrateSecrets(d, s)
    BY <2>1
  <2> PICK h : h = service'
    OBVIOUS
  <2>2. IsSecrets(s)
    <3>1. Blank \in Seq(STRING)
      BY DEF Blank
    <3>2. \A f \in SecretFields : Setting(f) = Seq(STRING)
      BY SettingFacts, PathFields
    <3>3. IsSecrets(NoSecrets)
      BY <3>1, <3>2 DEF IsSecrets, NoSecrets
    <3>4. s = secrets \/ s = NoSecrets
      BY DEF Readable
    <3> QED BY <3>3, <3>4 DEF PathInv, StoreInv
  <2>3. intent # None /\ intent = encode(tapped) /\ IsProfile(tapped)
    BY <1>4 DEF onStartCommand, PathInv, RequestInv
  <2>4. /\ IsProfile(d) /\ (OneLine(tapped) => \A f \in CarriedFields : d[f] = tapped[f])
        /\ \A f \in SecretFields : d[f] = Blank
    BY <2>3, DecodeFacts
  <2>5. /\ IsProfile(h) /\ (\A f \in CarriedFields : h[f] = d[f])
        /\ h["teamAuth"] = "OFF" => Only(h, SecretFields) = NoSecrets
    BY <2>2, <2>4, HydrateFacts
  <2>6. OneLine(tapped) => \A f \in CarriedFields : h[f] = tapped[f]
    BY <2>4, <2>5
  <2>7. tapped' = tapped
    BY <1>4 DEF onStartCommand
  <2> QED BY <2>5, <2>6, <2>7 DEF ServiceInv, Shape
<1>5. CASE processDeath
  <2>1. CASE service = None
    BY <1>3, <1>5, <2>1 DEF processDeath
  <2>2. CASE service # None
    <3>1. service' = ConnectionProfile
      BY <1>5, <2>2 DEF processDeath, decode
    <3>2. counts'.kills = counts.kills + 1 /\ counts.kills \in Nat
      BY <1>5 DEF processDeath, PathInv, CountsInv
    <3>3. counts'.kills # 0
      BY <3>2
    <3>4. Only(ConnectionProfile, SecretFields) = NoSecrets
      BY DefaultSecrets DEF Only, NoSecrets
    <3> QED BY <3>1, <3>3, <3>4, DefaultIsProfile DEF ServiceInv, Shape, Requested
  <2> QED BY <2>1, <2>2
<1>6. CASE toggleConnection
  <2>1. CASE service # None
    BY <1>3, <1>6, <2>1 DEF toggleConnection
  <2>2. CASE service = None
    BY <1>3, <1>6, <2>2 DEF toggleConnection
  <2> QED BY <2>1, <2>2
<1>7. CASE tileConnect
  BY <1>3, <1>7 DEF tileConnect
<1>8. CASE onCreate \/ onStop
  <2>1. counts'.kills = counts.kills
    BY <1>8 DEF onCreate, onStop, PathInv, CountsInv
  <2> QED BY <1>2, <1>8, <2>1 DEF onCreate, onStop
<1>9. ASSUME NEW e \in Edits, onProfileChange(e) PROVE ServiceInv'
  <2>1. counts'.kills = counts.kills
    BY <1>9 DEF onProfileChange, PathInv, CountsInv
  <2> QED BY <1>2, <1>9, <2>1 DEF onProfileChange
<1>10. CASE Load \/ collect \/ onRestart \/ onDestroy \/ vpnPermissionResult
  BY <1>2, <1>10 DEF Load, collect, onRestart, onDestroy, vpnPermissionResult
<1>11. ASSUME NEW w \in Writers, callEdit(w) \/ savePrefs(w) \/ saveSecrets(w) PROVE ServiceInv'
  BY <1>2, <1>11 DEF callEdit, savePrefs, saveSecrets
<1>12. CASE UNCHANGED pathVars
  BY <1>2, <1>12 DEF pathVars
<1> QED BY <1>4, <1>5, <1>6, <1>7, <1>8, <1>9, <1>10, <1>11, <1>12 DEF PathNext

LEMMA EditStep ==
    ASSUME PathInv, [PathNext]_pathVars
    PROVE  EditInv'
<1> USE DEF screen, ghosts
<1>1. /\ EditInv /\ counts.creates \in Nat /\ counts.kills \in Nat
      /\ activity = "gone" => uiProfile = None
  BY DEF PathInv, CountsInv, ScreenInv
<1>2. ASSUME activity' = activity, uiProfile' = uiProfile, edited' = edited, wanted' = wanted,
             counts'.creates = counts.creates, counts'.kills = counts.kills
      PROVE  EditInv'
  BY <1>1, <1>2 DEF EditInv
<1>3. CASE onCreate
  <2>1. /\ counts'.creates = counts.creates + 1 /\ uiProfile' = None /\ edited' = edited
        /\ counts'.kills = counts.kills
    BY <1>3 DEF onCreate, PathInv, CountsInv
  <2>2. counts'.creates # 0 /\ (counts'.creates = 1 => counts.creates = 0)
    BY <1>1, <2>1
  <2> QED BY <1>1, <2>1, <2>2 DEF EditInv
<1>4. CASE Load
  <2>1. /\ activity # "gone" /\ activity' = activity /\ counts' = counts /\ edited' = edited /\ wanted' = wanted
        /\ uiProfile' = IF uiProfile = None THEN Stored ELSE uiProfile
    BY <1>4 DEF Load
  <2>2. Stored # None
    BY ShownIsProfile, ProfileFacts
  <2>3. CASE uiProfile = None
    BY <1>1, <2>1, <2>2, <2>3 DEF EditInv
  <2>4. CASE uiProfile # None
    BY <1>2, <2>1, <2>4
  <2> QED BY <2>3, <2>4
<1>5. ASSUME NEW e \in Edits, onProfileChange(e) PROVE EditInv'
  <2>1. /\ DOMAIN e \subseteq Fields /\ (\A f \in DOMAIN e : e[f] \in Setting(f))
        /\ "backend" \in DOMAIN e => e["backend"] \in Backends
    BY EditsAssumption
  <2> PICK p : p = IF uiProfile = None THEN ConnectionProfile ELSE uiProfile
    OBVIOUS
  <2>2. IsProfile(p) /\ IsProfile(wanted)
    BY DefaultIsProfile DEF Shape, PathInv, ScreenInv
  <2>3. /\ uiProfile' = Over(e, p) /\ wanted' = Over(e, wanted) /\ edited' = edited \cup DOMAIN e
        /\ activity = "started" /\ activity' = activity
        /\ counts'.creates = counts.creates /\ counts'.kills = counts.kills
    BY <1>5 DEF onProfileChange, PathInv, CountsInv
  <2>4. uiProfile' # None
    BY <2>1, <2>2, <2>3, OverIsProfile, ProfileFacts
  <2>5. DOMAIN p = Fields /\ DOMAIN wanted = Fields /\ edited \subseteq Fields
    BY <2>2, ProfileFacts DEF PathInv, ScreenInv
  <2>6. /\ \A f \in Fields : uiProfile'[f] = IF f \in DOMAIN e THEN e[f] ELSE p[f]
        /\ \A f \in Fields : wanted'[f] = IF f \in DOMAIN e THEN e[f] ELSE wanted[f]
    BY <2>3, <2>5 DEF Over
  <2>7. ASSUME counts.creates = 1, counts.kills = 0, NEW f \in edited \cup DOMAIN e
        PROVE  uiProfile'[f] = wanted'[f]
    <3>1. CASE f \in DOMAIN e
      BY <2>1, <2>6, <3>1
    <3>2. CASE f \notin DOMAIN e
      <4>1. f \in edited /\ f \in Fields /\ uiProfile # None
        BY <1>1, <2>3, <2>5, <2>7, <3>2 DEF EditInv
      <4>2. p[f] = wanted[f]
        BY <1>1, <2>7, <4>1 DEF EditInv
      <4> QED BY <2>6, <3>2, <4>1, <4>2
    <3> QED BY <3>1, <3>2
  <2>8. counts.creates # 0
    BY <1>1, <2>3 DEF EditInv
  <2> QED BY <2>3, <2>4, <2>7, <2>8 DEF EditInv
<1>6. CASE onStop
  <2>1. /\ activity = "started" /\ activity' = "stopped" /\ uiProfile' = uiProfile /\ edited' = edited
        /\ wanted' = wanted /\ counts'.creates = counts.creates /\ counts'.kills = counts.kills
    BY <1>6 DEF onStop, PathInv, CountsInv
  <2> QED BY <1>1, <2>1 DEF EditInv
<1>7. CASE onRestart
  BY <1>1, <1>7 DEF onRestart, EditInv
<1>8. CASE onDestroy
  BY <1>1, <1>8 DEF onDestroy, EditInv
<1>9. CASE processDeath
  <2>1. /\ counts'.kills = counts.kills + 1 /\ counts'.creates = counts.creates
        /\ activity' = "gone" /\ edited' = edited /\ uiProfile' = None
    BY <1>9 DEF processDeath, PathInv, CountsInv
  <2> QED BY <1>1, <2>1 DEF EditInv
<1>10. CASE collect
  BY <1>2, <1>10 DEF collect
<1>11. ASSUME NEW w \in Writers, callEdit(w) \/ savePrefs(w) \/ saveSecrets(w) PROVE EditInv'
  BY <1>2, <1>11 DEF callEdit, savePrefs, saveSecrets
<1>12. CASE toggleConnection \/ vpnPermissionResult \/ tileConnect \/ onStartCommand
  BY <1>2, <1>12 DEF toggleConnection, vpnPermissionResult, tileConnect, onStartCommand
<1>13. CASE UNCHANGED pathVars
  BY <1>2, <1>13 DEF pathVars
<1> QED BY <1>3, <1>4, <1>5, <1>6, <1>7, <1>8, <1>9, <1>10, <1>11, <1>12, <1>13 DEF PathNext

LEMMA PathInvHolds == PathSpec => []PathInv
<1>1. ASSUME PathInv, [PathNext]_pathVars PROVE PathInv'
  <2>1. ScreenInv' /\ StoreInv' /\ CountsInv'
    BY <1>1, ScreenStep, StoreStep, CountsStep
  <2>2. SaveInv' /\ QueueInv' /\ RequestInv'
    BY <1>1, SaveStep, RequestStep
  <2>3. ServiceInv' /\ EditInv'
    BY <1>1, ServiceStep, EditStep
  <2> QED BY <2>1, <2>2, <2>3 DEF PathInv
<1> QED BY <1>1, InitPathInv, PTL DEF PathSpec

-----------------------------------------------------------------------------
(* From the settings that agree to the launches that agree.                *)

LEMMA FlagName ==
    ASSUME NEW c, NEW n, NEW v
    PROVE  \A f \in Flag(c, n, v) : f[1] = n
BY DEF Flag

LEMMA TextFlagName ==
    ASSUME NEW n, NEW v
    PROVE  \A f \in TextFlag(n, v) : f[1] = n
BY FlagName DEF TextFlag

LEMMA SecsFlagName ==
    ASSUME NEW n, NEW k, NEW lo, NEW hi
    PROVE  \A f \in SecsFlag(n, k, lo, hi) : f[1] = n
BY FlagName DEF SecsFlag

Unsent == TorNames \cup SecretNames

\* The two profiles agree on everything the intent carries.
Agree(s, t) == IsProfile(s) /\ IsProfile(t) /\ \A f \in CarriedFields : s[f] = t[f]

LEMMA AgreeFacts ==
    ASSUME NEW s, NEW t, Agree(s, t)
    PROVE  /\ s.backend = t.backend /\ s.protocol = t.protocol /\ s.scanMode = t.scanMode
           /\ s.ipVersion = t.ipVersion /\ s.quickReconnect = t.quickReconnect /\ s.noize = t.noize
           /\ s.endpointMode = t.endpointMode /\ s.manualPeer = t.manualPeer /\ s.manualRange = t.manualRange
           /\ s.fragment = t.fragment /\ s.ech = t.ech /\ s.keepalive = t.keepalive
           /\ s.team = t.team /\ s.teamAuth = t.teamAuth /\ s.gateway = t.gateway
           /\ s.routeBlock = t.routeBlock /\ s.routeDirect = t.routeDirect
           /\ s.fragmentSize = t.fragmentSize /\ s.fragmentDelay = t.fragmentDelay
           /\ s.tlsGroups = t.tlsGroups /\ s.validateSecs = t.validateSecs
           /\ s.reconnectSecs = t.reconnectSecs /\ s.noProfileRetry = t.noProfileRetry
           /\ s.dnsServers = t.dnsServers /\ s.accessClientId = t.accessClientId
           /\ s.accessEmail = t.accessEmail /\ s.coreLogLevel = t.coreLogLevel
           /\ s.fastEndpointOnly = t.fastEndpointOnly /\ s.masqueHttp2 = t.masqueHttp2
           /\ s.upstreamProxy = t.upstreamProxy /\ s.noDataCheck = t.noDataCheck
           /\ s.routeSniff = t.routeSniff /\ s.routeSniffMs = t.routeSniffMs
           /\ s.autoReprovision = t.autoReprovision /\ s.chainedStage = t.chainedStage
<1>1. {"backend", "protocol", "scanMode", "ipVersion", "quickReconnect", "noize", "endpointMode",
       "manualPeer", "manualRange", "fragment", "ech", "keepalive", "team", "teamAuth", "gateway",
       "routeBlock", "routeDirect", "fragmentSize", "fragmentDelay", "tlsGroups", "validateSecs",
       "reconnectSecs", "noProfileRetry", "dnsServers", "accessClientId", "accessEmail",
       "coreLogLevel", "fastEndpointOnly", "masqueHttp2", "upstreamProxy", "noDataCheck",
       "routeSniff", "routeSniffMs", "autoReprovision"} \subseteq CarriedFields
  BY DEF CarriedFields, StoredFields, SecretFields, TorFields, Fields, TextFields, OnByDefault,
         OffByDefault, Numbers, Enums
<1>2. s.chainedStage = t.chainedStage
  BY ProfileFacts DEF Agree
<1>3. \A f \in CarriedFields : s[f] = t[f]
  BY DEF Agree
<1> QED BY <1>1, <1>2, <1>3

LEMMA WarpArgsAgree ==
    ASSUME NEW s, NEW t, Agree(s, t)
    PROVE  WarpArgs(s) = WarpArgs(t)
<1>1. (hasManualPeer(s) <=> hasManualPeer(t)) /\ (hasTeam(s) <=> hasTeam(t))
  BY AgreeFacts DEF hasManualPeer, hasTeam
<1>2. ProtocolArgs(s) = ProtocolArgs(t)
  BY AgreeFacts DEF ProtocolArgs, effectiveProtocol
<1> QED BY <1>1, <1>2, AgreeFacts DEF WarpArgs, Flag

\* The flags of the Tor mode are those of the backend; the other Tor flags stay behind.
LEMMA TorArgsAgree ==
    ASSUME NEW s, NEW t, Agree(s, t)
    PROVE  Besides(TorArgs(s), Unsent) = Besides(TorArgs(t), Unsent)
<1> DEFINE modeArgs(p) == Flag(torMode(p.backend) = "CHAIN", "--tor", <<>>)
                          \cup Flag(torMode(p.backend) = "ONLY", "--tor-only", <<>>)
                          \cup Flag(torMode(p.backend) = "REVERSE", "--tor-reverse", <<>>)
                          \cup Flag(torMode(p.backend) \in {"CHAIN", "REVERSE"}, "--tor-bind", <<TOR_SOCKS_PORT>>)
           rest(p) == IF torMode(p.backend) \in {"ONLY", "REVERSE"}
                      THEN Flag(p.torBridges = "ALWAYS", "--tor-bridges", <<>>)
                           \cup Flag(p.torBridges = "OFF", "--no-tor-bridges", <<>>)
                           \cup TextFlag("--tor-bridge", p.torBridgeLines)
                      ELSE {}
<1>1. TorArgs(s) = modeArgs(s) \cup rest(s) /\ TorArgs(t) = modeArgs(t) \cup rest(t)
  BY DEF TorArgs
<1>2. modeArgs(s) = modeArgs(t)
  BY AgreeFacts
<1>3. ASSUME NEW p, NEW f \in rest(p) PROVE f[1] \in Unsent
  BY FlagName, TextFlagName DEF Unsent, TorNames
<1> HIDE DEF modeArgs, rest
<1>4. \A f \in rest(s) \cup rest(t) : f[1] \in Unsent
  BY <1>3
<1> PICK A, B, C : A = modeArgs(s) /\ B = rest(s) /\ C = rest(t)
  OBVIOUS
<1>5. TorArgs(s) = A \cup B /\ TorArgs(t) = A \cup C /\ \A f \in B \cup C : f[1] \in Unsent
  BY <1>1, <1>2, <1>4
<1> QED BY <1>5 DEF Besides

LEMMA TorEnvAgree ==
    ASSUME NEW s, NEW t, Agree(s, t)
    PROVE  Besides(TorEnv(s), Unsent) = Besides(TorEnv(t), Unsent)
<1> DEFINE log(p) == Flag(p.coreLogLevel = "DEBUG", "AETHER_TOR_LOG", <<"debug">>)
           rest(p) == TextFlag("AETHER_TOR_CHECK", p.torCheck)
                      \cup IF torMode(p.backend) # "CHAIN"
                           THEN TextFlag("AETHER_TOR_COUNTRY", p.torCountry)
                                \cup SecsFlag("AETHER_TOR_DIRECT_SECS", p.torDirectSecs, 5, 600)
                           ELSE {}
<1>1. s.backend = t.backend /\ log(s) = log(t)
  BY AgreeFacts
<1>2. ASSUME NEW p, NEW f \in rest(p) PROVE f[1] \in Unsent
  BY TextFlagName, SecsFlagName DEF Unsent, TorNames
<1>3. CASE ~usesTor(s.backend)
  BY <1>1, <1>3 DEF TorEnv
<1>4. CASE usesTor(s.backend)
  <2>1. TorEnv(s) = log(s) \cup rest(s) /\ TorEnv(t) = log(t) \cup rest(t)
    BY <1>1, <1>4 DEF TorEnv
  <2> HIDE DEF log, rest
  <2>2. \A f \in rest(s) \cup rest(t) : f[1] \in Unsent
    BY <1>2
  <2> PICK A, B, C : A = log(s) /\ B = rest(s) /\ C = rest(t)
    OBVIOUS
  <2>3. TorEnv(s) = A \cup B /\ TorEnv(t) = A \cup C /\ \A f \in B \cup C : f[1] \in Unsent
    BY <1>1, <2>1, <2>2
  <2> QED BY <2>3 DEF Besides
<1> QED BY <1>3, <1>4

LEMMA TeamEnvAgree ==
    ASSUME NEW s, NEW t, Agree(s, t)
    PROVE  Besides(TeamEnv(s), Unsent) = Besides(TeamEnv(t), Unsent)
<1>1. (hasTeam(s) <=> hasTeam(t)) /\ s.teamAuth = t.teamAuth
  BY AgreeFacts DEF hasTeam
<1>2. s.teamAuth \in {"OFF", "SERVICE_TOKEN", "EMAIL", "TOKEN"} /\ (s.teamAuth = "OFF" => ~hasTeam(s))
  BY ProfileFacts DEF Agree, hasTeam
<1>3. CASE ~hasTeam(s)
  BY <1>1, <1>3 DEF TeamEnv
<1>4. CASE hasTeam(s) /\ s.teamAuth = "SERVICE_TOKEN"
  <2> DEFINE id(p) == Flag(p.accessClientId # Blank, "AETHER_ACCESS_CLIENT_ID", p.accessClientId)
             rest(p) == Flag(p.accessClientSecret # Blank, "AETHER_ACCESS_CLIENT_SECRET", p.accessClientSecret)
  <2>1. TeamEnv(s) = id(s) \cup rest(s) /\ TeamEnv(t) = id(t) \cup rest(t)
    BY <1>1, <1>4 DEF TeamEnv
  <2>2. id(s) = id(t)
    BY AgreeFacts
  <2>3. ASSUME NEW p, NEW f \in rest(p) PROVE f[1] \in Unsent
    BY FlagName DEF Unsent, SecretNames
  <2> HIDE DEF id, rest
  <2>4. \A f \in rest(s) \cup rest(t) : f[1] \in Unsent
    BY <2>3
  <2> PICK A, B, C : A = id(s) /\ B = rest(s) /\ C = rest(t)
    OBVIOUS
  <2>5. TeamEnv(s) = A \cup B /\ TeamEnv(t) = A \cup C /\ \A f \in B \cup C : f[1] \in Unsent
    BY <2>1, <2>2, <2>4
  <2> QED BY <2>5 DEF Besides
<1>5. CASE hasTeam(s) /\ s.teamAuth = "EMAIL"
  <2>1. TeamEnv(s) = TeamEnv(t)
    BY <1>1, <1>5, AgreeFacts DEF TeamEnv
  <2> QED BY <2>1
<1>6. CASE hasTeam(s) /\ s.teamAuth = "TOKEN"
  <2> DEFINE rest(p) == Flag(p.accessToken # Blank, "AETHER_ACCESS_TOKEN", p.accessToken)
  <2>1. TeamEnv(s) = rest(s) /\ TeamEnv(t) = rest(t)
    BY <1>1, <1>6 DEF TeamEnv
  <2>2. ASSUME NEW p, NEW f \in rest(p) PROVE f[1] \in Unsent
    BY FlagName DEF Unsent, SecretNames
  <2> HIDE DEF rest
  <2>3. \A f \in rest(s) \cup rest(t) : f[1] \in Unsent
    BY <2>2
  <2> PICK B, C : B = rest(s) /\ C = rest(t)
    OBVIOUS
  <2>4. TeamEnv(s) = B /\ TeamEnv(t) = C /\ \A f \in B \cup C : f[1] \in Unsent
    BY <2>1, <2>3
  <2> QED BY <2>4 DEF Besides
<1> QED BY <1>2, <1>3, <1>4, <1>5, <1>6

LEMMA ToEnvAgree ==
    ASSUME NEW s, NEW t, Agree(s, t)
    PROVE  Besides(toEnv(s), Unsent) = Besides(toEnv(t), Unsent)
<1> DEFINE h2(p) == \/ p.masqueHttp2
                    \/ sanitizedUpstream(p) = <<HttpProxy>>
                    \/ torMode(p.backend) = "REVERSE"
           transport(p) == Flag(TRUE, "AETHER_MASQUE_HTTP2", <<IF h2(p) THEN 1 ELSE 0>>)
                           \cup Flag(p.endpointMode = "MANUAL_RANGE" /\ p.manualRange # Blank,
                                     "AETHER_SCAN_CIDRS", p.manualRange)
           tuning(p) == Flag(p.noDataCheck, "AETHER_MASQUE_NO_DATA_CHECK", <<1>>)
                        \cup SecsFlag("AETHER_MASQUE_VALIDATE_SECS", p.validateSecs, 1, 3600)
                        \cup SecsFlag("AETHER_MASQUE_RECONNECT_SECS", p.reconnectSecs, 1, 600)
                        \cup Flag(p.noProfileRetry, "AETHER_WG_NO_PROFILE_RETRY", <<1>>)
                        \cup TextFlag("AETHER_TLS_GROUPS", p.tlsGroups)
                        \cup Flag(p.coreLogLevel # "WARN", "AETHER_LOG_LEVEL", <<p.coreLogLevel>>)
                        \cup Flag(~p.routeSniff, "AETHER_ROUTE_SNIFF", <<0>>)
                        \cup SecsFlag("AETHER_ROUTE_SNIFF_MS", IF p.routeSniff THEN p.routeSniffMs ELSE 0, 50, 5000)
                        \cup Flag(~p.autoReprovision, "AETHER_REPROVISION", <<0>>)
                        \cup TextFlag("AETHER_UPSTREAM", p.upstreamProxy)
<1>1. transport(s) = transport(t)
  <2>1. h2(s) <=> h2(t)
    BY AgreeFacts DEF sanitizedUpstream
  <2>2. s.endpointMode = t.endpointMode /\ s.manualRange = t.manualRange
    BY AgreeFacts
  <2> HIDE DEF h2
  <2>3. (IF h2(s) THEN 1 ELSE 0) = (IF h2(t) THEN 1 ELSE 0)
    BY <2>1
  <2> QED BY <2>2, <2>3
<1>2. tuning(s) = tuning(t)
  BY AgreeFacts DEF Flag
<1>3. BudgetEnv(s) = BudgetEnv(t)
  BY AgreeFacts DEF BudgetEnv, Flag
<1>4. ASSUME NEW p
      PROVE  toEnv(p) = ((((transport(p) \cup TeamEnv(p)) \cup TorEnv(p)) \cup BudgetEnv(p)) \cup tuning(p))
  BY DEF toEnv
<1> HIDE DEF transport, tuning
<1>5. PICK A, C, D : A = transport(s) /\ C = BudgetEnv(s) /\ D = tuning(s)
  OBVIOUS
<1>6. /\ toEnv(s) = ((((A \cup TeamEnv(s)) \cup TorEnv(s)) \cup C) \cup D)
      /\ toEnv(t) = ((((A \cup TeamEnv(t)) \cup TorEnv(t)) \cup C) \cup D)
  BY <1>1, <1>2, <1>3, <1>4, <1>5
<1>7. PICK B1, B2, E1, E2 : B1 = TeamEnv(s) /\ B2 = TeamEnv(t) /\ E1 = TorEnv(s) /\ E2 = TorEnv(t)
  OBVIOUS
<1>8. Besides(B1, Unsent) = Besides(B2, Unsent) /\ Besides(E1, Unsent) = Besides(E2, Unsent)
  BY <1>7, TeamEnvAgree, TorEnvAgree
<1>9. \A f : f[1] \notin Unsent => (f \in B1 <=> f \in B2) /\ (f \in E1 <=> f \in E2)
  BY <1>8 DEF Besides
<1> QED BY <1>6, <1>7, <1>9 DEF Besides

LEMMA LaunchAgrees ==
    ASSUME NEW s, NEW t, Agree(s, t)
    PROVE  Besides(Launch(s), Unsent) = Besides(Launch(t), Unsent)
<1> DEFINE warp(p) == TextFlag("--dns", p.dnsServers) \cup IF usesWarp(p.backend) THEN WarpArgs(p) ELSE {}
<1>1. warp(s) = warp(t)
  BY AgreeFacts, WarpArgsAgree
<1>2. ASSUME NEW p PROVE Launch(p) = (TorArgs(p) \cup warp(p)) \cup toEnv(p)
  BY DEF Launch, toArgs
<1> HIDE DEF warp
<1>3. PICK A : A = warp(s)
  OBVIOUS
<1>4. Launch(s) = (TorArgs(s) \cup A) \cup toEnv(s) /\ Launch(t) = (TorArgs(t) \cup A) \cup toEnv(t)
  BY <1>1, <1>2, <1>3
<1>5. PICK B1, B2, E1, E2 : B1 = TorArgs(s) /\ B2 = TorArgs(t) /\ E1 = toEnv(s) /\ E2 = toEnv(t)
  OBVIOUS
<1>6. Besides(B1, Unsent) = Besides(B2, Unsent) /\ Besides(E1, Unsent) = Besides(E2, Unsent)
  BY <1>5, TorArgsAgree, ToEnvAgree
<1>7. \A f : f[1] \notin Unsent => (f \in B1 <=> f \in B2) /\ (f \in E1 <=> f \in E2)
  BY <1>6 DEF Besides
<1> QED BY <1>4, <1>5, <1>7 DEF Besides

-----------------------------------------------------------------------------
(* What the path guarantees.                                               *)

LEMMA ServiceAgrees ==
    ASSUME PathInv, Requested, OneLine(tapped)
    PROVE  Agree(service, tapped)
BY DEF PathInv, RequestInv, ServiceInv, Requested, Shape, Agree

\* Type correctness of MainActivity's screen and saves, the two stores, the DataStore's queue
\* and the intent: every profile has every setting with a value of its type, and the queue
\* holds each waiting save once.
THEOREM PathTypeCorrect == PathSpec => []PathTypeOK
<1>1. ASSUME PathInv PROVE PathTypeOK
  <2>1. /\ activity \in {"gone", "started", "stopped"}
        /\ \A p \in {uiProfile, pending, pendingProfile, service} \ {None} : IsProfile(p)
        /\ IsProfile(wanted) /\ edited \subseteq Fields /\ IsProfile(tapped)
    BY <1>1 DEF PathInv, ScreenInv, RequestInv, ServiceInv, Shape
  <2>2. \A w \in Writers : saves[w] # None => IsProfile(saves[w].snapshot) /\ saves[w].step \in Steps
    BY <1>1 DEF PathInv, SaveInv, IsSave
  <2>3. DOMAIN queue = 1 .. Len(queue) /\ \A i \in 1 .. Len(queue) : queue[i] \in Writers
    BY <1>1 DEF PathInv, QueueInv, IsQueue
  <2>4. IsInjective(queue)
    BY <1>1, <2>3 DEF PathInv, QueueInv, IsQueue, IsInjective
  <2>5. ToSet(queue) = {w \in Writers : saves[w] # None /\ saves[w].step = "prefs"}
    BY <1>1, <2>3 DEF PathInv, QueueInv, Waits, ToSet
  <2>6. IsProfile(Stored) /\ DOMAIN prefs = StoredFields /\ DOMAIN secrets = SecretFields
    BY <1>1, StoredIsProfile DEF PathInv, StoreInv, IsPrefs, IsSecrets
  <2>7. intent # None => DOMAIN intent = CarriedFields
    BY <1>1, EncodeFacts DEF PathInv, RequestInv
  <2> QED BY <2>1, <2>2, <2>4, <2>5, <2>6, <2>7 DEF PathTypeOK
<1> QED BY <1>1, PathInvHolds, PTL

\* Whatever the user edits, however saves, stops, recreations and the consent dialog
\* interleave and whether or not the Keystore fails, AetherVpnService launches the engine
\* with the command line and environment of the profile MainActivity or the tile connected
\* with, secrets and Tor settings aside.
THEOREM SettingsArriveHolds == PathSpec => []SettingsArrive
<1>1. ASSUME PathInv PROVE SettingsArrive
  BY <1>1, ServiceAgrees, LaunchAgrees DEF SettingsArrive, Unsent
<1> QED BY <1>1, PathInvHolds, PTL

\* MainActivity never replaces on the screen what the user has set in it: the initial load's
\* compareAndSet(null, ...) loses against an edit, in every order of the two.
THEOREM EditsStayOnScreenHolds == PathSpec => []EditsStayOnScreen
<1>1. ASSUME PathInv PROVE EditsStayOnScreen
  BY <1>1 DEF PathInv, EditInv, EditsStayOnScreen, Only
<1> QED BY <1>1, PathInvHolds, PTL

\* hydrateSecrets never hands a secret of the sealed store to a session without a team, a
\* restart of the service by the system included.
THEOREM SecretsOnlyForTeamHolds == PathSpec => []SecretsOnlyForTeam
<1>1. ASSUME PathInv PROVE SecretsOnlyForTeam
  BY <1>1 DEF PathInv, ServiceInv, SecretsOnlyForTeam
<1> QED BY <1>1, PathInvHolds, PTL

-----------------------------------------------------------------------------
(* From the screen to the engine: the path and the plan together.          *)

\* Every profile the service runs is one ConnectPlan can be asked for: what its constant
\* Profiles is assumed to hold is what ProfileCodec.decode and hydrateSecrets produce.
ServiceWellFormed == service # None => WellFormed(service)

LEMMA ProfileIsWellFormed ==
    ASSUME NEW p, IsProfile(p)
    PROVE  WellFormed(p)
<1>1. p = [f \in Fields |-> p[f]] /\ p.backend \in Backends /\ p.teamAuth \in {"OFF", "SERVICE_TOKEN", "EMAIL", "TOKEN"}
  BY ProfileFacts
<1>2. {"protocol", "scanMode", "endpointMode", "noize"} \subseteq DOMAIN Enums /\ DOMAIN Enums \subseteq Fields
  BY DEF Enums, Fields
<1>3. \A f \in DOMAIN Enums : p[f] \in EnumValues[f]
  <2>1. \A f \in Fields : p[f] \in Setting(f)
    BY DEF IsProfile
  <2>2. \A f \in DOMAIN Enums : Setting(f) = EnumValues[f]
    BY SettingFacts
  <2> QED BY <1>2, <2>1, <2>2
<1>4. /\ EnumValues["protocol"] = Protocols /\ EnumValues["scanMode"] = ScanModes
      /\ EnumValues["endpointMode"] = EndpointModes /\ EnumValues["noize"] = Levels
  BY DEF EnumValues, Levels
<1>5. /\ p.protocol \in Protocols /\ p.scanMode \in ScanModes
      /\ p.endpointMode \in EndpointModes /\ p.noize \in Levels
  BY <1>2, <1>3, <1>4
<1>6. Covers \subseteq OffByDefault \ {"chainedStage"} /\ OffByDefault \subseteq Fields
  BY DEF Covers, OffByDefault, Fields
<1>7. \A f \in Covers : p[f] \in BOOLEAN
  BY <1>6, ProfileFacts, SettingFacts
<1>8. p.masqueHttp2 \in BOOLEAN /\ p.fragment \in BOOLEAN /\ p.ech \in BOOLEAN
  BY <1>7 DEF Covers
<1> QED BY <1>1, <1>5, <1>8, IsWellFormed

\* Whatever is stored, edited, carried and decoded, the profile of AetherVpnService has the
\* form the plans of ConnectPlan take for granted (ProfilesAssumption).
THEOREM ServiceIsWellFormed == PathSpec => []ServiceWellFormed
<1>1. ASSUME PathInv PROVE ServiceWellFormed
  BY <1>1, ProfileIsWellFormed DEF PathInv, ServiceInv, Shape, ServiceWellFormed
<1> QED BY <1>1, PathInvHolds, PTL

\* What AskedIsKept says of the profile of a session, said of the profile on the screen.
TappedIsKept ==
    /\ tapped.protocol # "AUTO" /\ torMode(tapped.backend) \notin {"REVERSE", "ONLY"}
           => Names(launch.args) \cap ProtocolFlags = {ProtocolFlag[tapped.protocol]}
    /\ Names(launch.args) \cap TorFlags = Names(TorArgs(tapped)) \cap TorFlags
    /\ tapped.endpointMode # "AUTO" /\ usesWarp(tapped.backend) =>
           /\ hasManualPeer(tapped) => <<"--peer", tapped.manualPeer>> \in launch.args
           /\ {f \in launch.env : f[1] = "AETHER_SCAN_CIDRS"}
                  = {f \in toEnv(tapped) : f[1] = "AETHER_SCAN_CIDRS"}
    /\ ordinal(launch.profile.noize) >= ordinal(tapped.noize)
    /\ tapped.masqueHttp2 => launch.profile.masqueHttp2
    /\ tapped.fragment => launch.profile.fragment
    /\ tapped.ech => launch.profile.ech

ScreenToEngine == asked = service /\ Requested /\ OneLine(tapped) /\ Launching => TappedIsKept

LEMMA KeptForTapped ==
    ASSUME AskedIsKept, Launching, Agree(asked, tapped)
    PROVE  TappedIsKept
<1>1. /\ asked.backend = tapped.backend /\ asked.protocol = tapped.protocol /\ asked.noize = tapped.noize
      /\ asked.endpointMode = tapped.endpointMode /\ asked.manualPeer = tapped.manualPeer
      /\ asked.masqueHttp2 = tapped.masqueHttp2 /\ asked.fragment = tapped.fragment /\ asked.ech = tapped.ech
  BY AgreeFacts
<1>2. tapped.protocol # "AUTO" /\ torMode(tapped.backend) \notin {"REVERSE", "ONLY"}
          => Names(launch.args) \cap ProtocolFlags = {ProtocolFlag[tapped.protocol]}
  BY <1>1 DEF AskedIsKept, ProtocolNeverSwapped
<1>3. Names(launch.args) \cap TorFlags = Names(TorArgs(tapped)) \cap TorFlags
  <2>1. Names(launch.args) \cap TorFlags = Names(TorArgs(asked)) \cap TorFlags
    BY DEF AskedIsKept, TorSurvivesStaging, TorFlags
  <2>2. PICK A, B : A = TorArgs(asked) /\ B = TorArgs(tapped)
    OBVIOUS
  <2>3. Besides(A, Unsent) = Besides(B, Unsent)
    BY <2>2, TorArgsAgree
  <2>4. \A f : f[1] \notin Unsent => (f \in A <=> f \in B)
    BY <2>3 DEF Besides
  <2>5. TorFlags \cap Unsent = {}
    BY DEF TorFlags, Unsent, TorNames, SecretNames
  <2>6. Names(A) \cap TorFlags = Names(B) \cap TorFlags
    BY <2>4, <2>5 DEF Names
  <2> QED BY <2>1, <2>2, <2>6
<1>4. ASSUME tapped.endpointMode # "AUTO", usesWarp(tapped.backend)
      PROVE  /\ hasManualPeer(tapped) => <<"--peer", tapped.manualPeer>> \in launch.args
             /\ {f \in launch.env : f[1] = "AETHER_SCAN_CIDRS"}
                    = {f \in toEnv(tapped) : f[1] = "AETHER_SCAN_CIDRS"}
  <2>1. hasManualPeer(tapped) <=> hasManualPeer(asked)
    BY <1>1 DEF hasManualPeer
  <2>2. /\ hasManualPeer(asked) => <<"--peer", asked.manualPeer>> \in launch.args
        /\ {f \in launch.env : f[1] = "AETHER_SCAN_CIDRS"}
               = {f \in toEnv(asked) : f[1] = "AETHER_SCAN_CIDRS"}
    BY <1>1, <1>4 DEF AskedIsKept, PinnedEndpointKept
  <2>3. PICK A, B : A = toEnv(asked) /\ B = toEnv(tapped)
    OBVIOUS
  <2>4. Besides(A, Unsent) = Besides(B, Unsent)
    BY <2>3, ToEnvAgree
  <2>5. \A f : f[1] \notin Unsent => (f \in A <=> f \in B)
    BY <2>4 DEF Besides
  <2>6. "AETHER_SCAN_CIDRS" \notin Unsent
    BY DEF Unsent, TorNames, SecretNames
  <2>7. {f \in A : f[1] = "AETHER_SCAN_CIDRS"} = {f \in B : f[1] = "AETHER_SCAN_CIDRS"}
    BY <2>5, <2>6
  <2>8. {f \in toEnv(asked) : f[1] = "AETHER_SCAN_CIDRS"} = {f \in toEnv(tapped) : f[1] = "AETHER_SCAN_CIDRS"}
    BY <2>3, <2>7
  <2> QED BY <1>1, <2>1, <2>2, <2>8
<1>5. ordinal(launch.profile.noize) >= ordinal(tapped.noize)
  BY <1>1 DEF AskedIsKept, NeverWeakerThanAsked
<1>6. /\ tapped.masqueHttp2 => launch.profile.masqueHttp2
      /\ tapped.fragment => launch.profile.fragment
      /\ tapped.ech => launch.profile.ech
  BY <1>1 DEF AskedIsKept, NeverWeakerThanAsked
<1> QED BY <1>2, <1>3, <1>4, <1>5, <1>6 DEF TappedIsKept

\* From MainActivity's connect button to the engine process: when the session that plans and
\* launches is the one onStartCommand started, every rung, stage and restart keeps the
\* protocol, the Tor mode, the pinned endpoint and at least the cover the screen showed.
THEOREM ScreenToEngineHolds == PathSpec /\ Spec => []ScreenToEngine
<1>1. ASSUME PathInv, AskedIsKept PROVE ScreenToEngine
  BY <1>1, ServiceAgrees, KeptForTapped DEF ScreenToEngine
<1> QED BY <1>1, PathInvHolds, AskedIsKeptHolds, PTL
=============================================================================
