----------------------- MODULE EngineSupervisorProofs -----------------------
(***************************************************************************)
(* Machine-checked proofs about EngineSupervisor, for every set of         *)
(* endpoints, every set of environments the process may be started with,   *)
(* every cap of the ring and every length of a cooldown.                   *)
(***************************************************************************)
EXTENDS EngineSupervisor, SequenceTheorems, WellFoundedInduction, TLAPS

-----------------------------------------------------------------------------
(* The inductive invariant, part by part.                                  *)

\* The last-connection file: TypeOK's part about it, as one set.
Files == [peer: Maybe, carrier: Carriers, recent: Seq(Endpoints)]

\* Everything of TypeOK that a tunnel and its loop are made of.
LoopType ==
    /\ set \in Configs
    /\ pc \in {"boot", "head", "pick", "save", "dial", "inner", "settle", "bind", "serve"}
    /\ quick \in Maybe /\ outer \in Maybe /\ inner \in Maybe
    /\ fails \in 0 .. MaxConsecutiveFails
    /\ cooldown \in [Endpoints -> 0 .. CooldownRounds]
    /\ hops \in Maybe \X Maybe
    /\ kind \in [Endpoints -> Kinds]
    /\ shifts \in 0 .. MaxShifts /\ starts \in 1 .. MaxStarts
    /\ ended \in [Endpoints -> 0 .. MaxConsecutiveFails]

\* What was verified ahead of the loop is used in its first round or never, and
\* only a single-hop loop without an endpoint given by hand has it.
QuickInv ==
    quick # None => /\ pc \in {"head", "pick"} /\ fails = 0 /\ Held = {}
                    /\ ~Nested(Proto) /\ set.outer = None

\* The loop's own account: nothing before the loop, a full count only at its
\* head, and a tunnel is dialled on the endpoint in use.
LoopInv ==
    /\ pc = "boot" => outer = None /\ inner = None /\ fails = 0 /\ Held = {}
    /\ fails >= MaxConsecutiveFails => pc = "head"
    /\ Proto = "masque" => fails = 0
    /\ Dialling => outer # None /\ hops[1] = outer
    /\ pc = "save" => ~Nested(Proto)
    /\ pc = "inner" => Nested(Proto)

\* Endpoints given by hand: the pins of a nested tunnel are in use from the
\* first round on, the forced peer of a single hop once it was dialled.
PinInv ==
    pc # "boot" =>
        /\ set.outer # None => outer = set.outer \/ (outer = None /\ ~Nested(Proto))
        /\ Nested(Proto) /\ set.inner # None => inner = set.inner

\* The second hop of a nested tunnel that is being dialled.
HopInv ==
    /\ Dialling /\ Nested(Proto) /\ set.inner # None => hops[2] = set.inner
    /\ Dialling /\ Proto = "gool" => hops[2] # None
    /\ pc = "inner" /\ Proto = "gool" => Ip[hops[1]] # Ip[hops[2]]
    /\ Nested(Proto) /\ pc \in {"settle", "bind", "serve"} =>
            hops[2] # None /\ Ip[hops[1]] # Ip[hops[2]]

\* What runs at each point of a tunnel's life.
Pumps == CASE Proto = "wg"     -> {}
           [] Proto = "masque" -> {"outer"}
           [] OTHER            -> {"outer", "inner", "forwarder"}

TaskInv ==
    /\ pc \in {"boot", "head", "pick", "save", "dial"} => tasks = {}
    /\ pc = "inner" => tasks = {"outer"}
    /\ pc \in {"settle", "bind"} => tasks = Pumps
    /\ pc = "serve" => tasks = Pumps \cup {"outer", "socks", "http"}

\* The account of run_wireguard: who is in use is not held, the counter is
\* about tunnels that ended in a row on it, and who is held ended two.
AccountInv ==
    Accounted => /\ outer \notin Held
                 /\ outer # None => ended[outer] >= fails
                 /\ \A e \in Held : ended[e] >= MaxConsecutiveFails

\* The last-connection file.
RingInv ==
    /\ file \in Files /\ RingSound
    /\ savedAs \in [Endpoints -> SUBSET {"wireguard", "masque"}]

IInv == /\ LoopType /\ QuickInv /\ LoopInv /\ PinInv /\ HopInv /\ TaskInv
        /\ AccountInv /\ RingInv

\* What a run reads of its environment.
LEMMA SettingsFacts ==
    ASSUME set \in Configs
    PROVE  /\ Proto \in Protocols
           /\ set.outer \in Maybe /\ set.inner \in Maybe /\ set.team \in Maybe
           /\ ~Nested(Proto) => set.inner = None
           /\ Nested(Proto) <=> Proto \in {"gool", "mim"}
BY ConfigsAssumption DEF Settings, Checked, Proto, Nested

LEMMA NoneFacts == None \notin Endpoints /\ None \in Maybe
BY EndpointsAssumption DEF Maybe

-----------------------------------------------------------------------------
(* The remembered ring.                                                    *)

\* RemoveFirst on a sequence that holds nobody twice.
LEMMA RemoveFirstFacts ==
    ASSUME NEW s \in Seq(Endpoints), IsInjective(s), NEW e
    PROVE  /\ RemoveFirst(s, e) \in Seq(Endpoints) /\ IsInjective(RemoveFirst(s, e))
           /\ \A i \in 1 .. Len(RemoveFirst(s, e)) :
                 /\ RemoveFirst(s, e)[i] # e
                 /\ \E j \in 1 .. Len(s) : RemoveFirst(s, e)[i] = s[j]
<1>1. CASE ~\E i \in 1 .. Len(s) : s[i] = e
  BY <1>1 DEF RemoveFirst
<1>2. CASE \E i \in 1 .. Len(s) : s[i] = e
  <2> PICK k \in 1 .. Len(s) : s[k] = e
    BY <1>2
  <2>1. {i \in 1 .. Len(s) : s[i] = e} = {k}
    BY DEF IsInjective
  <2>2. SelectInSeq(s, LAMBDA v : v = e) = k
    BY <2>1 DEF SelectInSeq, Min
  <2> DEFINE t == RemoveAt(s, k)
  <2>3. RemoveFirst(s, e) = t
    BY <1>2, <2>2 DEF RemoveFirst
  <2>4. /\ t \in Seq(Endpoints) /\ Len(t) = Len(s) - 1
        /\ \A i \in 1 .. Len(t) : t[i] = IF i < k THEN s[i] ELSE s[i + 1]
    <3> DEFINE a == SubSeq(s, 1, k - 1)
               b == SubSeq(s, k + 1, Len(s))
    <3>1. /\ a \in Seq(Endpoints) /\ Len(a) = k - 1
          /\ \A i \in 1 .. k - 1 : a[i] = s[i]
      OBVIOUS
    <3>2. /\ b \in Seq(Endpoints) /\ Len(b) = Len(s) - k
          /\ \A i \in 1 .. Len(s) - k : b[i] = s[k + i]
      OBVIOUS
    <3>3. t = a \o b
      BY DEF RemoveAt
    <3> HIDE DEF a, b, t
    <3>4. /\ t \in Seq(Endpoints) /\ Len(t) = Len(s) - 1
          /\ \A i \in 1 .. Len(t) : t[i] = IF i <= k - 1 THEN a[i] ELSE b[i - (k - 1)]
      BY <3>1, <3>2, <3>3
    <3>5. ASSUME NEW i \in 1 .. Len(t)
          PROVE  t[i] = IF i < k THEN s[i] ELSE s[i + 1]
      <4>1. CASE i < k
        BY <3>1, <3>4, <4>1
      <4>2. CASE i >= k
        <5>1. i - (k - 1) \in 1 .. Len(s) - k /\ k + (i - (k - 1)) = i + 1
          BY <3>4, <4>2
        <5> QED BY <3>2, <3>4, <4>2, <5>1
      <4> QED BY <4>1, <4>2
    <3> QED BY <3>4, <3>5
  <2>5. IsInjective(t) /\ \A i \in 1 .. Len(t) : t[i] # e
    <3> HIDE DEF t
    <3>1. DOMAIN t = 1 .. Len(t) /\ DOMAIN s = 1 .. Len(s)
      BY <2>4
    <3>2. \A i \in 1 .. Len(t) : i \in 1 .. Len(s) /\ i + 1 \in 1 .. Len(s)
      BY <2>4
    <3> DEFINE at(i) == IF i < k THEN i ELSE i + 1
    <3>3. \A i \in 1 .. Len(t) : at(i) \in 1 .. Len(s) /\ t[i] = s[at(i)] /\ at(i) # k
      BY <2>4, <3>2
    <3>4. \A i, j \in 1 .. Len(t) : at(i) = at(j) => i = j
      BY <2>4
    <3> HIDE DEF at
    <3>5. \A i, j \in 1 .. Len(s) : s[i] = s[j] => i = j
      BY <3>1 DEF IsInjective
    <3>6. \A i, j \in 1 .. Len(t) : t[i] = t[j] => i = j
      BY <3>3, <3>4, <3>5
    <3>7. \A i \in 1 .. Len(t) : t[i] # e
      BY <3>3, <3>5
    <3> QED BY <3>1, <3>6, <3>7 DEF IsInjective
  <2>6. \A i \in 1 .. Len(t) : \E j \in 1 .. Len(s) : t[i] = s[j]
    <3> SUFFICES ASSUME NEW i \in 1 .. Len(t) PROVE \E j \in 1 .. Len(s) : t[i] = s[j]
      OBVIOUS
    <3>1. i \in 1 .. Len(s) /\ i + 1 \in 1 .. Len(s)
      BY <2>4
    <3> QED BY <2>4, <3>1
  <2> QED BY <2>3, <2>4, <2>5, <2>6
<1> QED BY <1>1, <1>2

LEMMA InjectiveSeq ==
    ASSUME NEW s \in Seq(Endpoints)
    PROVE  IsInjective(s) <=> \A i, j \in 1 .. Len(s) : s[i] = s[j] => i = j
<1>1. DOMAIN s = 1 .. Len(s)
  OBVIOUS
<1> QED BY <1>1 DEF IsInjective

\* A new endpoint in front of a ring without it, cut to a length.
LEMMA FrontFacts ==
    ASSUME NEW s \in Seq(Endpoints), IsInjective(s), NEW e \in Endpoints,
           \A i \in 1 .. Len(s) : s[i] # e,
           NEW m \in 1 .. Len(s) + 1
    PROVE  /\ SubSeq(<<e>> \o s, 1, m) \in Seq(Endpoints)
           /\ IsInjective(SubSeq(<<e>> \o s, 1, m))
           /\ Len(SubSeq(<<e>> \o s, 1, m)) = m
           /\ SubSeq(<<e>> \o s, 1, m)[1] = e
           /\ \A i \in 2 .. m : i - 1 \in 1 .. Len(s) /\ SubSeq(<<e>> \o s, 1, m)[i] = s[i - 1]
<1> DEFINE ring == <<e>> \o s
           cut == SubSeq(ring, 1, m)
<1>1. /\ ring \in Seq(Endpoints) /\ Len(ring) = Len(s) + 1
      /\ \A i \in 1 .. Len(s) + 1 : ring[i] = IF i <= 1 THEN <<e>>[i] ELSE s[i - 1]
  <2>1. <<e>> \in Seq(Endpoints) /\ Len(<<e>>) = 1
    OBVIOUS
  <2> QED BY <2>1, ConcatProperties
<1> HIDE DEF ring
<1>2. ring[1] = e
  <2>1. 1 \in 1 .. Len(s) + 1 /\ <<e>>[1] = e
    OBVIOUS
  <2> QED BY <1>1, <2>1
<1>3. \A i \in 2 .. m : i - 1 \in 1 .. Len(s) /\ ring[i] = s[i - 1]
  BY <1>1
<1>4. /\ cut \in Seq(Endpoints) /\ Len(cut) = m
      /\ \A i \in 1 .. m : cut[i] = ring[i]
  BY <1>1
<1> HIDE DEF cut
<1>5. cut[1] = e /\ \A i \in 2 .. m : cut[i] = s[i - 1]
  <2>1. 1 \in 1 .. m /\ \A i \in 2 .. m : i \in 1 .. m
    OBVIOUS
  <2> QED BY <1>2, <1>3, <1>4, <2>1
<1>6. ASSUME NEW i \in 1 .. m, NEW j \in 1 .. m, cut[i] = cut[j] PROVE i = j
  <2>1. CASE i = 1 \/ j = 1
    BY <1>3, <1>5, <1>6, <2>1
  <2>2. CASE i # 1 /\ j # 1
    <3>1. i \in 2 .. m /\ j \in 2 .. m
      BY <2>2
    <3>2. i - 1 \in 1 .. Len(s) /\ j - 1 \in 1 .. Len(s) /\ s[i - 1] = s[j - 1]
      BY <1>3, <1>5, <1>6, <3>1
    <3>3. i - 1 = j - 1
      BY <3>2, InjectiveSeq
    <3> QED BY <3>3
  <2> QED BY <2>1, <2>2
<1>7. IsInjective(cut)
  BY <1>4, <1>6, InjectiveSeq
<1> QED BY <1>3, <1>4, <1>5, <1>7 DEF cut, ring

\* What lastconn::save leaves in the file is a ring r with the endpoint in front,
\* behind it entries of the ring before, if that was of the same carrier, within
\* the cap.
NewRing(f, e, c, r) ==
    /\ Saved(f, e, c) = [peer |-> e, carrier |-> c, recent |-> r]
    /\ IsInjective(r) /\ Len(r) \in 1 .. RecentCap /\ Head(r) = e
    /\ \A i \in 2 .. Len(r) : /\ f.carrier \in {"", c}
                              /\ \E j \in 1 .. Len(f.recent) : r[i] = f.recent[j]

LEMMA SavedFacts ==
    ASSUME NEW f \in Files, NEW e \in Endpoints, NEW c, IsInjective(f.recent)
    PROVE  \E r \in Seq(Endpoints) : NewRing(f, e, c, r)
<1> DEFINE same == f.peer # None /\ f.carrier \in {"", c}
           kept == IF same THEN RemoveFirst(f.recent, e) ELSE <<>>
           ring == <<e>> \o kept
           m == IF Len(ring) < RecentCap THEN Len(ring) ELSE RecentCap
           cut == SubSeq(ring, 1, m)
<1>1. f.recent \in Seq(Endpoints)
  BY DEF Files
<1>2. /\ kept \in Seq(Endpoints) /\ IsInjective(kept)
      /\ \A i \in 1 .. Len(kept) : kept[i] # e
      /\ \A i \in 1 .. Len(kept) : same /\ \E j \in 1 .. Len(f.recent) : kept[i] = f.recent[j]
  <2>1. CASE same
    <3> DEFINE t == RemoveFirst(f.recent, e)
    <3>1. /\ t \in Seq(Endpoints) /\ IsInjective(t)
          /\ \A i \in 1 .. Len(t) : t[i] # e /\ \E j \in 1 .. Len(f.recent) : t[i] = f.recent[j]
      BY <1>1, RemoveFirstFacts
    <3>2. kept = t
      BY <2>1
    <3> HIDE DEF kept, t
    <3> QED BY <2>1, <3>1, <3>2
  <2>2. CASE ~same
    <3>1. kept = <<>>
      BY <2>2
    <3> HIDE DEF kept
    <3>2. kept \in Seq(Endpoints) /\ Len(kept) = 0
      BY <3>1
    <3>3. \A i \in 1 .. Len(kept) : FALSE
      BY <3>2
    <3>4. IsInjective(kept)
      BY <3>2, <3>3, InjectiveSeq
    <3> QED BY <3>2, <3>3, <3>4
  <2> QED BY <2>1, <2>2
<1> HIDE DEF kept
<1>3. Len(ring) = Len(kept) + 1 /\ Len(kept) \in Nat
  <2>1. <<e>> \in Seq(Endpoints) /\ Len(<<e>>) = 1
    OBVIOUS
  <2>2. kept \in Seq(Endpoints)
    BY <1>2
  <2>3. Len(ring) = Len(<<e>>) + Len(kept)
    BY <2>1, <2>2, ConcatProperties
  <2> QED BY <2>1, <2>2, <2>3
<1> HIDE DEF ring
<1>4. m \in 1 .. Len(kept) + 1 /\ m \in 1 .. RecentCap
  BY <1>3, BoundsAssumption
<1> HIDE DEF m
<1>5. /\ cut \in Seq(Endpoints) /\ IsInjective(cut) /\ Len(cut) = m /\ cut[1] = e
      /\ \A i \in 2 .. m : i - 1 \in 1 .. Len(kept) /\ cut[i] = kept[i - 1]
  BY <1>2, <1>4, FrontFacts DEF ring
<1> HIDE DEF cut
<1>6. ASSUME NEW i \in 2 .. m
      PROVE  same /\ \E j \in 1 .. Len(f.recent) : cut[i] = f.recent[j]
  BY <1>2, <1>5, <1>6
<1>7. Saved(f, e, c) = [peer |-> e, carrier |-> c, recent |-> cut]
  BY DEF Saved, cut, m, ring, kept
<1>8. same => f.carrier \in {"", c}
  OBVIOUS
<1> HIDE DEF same
<1>9. Head(cut) = e
  BY <1>4, <1>5
<1>10. \A i \in 2 .. Len(cut) :
         /\ f.carrier \in {"", c}
         /\ \E j \in 1 .. Len(f.recent) : cut[i] = f.recent[j]
  BY <1>5, <1>6, <1>8
<1> QED BY <1>4, <1>5, <1>7, <1>9, <1>10 DEF NewRing

\* A set of natural numbers that is not empty has a least one.
LEMMA MinFacts ==
    ASSUME NEW I \in SUBSET Nat, I # {}
    PROVE  Min(I) \in I
<1>1. \A x, y \in Nat : y < x => <<y, x>> \in OpToRel(<, Nat)
  BY DEF OpToRel
<1>2. \E x \in I : \A y \in I : ~(<<y, x>> \in OpToRel(<, Nat))
  BY NatLessThanWellFounded, WFMin, Zenon
<1>3. PICK x \in I : \A y \in I : ~(y < x)
  BY <1>1, <1>2, Zenon
<1>4. \A y \in I : x <= y
  BY <1>3
<1> QED BY <1>4 DEF Min

\* The endpoint verified ahead of the loop is one of the remembered ones.
LEMMA FirstAnsweringType ==
    ASSUME NEW s \in Seq(Endpoints)
    PROVE  FirstAnswering(s) \in Maybe
<1> DEFINE I == {i \in 1 .. Len(s) : Verifies(s[i])}
<1>1. SelectInSeq(s, Verifies) = IF I # {} THEN Min(I) ELSE 0
  BY DEF SelectInSeq
<1>2. I # {} => Min(I) \in 1 .. Len(s)
  <2>1. I \subseteq Nat /\ I \subseteq 1 .. Len(s)
    OBVIOUS
  <2> HIDE DEF I
  <2> QED BY <2>1, MinFacts
<1> HIDE DEF I
<1>3. SelectInSeq(s, Verifies) = 0 \/ SelectInSeq(s, Verifies) \in 1 .. Len(s)
  BY <1>1, <1>2
<1>4. FirstAnswering(s) = IF SelectInSeq(s, Verifies) = 0 THEN None ELSE s[SelectInSeq(s, Verifies)]
  BY DEF FirstAnswering
<1> QED BY <1>3, <1>4 DEF Maybe

LEMMA UsablePeersType ==
    ASSUME NEW f \in Files, IsInjective(f.recent), NEW c
    PROVE  UsablePeers(f, c) \in Seq(Endpoints)
<1> DEFINE t == RemoveFirst(f.recent, f.peer)
<1>1. t \in Seq(Endpoints)
  <2>1. f.recent \in Seq(Endpoints)
    BY DEF Files
  <2> QED BY <2>1, RemoveFirstFacts
<1>2. ASSUME f.peer # None PROVE <<f.peer>> \o t \in Seq(Endpoints)
  <2>1. f.peer \in Endpoints
    BY <1>2 DEF Files, Maybe
  <2>2. <<f.peer>> \in Seq(Endpoints)
    BY <2>1
  <2> HIDE DEF t
  <2> QED BY <1>1, <2>2
<1>3. <<>> \in Seq(Endpoints)
  OBVIOUS
<1> QED BY <1>2, <1>3 DEF UsablePeers

-----------------------------------------------------------------------------
(* The initial states, and one lemma for each action.                      *)

LEMMA InitIInv == Init => IInv
<1> SUFFICES ASSUME Init PROVE IInv
  OBVIOUS
<1>1. LoopType
  BY NoneFacts, KindsAssumption, BoundsAssumption
     DEF Init, LoopType, Kinds, MaxConsecutiveFails
<1>2. QuickInv /\ LoopInv /\ PinInv /\ HopInv /\ TaskInv
  BY DEF Init, QuickInv, LoopInv, PinInv, HopInv, TaskInv, Dialling, Held,
         MaxConsecutiveFails
<1>3. AccountInv
  BY NoneFacts DEF Init, AccountInv, Held
<1>4. RingInv
  <2>1. file \in Files
    <3>1. PICK e \in Maybe : file = [NoFile EXCEPT !.peer = e]
      BY DEF Init
    <3>2. file = [peer |-> e, carrier |-> "", recent |-> <<>>]
      BY <3>1 DEF NoFile
    <3>3. <<>> \in Seq(Endpoints) /\ "" \in Carriers
      BY DEF Carriers
    <3> QED BY <3>2, <3>3 DEF Files
  <2>2. file.recent = <<>>
    BY DEF Init, NoFile
  <2>3. RingSound
    BY <2>2, BoundsAssumption DEF RingSound, IsInjective, ToSet
  <2>4. savedAs \in [Endpoints -> SUBSET {"wireguard", "masque"}]
    BY DEF Init
  <2> QED BY <2>1, <2>3, <2>4 DEF RingInv
<1> QED BY <1>1, <1>2, <1>3, <1>4 DEF IInv

\* A step that leaves the file alone leaves it sound.
LEMMA RingKept ==
    ASSUME RingInv, UNCHANGED <<file, savedAs>>
    PROVE  RingInv'
BY DEF RingInv, RingSound

LEMMA BootStep ==
    ASSUME IInv, Boot
    PROVE  IInv'
<1>1. RingInv'
  BY RingKept DEF IInv, Boot
<1>2. quick' \in Maybe
  <2>1. FirstAnswering(UsablePeers(file, Carrier(Proto))) \in Maybe
    BY UsablePeersType, FirstAnsweringType DEF IInv, RingInv, RingSound
  <2> QED BY <2>1, SettingsFacts, NoneFacts DEF IInv, LoopType, Boot
<1>3. LoopType'
  BY <1>2, SettingsFacts DEF IInv, LoopType, Boot, worldVars
<1>4. QuickInv'
  <2>1. quick' # None => ~Nested(Proto) /\ set.outer = None
    BY DEF Boot
  <2>2. pc' = "head" /\ fails' = 0 /\ Held' = {} /\ set' = set
    BY DEF IInv, LoopInv, Boot, worldVars, Held
  <2> QED BY <2>1, <2>2 DEF QuickInv, Proto
<1>5. LoopInv'
  BY DEF IInv, LoopType, LoopInv, Boot, worldVars, Dialling, MaxConsecutiveFails, Proto
<1>6. PinInv'
  BY SettingsFacts DEF IInv, LoopType, LoopInv, PinInv, Boot, worldVars, Proto
<1>7. HopInv' /\ TaskInv'
  BY DEF IInv, HopInv, TaskInv, Boot, Dialling, Pumps, Proto
<1>8. AccountInv'
  BY SettingsFacts DEF IInv, LoopType, LoopInv, AccountInv, Boot, worldVars, Held, Accounted, Proto, Nested
<1> QED BY <1>1, <1>3, <1>4, <1>5, <1>6, <1>7, <1>8 DEF IInv

LEMMA GiveUpStep ==
    ASSUME IInv, GiveUp
    PROVE  IInv'
<1> DEFINE ticked == [e \in Endpoints |-> IF cooldown[e] > 0 THEN cooldown[e] - 1 ELSE 0]
<1>0. /\ LoopType /\ QuickInv /\ LoopInv /\ PinInv /\ AccountInv
      /\ pc = "head" /\ pc' = "pick"
      /\ UNCHANGED <<quick, hops, tasks, file, set, kind, shifts, starts, ended, savedAs>>
  BY DEF IInv, GiveUp, worldVars
<1>1. RingInv'
  BY RingKept DEF IInv, GiveUp
<1>2. ticked \in [Endpoints -> 0 .. CooldownRounds]
  BY <1>0, BoundsAssumption DEF LoopType
<1>3. cooldown' = IF Proto = "wg" /\ GivesUp /\ outer # None
                  THEN [ticked EXCEPT ![outer] = CooldownRounds] ELSE ticked
  BY DEF GiveUp
<1>4. /\ outer' = IF GivesUp /\ (Proto = "wg" \/ set.outer = None) THEN None ELSE outer
      /\ inner' = IF GivesUp /\ set.inner = None THEN None ELSE inner
      /\ fails' = IF GivesUp THEN 0 ELSE fails
  BY DEF GiveUp
<1>5. cooldown' \in [Endpoints -> 0 .. CooldownRounds]
  <2> HIDE DEF ticked
  <2>1. CooldownRounds \in 0 .. CooldownRounds
    BY BoundsAssumption
  <2> QED BY <1>2, <1>3, <2>1
<1>6. \A e \in Held' : e \in Held \/ (e = outer /\ Proto = "wg" /\ GivesUp)
  BY <1>0, <1>3 DEF Held, LoopType
<1> HIDE DEF ticked
<1>7. LoopType'
  BY <1>0, <1>4, <1>5, NoneFacts DEF LoopType, MaxConsecutiveFails
<1>8. QuickInv'
  BY <1>0, <1>4, <1>6 DEF QuickInv, GivesUp, MaxConsecutiveFails, Proto
<1>9. LoopInv'
  BY <1>0, <1>4 DEF LoopInv, LoopType, Dialling, GivesUp, MaxConsecutiveFails, Proto
<1>10. PinInv'
  BY <1>0, <1>4, SettingsFacts DEF PinInv, LoopType, GivesUp, Proto, Nested
<1>11. HopInv' /\ TaskInv'
  BY <1>0 DEF IInv, HopInv, TaskInv, Dialling, Pumps, Proto
<1>12. AccountInv'
  BY <1>0, <1>4, <1>6, NoneFacts
     DEF AccountInv, LoopType, GivesUp, Accounted, Proto, Held, MaxConsecutiveFails
<1> QED BY <1>1, <1>7, <1>8, <1>9, <1>10, <1>11, <1>12 DEF IInv

\* A single-hop tunnel is about to be dialled on e.
LEMMA UseStep ==
    ASSUME IInv, NEW e \in Endpoints, pc = "pick", ~Nested(Proto),
           Use(e), quick' = None,
           set.outer # None => e = set.outer,
           Accounted => e \notin Held
    PROVE  IInv'
<1>0. /\ LoopType /\ LoopInv /\ PinInv /\ AccountInv /\ e # None /\ e \in Maybe
      /\ pc' = "save" /\ hops' = <<e, None>> /\ outer' = e
      /\ fails' = IF Proto = "wg" /\ e # outer THEN 0 ELSE fails
      /\ ended' = IF e # outer THEN [ended EXCEPT ![e] = 0] ELSE ended
      /\ UNCHANGED <<inner, cooldown, tasks, file, set, kind, shifts, starts, savedAs>>
  BY NoneFacts DEF IInv, Use, worldVars, Maybe
<1>1. RingInv'
  BY RingKept DEF IInv, Use
<1>2. LoopType'
  BY <1>0, NoneFacts DEF LoopType, MaxConsecutiveFails
<1>3. QuickInv'
  BY DEF QuickInv
<1>4. LoopInv'
  BY <1>0 DEF LoopInv, LoopType, Dialling, MaxConsecutiveFails, Proto
<1>5. PinInv'
  BY <1>0 DEF PinInv, Proto
<1>6. HopInv' /\ TaskInv'
  BY <1>0, SettingsFacts DEF IInv, LoopType, HopInv, TaskInv, Dialling, Proto
<1>7. AccountInv'
  BY <1>0 DEF AccountInv, LoopType, LoopInv, Accounted, Proto, Held, MaxConsecutiveFails
<1> QED BY <1>1, <1>2, <1>3, <1>4, <1>5, <1>6, <1>7 DEF IInv

\* The loop sleeps and starts over, with its account as it was.
LEMMA TryLaterStep ==
    ASSUME IInv, pc = "pick", quick = None, TryLater
    PROVE  IInv'
<1>0. /\ LoopType /\ LoopInv /\ PinInv /\ AccountInv /\ pc' = "head" /\ quick' = None
      /\ UNCHANGED <<outer, inner, fails, cooldown, hops, tasks, file, set, kind,
                     shifts, starts, ended, savedAs>>
  BY DEF IInv, TryLater, loopVars, worldVars
<1>1. RingInv'
  BY RingKept DEF IInv, TryLater
<1>2. LoopType' /\ QuickInv'
  BY <1>0, NoneFacts DEF LoopType, QuickInv
<1>3. LoopInv' /\ PinInv'
  BY <1>0 DEF LoopInv, PinInv, Dialling, Proto
<1>4. HopInv' /\ TaskInv'
  BY <1>0 DEF IInv, HopInv, TaskInv, Dialling
<1>5. AccountInv'
  BY <1>0 DEF AccountInv, Accounted, Proto, Held
<1> QED BY <1>1, <1>2, <1>3, <1>4, <1>5 DEF IInv

LEMMA SinglePickStep ==
    ASSUME IInv, UseQuick \/ RetryLastGood \/ UseForced \/ ScanFinds \/ ScanFindsNothing
    PROVE  IInv'
<1>0. /\ set.outer \in Maybe /\ quick \in Maybe /\ outer \in Maybe
      /\ Proto \in Protocols /\ None \notin Endpoints
  BY SettingsFacts, NoneFacts DEF IInv, LoopType
<1>1. CASE UseQuick
  <2>1. quick \in Endpoints /\ set.outer = None /\ Held = {}
    BY <1>0, <1>1 DEF UseQuick, Maybe, IInv, QuickInv
  <2> QED BY <1>1, <2>1, UseStep DEF UseQuick
<1>2. CASE RetryLastGood
  <2>1. outer \in Endpoints
    BY <1>0, <1>2 DEF RetryLastGood, Maybe
  <2>2. set.outer # None => outer = set.outer
    BY <1>2 DEF RetryLastGood, IInv, PinInv
  <2>3. Accounted => outer \notin Held
    BY DEF IInv, AccountInv
  <2> QED BY <1>2, <2>1, <2>2, <2>3, UseStep DEF RetryLastGood
<1>3. CASE UseForced
  <2>1. set.outer \in Endpoints /\ ~Accounted
    BY <1>0, <1>3 DEF UseForced, Maybe, Accounted
  <2>2. CASE TryLater
    BY <1>3, <2>2, TryLaterStep DEF UseForced, Rescans
  <2>3. CASE Use(set.outer) /\ UNCHANGED quick
    BY <1>3, <2>1, <2>3, UseStep DEF UseForced, Rescans
  <2> QED BY <1>3, <2>2, <2>3 DEF UseForced
<1>4. CASE ScanFinds
  <2> PICK e \in Endpoints : Found(e)
    BY <1>4 DEF ScanFinds
  <2>1. Accounted => e \notin Held
    BY DEF Found, Scanned, WgAnswers, Accounted
  <2> QED BY <2>1, UseStep DEF Found, Rescans
<1>5. CASE ScanFindsNothing
  BY <1>5, TryLaterStep DEF ScanFindsNothing, Rescans
<1> QED BY <1>1, <1>2, <1>3, <1>4, <1>5

\* run_gool and run_mim have nothing verified ahead, so QuickInv is about the
\* other two loops, and so is the account of the cooldowns.
LEMMA NestedFacts ==
    ASSUME IInv, Nested(Proto)
    PROVE  /\ quick = None /\ ~Accounted /\ Proto # "masque"
           /\ pc # "boot" /\ set.outer # None => outer = set.outer
           /\ pc # "boot" /\ set.inner # None => inner = set.inner
BY DEF IInv, QuickInv, PinInv, Accounted, Nested

LEMMA NestedPickStep ==
    ASSUME IInv, PickPair \/ PickOuter \/ PairIncomplete
    PROVE  IInv'
<1>0. /\ Nested(Proto) /\ LoopType /\ LoopInv /\ pc = "pick"
      /\ UNCHANGED <<quick, fails, cooldown, tasks, file, set, kind, shifts, starts, savedAs>>
  BY DEF IInv, PickPair, PickOuter, PairIncomplete, Nested, worldVars
<1>n. /\ quick = None /\ ~Accounted /\ Proto # "masque"
      /\ set.outer # None => outer = set.outer
      /\ set.inner # None => inner = set.inner
  BY <1>0, NestedFacts
<1>s. Scanned \subseteq Endpoints
  BY DEF Scanned, WgAnswers, MasqueAnswers
<1>1. RingInv'
  BY <1>0, RingKept DEF IInv
<1>2. QuickInv' /\ AccountInv'
  BY <1>0, <1>n DEF QuickInv, AccountInv, Accounted, Proto
<1>3. CASE PickPair
  <2>0. PICK o \in IF outer # None THEN {outer} ELSE Scanned,
             i \in IF inner # None THEN {inner} ELSE Scanned :
            /\ hops' = <<o, i>> /\ outer' = o /\ inner' = i
            /\ ended' = IF o # outer THEN [ended EXCEPT ![o] = 0] ELSE ended
    BY <1>3 DEF PickPair
  <2>1. /\ o \in Endpoints /\ i \in Endpoints /\ pc' = "dial" /\ Proto = "gool"
        /\ set.outer # None => o = set.outer
        /\ set.inner # None => i = set.inner
    BY <1>0, <1>n, <1>s, <1>3, <2>0 DEF PickPair, LoopType, Maybe
  <2>2. LoopType'
    BY <1>0, <2>0, <2>1 DEF LoopType, Maybe, MaxConsecutiveFails
  <2>3. LoopInv' /\ PinInv' /\ HopInv' /\ TaskInv'
    BY <1>0, <2>0, <2>1, NoneFacts
       DEF IInv, LoopInv, PinInv, HopInv, TaskInv, Dialling, Proto, MaxConsecutiveFails
  <2> QED BY <1>1, <1>2, <2>2, <2>3 DEF IInv
<1>4. CASE PickOuter
  <2>0. PICK o \in IF outer # None THEN {outer} ELSE Scanned :
            /\ hops' = <<o, inner>> /\ outer' = o
            /\ ended' = IF o # outer THEN [ended EXCEPT ![o] = 0] ELSE ended
    BY <1>4 DEF PickOuter
  <2>1. /\ o \in Endpoints /\ pc' = "dial" /\ Proto = "mim" /\ inner' = inner
        /\ set.outer # None => o = set.outer
    BY <1>0, <1>n, <1>s, <1>4, <2>0 DEF PickOuter, LoopType, Maybe
  <2>2. LoopType'
    BY <1>0, <2>0, <2>1 DEF LoopType, Maybe, MaxConsecutiveFails
  <2>3. LoopInv' /\ PinInv' /\ HopInv' /\ TaskInv'
    BY <1>0, <1>n, <2>0, <2>1, NoneFacts
       DEF IInv, LoopInv, PinInv, HopInv, TaskInv, Dialling, Proto, MaxConsecutiveFails
  <2> QED BY <1>1, <1>2, <2>2, <2>3 DEF IInv
<1>5. CASE PairIncomplete
  <2>0. /\ outer' = set.outer /\ inner' = set.inner /\ pc' = "head"
        /\ UNCHANGED <<hops, ended>>
    BY <1>5 DEF PairIncomplete
  <2>1. LoopType'
    BY <1>0, <2>0, SettingsFacts DEF LoopType
  <2>2. LoopInv' /\ PinInv' /\ HopInv' /\ TaskInv'
    BY <1>0, <1>n, <2>0
       DEF IInv, LoopInv, PinInv, HopInv, TaskInv, Dialling, Proto, MaxConsecutiveFails
  <2> QED BY <1>1, <1>2, <2>1, <2>2 DEF IInv
<1> QED BY <1>3, <1>4, <1>5

LEMMA SaveStep ==
    ASSUME IInv, SaveLastConnection
    PROVE  IInv'
<1>0. /\ LoopType /\ QuickInv /\ LoopInv /\ PinInv /\ HopInv /\ TaskInv /\ AccountInv /\ RingInv
      /\ pc = "save" /\ pc' = "dial"
      /\ UNCHANGED <<quick, outer, inner, fails, cooldown, hops, tasks, set, kind,
                     shifts, starts, ended>>
  BY DEF IInv, SaveLastConnection, loopVars, worldVars
<1>1. LoopType' /\ QuickInv' /\ LoopInv' /\ PinInv'
  BY <1>0 DEF LoopType, QuickInv, LoopInv, PinInv, Dialling, Proto, Held
<1>2. HopInv' /\ TaskInv' /\ AccountInv'
  BY <1>0 DEF HopInv, TaskInv, AccountInv, LoopInv, Accounted, Dialling, Proto, Held, Nested
<1>3. RingInv'
  <2>1. CASE set.outer # None
    BY <1>0, <2>1, RingKept DEF SaveLastConnection
  <2>2. CASE set.outer = None
    <3>1. PICK e \in Endpoints, c \in {"wireguard", "masque"} : e = hops[1] /\ c = Carrier(Proto)
      BY <1>0 DEF LoopInv, LoopType, Dialling, Maybe, Carrier
    <3>2. /\ file' = Saved(file, e, c)
          /\ savedAs' = [savedAs EXCEPT ![e] = @ \cup {c}]
      BY <2>2, <3>1 DEF SaveLastConnection
    <3>3. /\ file \in Files /\ IsInjective(file.recent)
          /\ \A x \in ToSet(file.recent) : file.carrier \in savedAs[x]
          /\ savedAs \in [Endpoints -> SUBSET {"wireguard", "masque"}]
      BY <1>0 DEF RingInv, RingSound
    <3>0. PICK r \in Seq(Endpoints) : NewRing(file, e, c, r)
      BY <3>3, SavedFacts
    <3>a. /\ Saved(file, e, c) = [peer |-> e, carrier |-> c, recent |-> r]
          /\ IsInjective(r) /\ Len(r) \in 1 .. RecentCap /\ Head(r) = e
          /\ \A i \in 2 .. Len(r) :
                /\ file.carrier \in {"", c}
                /\ \E j \in 1 .. Len(file.recent) : r[i] = file.recent[j]
      BY <3>0 DEF NewRing
    <3>b. /\ file' = [peer |-> e, carrier |-> c, recent |-> r]
          /\ file'.peer = e /\ file'.carrier = c /\ file'.recent = r
      <4>1. file' = [peer |-> e, carrier |-> c, recent |-> r]
        BY <3>2, <3>a, Zenon
      <4> QED BY <4>1
    <3>s. /\ file' \in Files
          /\ IsInjective(file'.recent)
          /\ Len(file'.recent) \in 1 .. RecentCap /\ Head(file'.recent) = e
      BY <3>a, <3>b DEF Files, Maybe, Carriers
    <3>4. \A i \in 2 .. Len(file'.recent) :
                /\ file.carrier \in {"", c}
                /\ \E j \in 1 .. Len(file.recent) : file'.recent[i] = file.recent[j]
      BY <3>a, <3>b
    <3>5. file'.recent \in Seq(Endpoints) /\ file.recent \in Seq(Endpoints)
      BY <3>3, <3>s DEF Files
    <3>6. savedAs' \in [Endpoints -> SUBSET {"wireguard", "masque"}]
      BY <3>1, <3>2, <3>3
    <3>7. ASSUME NEW i \in 1 .. Len(file'.recent)
          PROVE  c \in savedAs'[file'.recent[i]]
      <4>1. CASE i = 1
        BY <3>1, <3>2, <3>3, <3>5, <3>s, <4>1
      <4>2. CASE i # 1
        <5>1. i \in 2 .. Len(file'.recent)
          BY <3>5, <4>2
        <5>2. PICK j \in 1 .. Len(file.recent) : file'.recent[i] = file.recent[j]
          BY <3>4, <5>1
        <5> DEFINE x == file.recent[j]
        <5>3. x \in Endpoints /\ x \in ToSet(file.recent)
          BY <3>5 DEF ToSet
        <5> HIDE DEF x
        <5>4. file.carrier \in savedAs[x] /\ savedAs[x] \subseteq {"wireguard", "masque"}
          BY <3>3, <5>3
        <5>5. file.carrier = c
          BY <3>4, <5>1, <5>4
        <5>6. c \in savedAs'[x]
          BY <3>1, <3>2, <3>3, <5>3, <5>4, <5>5
        <5> QED BY <5>2, <5>6 DEF x
      <4> QED BY <4>1, <4>2
    <3>8. \A x \in ToSet(file'.recent) : file'.carrier \in savedAs'[x]
      <4>1. DOMAIN file'.recent = 1 .. Len(file'.recent)
        BY <3>5
      <4> QED BY <3>b, <3>7, <4>1 DEF ToSet
    <3>9. file'.recent # <<>> => file'.peer = Head(file'.recent)
      BY <3>b, <3>s
    <3>10. Len(file'.recent) <= RecentCap
      BY <3>s, BoundsAssumption
    <3> QED BY <3>s, <3>6, <3>8, <3>9, <3>10 DEF RingInv, RingSound
  <2> QED BY <2>1, <2>2
<1> QED BY <1>0, <1>1, <1>2, <1>3 DEF IInv

-----------------------------------------------------------------------------
(* The life of a tunnel.                                                   *)

\* Every end of a tunnel, from whatever point of it.
LEMMA EndStep ==
    ASSUME IInv, pc \in {"dial", "inner", "settle", "bind", "serve"}, EndTunnel
    PROVE  IInv'
<1>0. /\ LoopType /\ QuickInv /\ LoopInv /\ PinInv /\ TaskInv /\ AccountInv
      /\ pc' = "head" /\ hops' = <<None, None>>
      /\ tasks' = tasks \ Guarded(Proto)
      /\ fails' = IF Proto = "masque" THEN fails ELSE fails + 1
      /\ ended' = [ended EXCEPT ![hops[1]] = IF @ < MaxConsecutiveFails THEN @ + 1 ELSE @]
      /\ UNCHANGED <<quick, outer, inner, cooldown, file, set, kind, shifts, starts, savedAs>>
  BY DEF IInv, EndTunnel, worldVars
<1>1. RingInv'
  BY RingKept DEF IInv, EndTunnel
<1>2. fails \in {0, 1} /\ hops[1] = outer /\ outer \in Endpoints
  BY <1>0 DEF LoopInv, LoopType, Dialling, Maybe, MaxConsecutiveFails
<1>3. LoopType'
  BY <1>0, <1>2, NoneFacts DEF LoopType, MaxConsecutiveFails
<1>4. QuickInv' /\ PinInv' /\ HopInv'
  BY <1>0 DEF QuickInv, PinInv, HopInv, Dialling, Proto
<1>5. LoopInv'
  BY <1>0, <1>2 DEF LoopInv, Dialling, Proto
<1>6. TaskInv'
  <2>1. tasks \subseteq Guarded(Proto)
    BY <1>0, SettingsFacts DEF LoopType, LoopInv, TaskInv, Pumps, Guarded, Protocols
  <2> QED BY <1>0, <2>1 DEF TaskInv
<1>7. AccountInv'
  BY <1>0, <1>2 DEF AccountInv, Accounted, Proto, Held, LoopType, MaxConsecutiveFails
<1> QED BY <1>1, <1>3, <1>4, <1>5, <1>6, <1>7 DEF IInv

\* A tunnel comes one step further.
LEMMA ProgressStep ==
    ASSUME IInv, DialOuter \/ DialInner \/ Settle \/ Expose
    PROVE  IInv'
<1>0. /\ LoopType /\ QuickInv /\ LoopInv /\ PinInv /\ HopInv /\ TaskInv /\ AccountInv
      /\ pc \in {"dial", "inner", "settle", "bind"}
      /\ pc' \in {"inner", "settle", "bind", "serve"}
      /\ UNCHANGED <<quick, outer, inner, fails, cooldown, file, set, kind, shifts,
                     starts, ended, savedAs>>
  BY DEF IInv, DialOuter, DialInner, Settle, Expose, Proceed, loopVars, worldVars
<1>1. RingInv'
  BY <1>0, RingKept DEF IInv
<1>2. QuickInv' /\ PinInv' /\ AccountInv'
  BY <1>0 DEF QuickInv, PinInv, AccountInv, Accounted, Proto, Held
<1>3. outer \in Endpoints /\ hops[1] = outer /\ hops \in Maybe \X Maybe
  BY <1>0 DEF LoopInv, LoopType, Dialling, Maybe
<1>p. Proto \in Protocols /\ Proto' = Proto
  BY <1>0, SettingsFacts DEF LoopType, Proto
<1>4. CASE DialOuter
  <2>0. /\ hops' = hops /\ pc = "dial"
        /\ pc' = IF Nested(Proto) THEN "inner" ELSE "settle"
        /\ tasks' = tasks \cup (IF Proto = "wg" THEN {} ELSE {"outer"})
        /\ Proto = "gool" => Ip[hops[1]] # Ip[hops[2]]
    BY <1>4 DEF DialOuter, Proceed
  <2>1. LoopType' /\ LoopInv'
    BY <1>0, <2>0 DEF LoopType, LoopInv, Dialling, Proto
  <2>2. HopInv'
    BY <1>0, <1>p, <2>0 DEF HopInv, Dialling, Nested
  <2>3. TaskInv'
    BY <1>0, <1>p, <2>0 DEF TaskInv, Pumps, Nested, Protocols
  <2> QED BY <1>1, <1>2, <2>1, <2>2, <2>3 DEF IInv
<1>5. CASE DialInner
  <2>0. PICK e \in InnerCandidates : hops' = <<hops[1], e>>
    BY <1>5 DEF DialInner
  <2>1. /\ pc = "inner" /\ pc' = "settle" /\ Nested(Proto)
        /\ tasks' = tasks \cup {"inner", "forwarder"}
    BY <1>0, <1>5 DEF DialInner, Proceed, LoopInv
  <2>2. /\ e \in Endpoints
        /\ hops[2] # None => e = hops[2]
        /\ Proto = "mim" => Ip[e] # Ip[hops[1]]
    BY <1>3, <2>0 DEF InnerCandidates, Maybe
  <2>3. LoopType' /\ LoopInv'
    BY <1>0, <1>3, <2>0, <2>1, <2>2 DEF LoopType, LoopInv, Dialling, Proto, Maybe
  <2>4. HopInv'
    BY <1>0, <1>p, <1>3, <2>0, <2>1, <2>2, NoneFacts DEF HopInv, Dialling, Nested
  <2>5. TaskInv'
    BY <1>0, <1>p, <2>1 DEF TaskInv, Pumps, Nested
  <2> QED BY <1>1, <1>2, <2>3, <2>4, <2>5 DEF IInv
<1>6. CASE Settle
  <2>0. hops' = hops /\ pc = "settle" /\ pc' = "bind" /\ tasks' = tasks
    BY <1>6 DEF Settle, Proceed
  <2>1. LoopType' /\ LoopInv' /\ HopInv' /\ TaskInv'
    BY <1>0, <1>p, <2>0 DEF LoopType, LoopInv, HopInv, TaskInv, Dialling, Pumps
  <2> QED BY <1>1, <1>2, <2>1 DEF IInv
<1>7. CASE Expose
  <2>0. /\ hops' = hops /\ pc = "bind" /\ pc' = "serve"
        /\ tasks' = tasks \cup ({"socks", "http"} \cup (IF Proto = "wg" THEN {"outer"} ELSE {}))
    BY <1>7 DEF Expose, Proceed
  <2>1. LoopType' /\ LoopInv' /\ HopInv'
    BY <1>0, <1>p, <2>0 DEF LoopType, LoopInv, HopInv, Dialling
  <2>2. TaskInv'
    BY <1>0, <1>p, <2>0 DEF TaskInv, Pumps, Protocols
  <2> QED BY <1>1, <1>2, <2>1, <2>2 DEF IInv
<1> QED BY <1>4, <1>5, <1>6, <1>7

LEMMA TunnelStep ==
    ASSUME IInv, Tunnel
    PROVE  IInv'
<1>1. CASE DialOuter \/ DialInner \/ Settle \/ Expose
  BY <1>1, ProgressStep
<1>2. CASE DialFails \/ SettleRefuses \/ BindFails \/ TunnelEnds \/ WatchRefuses
  BY <1>2, EndStep DEF DialFails, SettleRefuses, BindFails, TunnelEnds, WatchRefuses
<1> QED BY <1>1, <1>2 DEF Tunnel

-----------------------------------------------------------------------------
(* Crashes and the network.                                                *)

LEMMA CrashStep ==
    ASSUME IInv, Crash
    PROVE  IInv'
<1>0. /\ set' \in Configs /\ starts' = starts + 1 /\ starts < MaxStarts
      /\ file' \in {file, NoFile}
      /\ pc' = "boot" /\ quick' = None /\ outer' = None /\ inner' = None /\ fails' = 0
      /\ cooldown' = [e \in Endpoints |-> 0]
      /\ hops' = <<None, None>> /\ tasks' = {}
      /\ ended' = [e \in Endpoints |-> 0]
      /\ UNCHANGED <<kind, shifts, savedAs>>
  BY DEF Crash
<1>1. LoopType'
  BY <1>0, NoneFacts, BoundsAssumption DEF IInv, LoopType, MaxConsecutiveFails
<1>2. QuickInv' /\ LoopInv' /\ PinInv' /\ HopInv' /\ TaskInv'
  BY <1>0 DEF QuickInv, LoopInv, PinInv, HopInv, TaskInv, Dialling, Held,
              MaxConsecutiveFails
<1>3. AccountInv'
  BY <1>0, NoneFacts DEF AccountInv, Held
<1>4. RingInv'
  <2>1. CASE file' = file
    BY <1>0, <2>1, RingKept DEF IInv
  <2>2. CASE file' = NoFile
    <3>1. NoFile \in Files
      BY DEF NoFile, Files, Maybe, Carriers
    <3>2. file'.recent = <<>>
      BY <2>2 DEF NoFile
    <3>3. RingSound'
      BY <3>2, BoundsAssumption DEF RingSound, IsInjective, ToSet
    <3> QED BY <1>0, <2>2, <3>1, <3>3 DEF IInv, RingInv
  <2> QED BY <1>0, <2>1, <2>2
<1> QED BY <1>1, <1>2, <1>3, <1>4 DEF IInv

\* The invariant says nothing of what the endpoints do, except their type.
LEMMA WorldStep ==
    ASSUME IInv, Shift \/ UNCHANGED vars
    PROVE  IInv'
<1>0. UNCHANGED <<pc, quick, outer, inner, fails, cooldown, hops, tasks, file, starts,
                  set, ended, savedAs>>
  BY DEF Shift, vars, loopVars, worldVars
<1>1. kind' \in [Endpoints -> Kinds] /\ shifts' \in 0 .. MaxShifts
  BY BoundsAssumption DEF IInv, LoopType, Shift, vars, worldVars
<1>2. LoopType' /\ QuickInv' /\ LoopInv' /\ PinInv'
  BY <1>0, <1>1 DEF IInv, LoopType, QuickInv, LoopInv, PinInv, Dialling, Proto, Held
<1>3. HopInv' /\ TaskInv' /\ AccountInv'
  BY <1>0 DEF IInv, HopInv, TaskInv, AccountInv, Accounted, Dialling, Pumps, Proto, Held
<1>4. RingInv'
  BY <1>0, RingKept DEF IInv
<1> QED BY <1>2, <1>3, <1>4 DEF IInv

-----------------------------------------------------------------------------
(* The theorems about the specification.                                   *)

LEMMA NextIInv == IInv /\ [Next]_vars => IInv'
<1> SUFFICES ASSUME IInv, [Next]_vars PROVE IInv'
  OBVIOUS
<1>1. CASE Boot
  BY <1>1, BootStep
<1>2. CASE GiveUp
  BY <1>2, GiveUpStep
<1>3. CASE Pick
  BY <1>3, SinglePickStep, NestedPickStep DEF Pick
<1>4. CASE SaveLastConnection
  BY <1>4, SaveStep
<1>5. CASE Tunnel
  BY <1>5, TunnelStep
<1>6. CASE Crash
  BY <1>6, CrashStep
<1>7. CASE Shift \/ UNCHANGED vars
  BY <1>7, WorldStep
<1> QED BY <1>1, <1>2, <1>3, <1>4, <1>5, <1>6, <1>7 DEF Next

\* The inductive invariant holds in every behaviour of the supervisor.
THEOREM Inductive == Spec => []IInv
<1> QED BY InitIInv, NextIInv, PTL DEF Spec

\* Every variable of the loops keeps its type, whatever fails and whenever the
\* process dies.
THEOREM TypeCorrect == Spec => []TypeOK
<1>1. IInv => TypeOK
  <2> SUFFICES ASSUME IInv PROVE TypeOK
    OBVIOUS
  <2>1. tasks \subseteq Tasks
    BY SettingsFacts DEF IInv, LoopType, TaskInv, Pumps, Tasks
  <2>2. /\ file.peer \in Maybe /\ file.carrier \in Carriers
        /\ file.recent \in Seq(Endpoints) /\ Len(file.recent) <= RecentCap
    BY DEF IInv, RingInv, RingSound, Files
  <2>3. DOMAIN file.recent \subseteq 1 .. RecentCap /\ ToSet(file.recent) \subseteq Endpoints
    <3>1. DOMAIN file.recent = 1 .. Len(file.recent)
      BY <2>2
    <3> QED BY <2>2, <3>1, BoundsAssumption DEF ToSet
  <2>4. savedAs \in [Endpoints -> SUBSET Carriers]
    BY DEF IInv, RingInv, Carriers
  <2> QED BY <2>1, <2>2, <2>3, <2>4 DEF IInv, LoopType, TypeOK
<1> QED BY <1>1, Inductive, PTL

\* Nothing of a tunnel that failed half way is left when the next one is
\* dialled, and an open port has every pump of its tunnel behind it.
THEOREM NothingOutlivesHolds == Spec => []NothingOutlivesItsTunnel
<1>1. IInv => NothingOutlivesItsTunnel
  <2> SUFFICES ASSUME IInv PROVE NothingOutlivesItsTunnel
    OBVIOUS
  <2>1. Proto \in Protocols
    BY SettingsFacts DEF IInv, LoopType
  <2> QED BY <2>1 DEF IInv, LoopType, LoopInv, TaskInv, Pumps, Nested, Protocols,
                      NothingOutlivesItsTunnel
<1> QED BY <1>1, Inductive, PTL

\* An endpoint given by hand is never replaced, and the hops of a nested tunnel
\* that came up are on different addresses, for every network.
THEOREM HopsAsAskedHolds == Spec => []HopsAsAsked
<1>1. IInv => HopsAsAsked
  BY DEF IInv, LoopInv, PinInv, HopInv, HopsAsAsked, PinsKept, HopsApart, Dialling
<1> QED BY <1>1, Inductive, PTL

\* The remembered ring is sound after any sequence of tunnels, crashes and
\* protocol changes, for every cap.
THEOREM RingSoundHolds == Spec => []RingSound
<1>1. IInv => RingSound
  BY DEF IInv, RingInv
<1> QED BY <1>1, Inductive, PTL

\* Who is on a cooldown has ended two tunnels in a row, and no tunnel is
\* dialled on it, for every length of the cooldown.
THEOREM CooldownHolds == Spec => []CooldownIsEarnedAndKept
<1>1. IInv => CooldownIsEarnedAndKept
  BY DEF IInv, LoopInv, AccountInv, Accounted, CooldownIsEarnedAndKept
<1> QED BY <1>1, Inductive, PTL

\* A tunnel that is turned away at settle did not leave where the policy wants
\* it: the pump its lookup needs runs in every protocol but plain WireGuard.
THEOREM RefusesOnlyUnwantedHolds == Spec => RefusesOnlyUnwanted
<1>1. IInv /\ [Next]_vars =>
        [Proto # "wg" /\ pc = "settle" /\ pc' = "head" => kind[Exit] # "good"]_vars
  <2> SUFFICES ASSUME IInv, Next, Proto # "wg", pc = "settle", pc' = "head"
               PROVE  kind[Exit] # "good"
    OBVIOUS
  <2>1. PumpRuns
    BY SettingsFacts DEF IInv, LoopType, TaskInv, Pumps, PumpRuns, Nested, Protocols
  <2>2. ~Acceptable
    <3>1. ~Boot /\ ~GiveUp /\ ~SaveLastConnection /\ ~Crash /\ ~Shift
      BY DEF Boot, GiveUp, SaveLastConnection, Crash, Shift
    <3>2. ~Pick
      BY DEF Pick, UseQuick, RetryLastGood, UseForced, ScanFinds, Found, ScanFindsNothing,
             Rescans, PickPair, PickOuter, PairIncomplete
    <3>3. Tunnel
      BY <3>1, <3>2 DEF Next
    <3>4. SettleRefuses
      BY <3>3 DEF Tunnel, DialOuter, DialInner, DialFails, Settle, Expose, BindFails,
                  TunnelEnds, WatchRefuses, Proceed
    <3> QED BY <3>4 DEF SettleRefuses
  <2> QED BY <2>1, <2>2 DEF Acceptable
<1> QED BY <1>1, Inductive, PTL DEF Spec, RefusesOnlyUnwanted

-----------------------------------------------------------------------------
(* The supervisor implements EndpointLedger.                               *)

LEMMA LedgerInit == Init => Ledger!Init
<1> SUFFICES ASSUME Init PROVE Ledger!Init
  OBVIOUS
<1>1. Held = {} /\ outer = None /\ pc = "boot" /\ starts = 1
  BY DEF Init, Held
<1>2. [e \in Endpoints |-> IF Accounted /\ e = outer THEN fails ELSE 0] = [e \in Endpoints |-> 0]
  BY <1>1, NoneFacts
<1> QED BY <1>1, <1>2 DEF Ledger!Init, Ledger!Clean

\* The loops of the other protocols, and a forced WireGuard peer, are no concern
\* of the ledger: its account stays empty through all their steps.
LEMMA UnaccountedStep ==
    ASSUME ~Accounted, UNCHANGED <<set, starts>>
    PROVE  UNCHANGED Ledger!ledger
BY DEF Accounted, Proto, Ledger!ledger

\* A tunnel comes up or goes on; the account is not touched.
LEMMA QuietStep ==
    ASSUME UNCHANGED <<set, starts, outer, fails, cooldown>>, pc # "serve", pc' # "serve"
    PROVE  UNCHANGED Ledger!ledger
<1>1. Accounted' = Accounted /\ Held' = Held
  BY DEF Accounted, Proto, Held
<1> QED BY <1>1 DEF Ledger!ledger

LEMMA ChooseStep ==
    ASSUME IInv, NEW e \in Endpoints, pc = "pick", Accounted, e \notin Held, Use(e)
    PROVE  Ledger!Choose(e)
<1>0. /\ pc' = "save" /\ outer' = e /\ fails' = IF e # outer THEN 0 ELSE fails
      /\ UNCHANGED <<cooldown, set, starts>> /\ Accounted' = Accounted /\ Held' = Held
  BY DEF Use, worldVars, Accounted, Proto, Held
<1> QED BY <1>0, NoneFacts DEF Ledger!Choose, Ledger!Clean

LEMMA StrikeStep ==
    ASSUME IInv, pc \in {"dial", "inner", "settle", "bind", "serve"}, Accounted, EndTunnel
    PROVE  Ledger!Strike
<1>0. /\ pc' = "head" /\ fails' = fails + 1
      /\ UNCHANGED <<outer, cooldown, set, starts>> /\ Accounted' = Accounted /\ Held' = Held
  BY DEF EndTunnel, worldVars, Accounted, Proto, Held
<1>1. outer \in Endpoints /\ outer # None /\ fails \in {0, 1}
  BY DEF IInv, LoopInv, LoopType, Dialling, Maybe, MaxConsecutiveFails
<1> DEFINE before == [e \in Endpoints |-> IF Accounted /\ e = outer THEN fails ELSE 0]
           after == [e \in Endpoints |-> IF Accounted' /\ e = outer' THEN fails' ELSE 0]
<1>2. after = [before EXCEPT ![outer] = @ + 1] /\ before[outer] < MaxConsecutiveFails
  <2>1. before[outer] = fails /\ fails < MaxConsecutiveFails
    BY <1>1 DEF MaxConsecutiveFails
  <2>2. after = [e \in Endpoints |-> IF e = outer THEN fails + 1 ELSE 0]
    BY <1>0
  <2>3. before = [e \in Endpoints |-> IF e = outer THEN fails ELSE 0]
    OBVIOUS
  <2> HIDE DEF before, after
  <2> QED BY <1>1, <2>1, <2>2, <2>3
<1>3. (IF Accounted THEN outer ELSE None) = outer /\ (IF Accounted' THEN outer' ELSE None) = outer
  BY <1>0
<1> HIDE DEF before, after
<1>4. before = [e \in Endpoints |-> IF Accounted /\ e = outer THEN fails ELSE 0]
  BY DEF before
<1>5. after = [e \in Endpoints |-> IF Accounted' /\ e = outer' THEN fails' ELSE 0]
  BY DEF after
<1> QED BY <1>0, <1>1, <1>2, <1>3, <1>4, <1>5 DEF Ledger!Strike

LEMMA SettleStep ==
    ASSUME IInv, Accounted, GiveUp
    PROVE  Ledger!Settle
<1> DEFINE kept == {e \in Endpoints : cooldown[e] > 1}
           ticked == [e \in Endpoints |-> IF cooldown[e] > 0 THEN cooldown[e] - 1 ELSE 0]
<1>0. /\ pc = "head" /\ pc' = "pick" /\ Proto = "wg" /\ outer \in Maybe
      /\ fails \in 0 .. 2 /\ cooldown \in [Endpoints -> 0 .. CooldownRounds]
      /\ UNCHANGED <<set, starts>> /\ Accounted' = Accounted
  BY DEF IInv, LoopType, GiveUp, worldVars, Accounted, Proto, MaxConsecutiveFails
<1>1. /\ GivesUp <=> fails = 2
      /\ outer' = IF GivesUp THEN None ELSE outer
      /\ fails' = IF GivesUp THEN 0 ELSE fails
      /\ cooldown' = IF GivesUp /\ outer # None
                     THEN [ticked EXCEPT ![outer] = CooldownRounds] ELSE ticked
  BY <1>0 DEF GiveUp, GivesUp, MaxConsecutiveFails
<1>2. kept \in SUBSET Held
  BY <1>0 DEF Held
<1>3. CASE GivesUp /\ outer # None
  <2>1. Held' = kept \cup {outer}
    BY <1>0, <1>1, <1>3, BoundsAssumption DEF Held, Maybe
  <2> QED BY <1>0, <1>1, <1>2, <1>3, <2>1, NoneFacts
          DEF Ledger!Settle, Ledger!Clean, Maybe, MaxConsecutiveFails
<1>4. CASE ~(GivesUp /\ outer # None)
  <2>1. Held' = kept
    BY <1>0, <1>1, <1>4 DEF Held
  <2> QED BY <1>0, <1>1, <1>2, <1>4, <2>1, NoneFacts
          DEF Ledger!Settle, Ledger!Clean, Maybe, MaxConsecutiveFails
<1> QED BY <1>3, <1>4

LEMMA OpenStep ==
    ASSUME IInv, Accounted, Expose
    PROVE  Ledger!Open
<1>0. /\ pc = "bind" /\ pc' = "serve" /\ UNCHANGED <<outer, fails, cooldown, set, starts>>
      /\ Accounted' = Accounted /\ Held' = Held
  BY DEF Expose, Proceed, loopVars, worldVars, Accounted, Proto, Held
<1>1. outer # None
  BY <1>0 DEF IInv, LoopInv, Dialling
<1> QED BY <1>0, <1>1 DEF Ledger!Open

LEMMA RestartStep ==
    ASSUME Crash
    PROVE  Ledger!Restart
<1>0. /\ pc' = "boot" /\ outer' = None /\ starts' = starts + 1 /\ Held' = {}
  BY DEF Crash, Held
<1> QED BY <1>0, NoneFacts DEF Ledger!Restart, Ledger!Clean

LEMMA LedgerNext == IInv /\ [Next]_vars => [Ledger!Next]_(Ledger!ledger)
<1> SUFFICES ASSUME IInv, [Next]_vars PROVE Ledger!Next \/ UNCHANGED Ledger!ledger
  OBVIOUS
<1>1. CASE Crash
  BY <1>1, RestartStep DEF Ledger!Next
<1>2. CASE Shift \/ UNCHANGED vars
  BY <1>2 DEF Shift, vars, loopVars, worldVars, Ledger!ledger, Accounted, Proto, Held
<1>3. ASSUME Boot \/ GiveUp \/ Pick \/ SaveLastConnection \/ Tunnel
      PROVE  Ledger!Next \/ UNCHANGED Ledger!ledger
  <2>0. UNCHANGED <<set, starts>>
    BY <1>3 DEF Boot, GiveUp, Pick, UseQuick, RetryLastGood, UseForced, ScanFinds, Found,
         ScanFindsNothing, Use, TryLater, PickPair, PickOuter, PairIncomplete,
         SaveLastConnection, Tunnel, DialOuter, DialInner, DialFails, Settle, SettleRefuses,
         Expose, BindFails, TunnelEnds, WatchRefuses, EndTunnel, Proceed, worldVars
  <2>1. CASE ~Accounted
    BY <2>0, <2>1, UnaccountedStep
  <2>2. CASE Accounted
    <3>0. ~Nested(Proto) /\ Proto = "wg" /\ set.outer = None
      BY <2>2 DEF Accounted, Nested
    <3>1. CASE Boot
      BY <2>0, <3>0, <3>1, QuietStep DEF Boot
    <3>2. CASE GiveUp
      BY <2>2, <3>2, SettleStep DEF Ledger!Next
    <3>3. CASE UseQuick
      <4>1. quick \in Endpoints /\ quick \notin Held
        BY <3>3 DEF UseQuick, IInv, LoopType, QuickInv, Maybe
      <4> QED BY <2>2, <3>3, <4>1, ChooseStep DEF UseQuick, Ledger!Next
    <3>4. CASE RetryLastGood
      <4>1. outer \in Endpoints /\ outer \notin Held
        BY <2>2, <3>4 DEF RetryLastGood, IInv, LoopType, AccountInv, Maybe
      <4> QED BY <2>2, <3>4, <4>1, ChooseStep DEF RetryLastGood, Ledger!Next
    <3>5. CASE ScanFinds
      <4> PICK e \in Endpoints : Found(e)
        BY <3>5 DEF ScanFinds
      <4>1. e \notin Held
        BY <3>0 DEF Found, Scanned, WgAnswers
      <4> QED BY <2>2, <4>1, ChooseStep DEF Found, Rescans, Ledger!Next
    <3>6. CASE ScanFindsNothing
      BY <2>0, <3>6, QuietStep DEF ScanFindsNothing, Rescans, TryLater, loopVars
    <3>7. CASE SaveLastConnection
      BY <2>0, <3>7, QuietStep DEF SaveLastConnection, loopVars
    <3>8. CASE DialOuter \/ DialInner \/ Settle
      BY <2>0, <3>8, QuietStep DEF DialOuter, DialInner, Settle, Proceed, loopVars
    <3>9. CASE Expose
      BY <2>2, <3>9, OpenStep DEF Ledger!Next
    <3>10. CASE DialFails \/ SettleRefuses \/ BindFails \/ TunnelEnds \/ WatchRefuses
      BY <2>2, <3>10, StrikeStep
         DEF DialFails, SettleRefuses, BindFails, TunnelEnds, WatchRefuses, Ledger!Next
    <3>11. ~UseForced /\ ~PickPair /\ ~PickOuter /\ ~PairIncomplete
      BY <3>0 DEF UseForced, PickPair, PickOuter, PairIncomplete
    <3> QED BY <1>3, <3>1, <3>2, <3>3, <3>4, <3>5, <3>6, <3>7, <3>8, <3>9, <3>10, <3>11
            DEF Pick, Tunnel
  <2> QED BY <2>1, <2>2
<1> QED BY <1>1, <1>2, <1>3 DEF Next

\* One counter, last_good and the cooldown map of run_wireguard keep the promise
\* of EndpointLedger, through crashes and restarts with other settings.
THEOREM KeepsLedgerHolds == Spec => KeepsLedger
<1> QED BY LedgerInit, LedgerNext, Inductive, PTL DEF Spec, KeepsLedger, Ledger!Spec
=============================================================================
