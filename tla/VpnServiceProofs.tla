-------------------------- MODULE VpnServiceProofs --------------------------
(***************************************************************************)
(* Machine-checked proofs about VpnService, for any number of connects and *)
(* teardowns, any profiles, ladders and numbers of retries, hurried users  *)
(* and revocations included.                                               *)
(***************************************************************************)
EXTENDS VpnService, WellFoundedInduction, TLAPS

-----------------------------------------------------------------------------
(* The inductive invariant, part by part.                                  *)

RunLabels == Labels \ {"none", "idle", "arm", "join", "scope"}
Teardowns == {"stop", "lockdown"}
Returns   == {"joinRun", "rung", "awaitClosed", "nextRung", "done"}

\* The parts of TypeOK that are about jobs and service, and about numbers.
Kinds ==
    /\ job \in [Threads -> [kind : {"none", "main", "run", "stop", "lockdown"},
                           prof : Profiles \cup {NoProfile},
                           run : Threads, stop : Threads]]
    /\ pc \in [Threads -> Labels] /\ resume \in [Threads -> Labels]
    /\ cancelled \in [Threads -> BOOLEAN]
    /\ lastProfile \in Profiles \cup {NoProfile}
    /\ lockdownTunActive \in BOOLEAN
    /\ ui \in States /\ destroy \in {"no", "asked", "running", "done"}
    /\ tun \in {"none", "tunnel", "lockdown"}
    /\ forwarding \in BOOLEAN /\ stage2 \in BOOLEAN
    /\ proven \in [Jobs -> BOOLEAN] /\ wasUp \in [Jobs -> BOOLEAN]
    /\ calm \in BOOLEAN

Counts ==
    /\ launched \in 0 .. MaxJobs
    /\ runJob \in 0 .. launched /\ stopJob \in 0 .. launched
    /\ rung \in [Jobs -> 1 .. Rungs] /\ attempt \in [Jobs -> 0 .. MaxRetries]
    /\ proc \in [Jobs -> Procs \cup {NoProc}]
    /\ probeFailures \in 0 .. WATCHDOG_FAIL_CYCLES - 1
    /\ engine \in Procs \cup {NoProc}
    /\ alive \subseteq Procs /\ listening \in alive \cup {NoProc}
    /\ late \in [Jobs -> Nat] /\ restarts \in [Jobs -> 0 .. MaxRetries + 1]

\* Which code a job runs: its labels, and where its cleanup returns to.
LabelsOf(j) ==
    /\ (job[j].kind = "none") <=> j > launched
    /\ job[j].kind # "main"
    /\ job[j].kind = "none" => pc[j] = "none"
    /\ IsRun(j) => /\ pc[j] \in RunLabels /\ job[j].prof \in Profiles
                   /\ pc[j] \in {"kill", "drop"} => resume[j] \in Returns
    /\ job[j].kind = "stop" => /\ pc[j] \in {"new", "kill", "drop", "idle", "join", "done"}
                               /\ pc[j] \in {"kill", "drop"} => resume[j] = "idle"
    /\ job[j].kind = "lockdown" => /\ pc[j] \in {"new", "kill", "drop", "arm", "join", "done"}
                                   /\ pc[j] \in {"kill", "drop"} => resume[j] = "arm"

\* The main thread cleans up in onDestroy only.
MainInv ==
    /\ job[MainThread].kind = "main"
    /\ pc[MainThread] \in {"none", "kill", "drop", "scope", "done"}
    /\ pc[MainThread] \in {"kill", "drop"} => resume[MainThread] = "scope"
    /\ pc[MainThread] \in {"kill", "drop", "scope"} => destroy = "running"
    /\ pc[MainThread] = "done" => destroy = "done"

\* What a job joins: an older session, an older teardown.
LinksOf(j) ==
    /\ job[j].run # NoJob => job[j].run < j /\ IsRun(job[j].run)
    /\ job[j].stop # NoJob => job[j].stop < j /\ job[job[j].stop].kind \in Teardowns
    /\ job[j].kind \in Teardowns /\ job[j].run # NoJob => cancelled[job[j].run]
    /\ IsRun(j) /\ pc[j] \notin {"new", "done"} /\ job[j].run # NoJob
         => cancelled[job[j].run]

\* The jobs the service knows.  A teardown takes the session out of runJob, so
\* the current session and the one it replaces are newer than the last teardown,
\* and nobody replaces or tears down the current session yet.
FieldInv ==
    /\ runJob # NoJob => IsRun(runJob) /\ job[runJob].stop = stopJob
    /\ stopJob # NoJob => job[stopJob].kind \in Teardowns
    /\ runJob # NoJob => \A j \in Jobs : job[j].run # runJob
    /\ runJob # NoJob /\ job[runJob].run # NoJob
         => job[job[runJob].run].stop = stopJob

\* Who is cancelled: the current session not before onDestroy, a teardown only
\* with the scope.
CancelInv ==
    /\ runJob # NoJob /\ destroy \in {"no", "asked"} => ~cancelled[runJob]
    /\ runJob # NoJob /\ destroy \in {"running", "done"} => cancelled[runJob]
    /\ destroy = "done" => \A j \in Jobs : cancelled[j]
    /\ \A j \in Jobs : ~IsRun(j) /\ cancelled[j] => destroy = "done"

\* The session has come through both joins.
Joined(j) == pc[j] = "flow" \/ InFlow(j) \/ (pc[j] = "done" /\ ~cancelled[j])

JoinInv ==
    /\ \A j \in Jobs : IsRun(j) /\ (pc[j] = "joinStop" \/ Joined(j)) => Done(job[j].run)
    /\ \A j \in Jobs : IsRun(j) /\ Joined(j) => Done(job[j].stop)
    /\ \A j \in Jobs : IsRun(j) /\ Joined(j) /\ job[j].stop # NoJob
                         => Done(job[job[j].stop].run)
    /\ \A j \in Jobs : job[j].kind \in Teardowns /\ pc[j] = "done" /\ ~cancelled[j]
                         => Done(job[j].run)

\* Under calm: which sessions and teardowns are still there.
Leftovers ==
    /\ \A j \in Jobs : IsRun(j) /\ ~Done(j) /\ j # runJob
         => \/ runJob # NoJob /\ j = job[runJob].run
            \/ stopJob # NoJob /\ j = job[stopJob].run
    /\ \A j \in Jobs : IsRun(j) /\ ~Done(j) /\ ~InFlow(j) => j = runJob
    /\ \A j \in Jobs : job[j].kind \in Teardowns /\ ~Done(j) => j = stopJob
    /\ destroy # "no" /\ runJob # NoJob => Done(job[runJob].run)

CalmInv == calm => Leftovers

\* What a session that has not been cancelled finds in the fields, label by label.
Owns(j) ==
    /\ pc[j] \in HasEngine => engine = proc[j]
    /\ pc[j] \in {"awaitClosed", "spawn", "assign"} \cup (HasEngine \ HasTun)
         => tun = "none"
    /\ pc[j] \in HasTun \cup {"reassign"} => (tun = "tunnel") = ~job[j].prof.proxy
    /\ pc[j] \in (HasTun \cup {"reassign"}) \ {"forward"} => forwarding
    /\ pc[j] \in HasTun \cup {"reassign", "transport", "expose"} /\ ModeOf(j) # "plain"
         => stage2

OwnInv == calm => \A j \in Jobs : IsRun(j) /\ ~cancelled[j] => Owns(j)

\* A self-test that passed, and what the state shows of it.
TestedInv == \A j \in Jobs : pc[j] = "connected" => proven[j]

ShownInv ==
    /\ calm /\ ui = "Connected" /\ runJob # NoJob
    /\ InFlow(runJob) /\ ~cancelled[runJob]
    => /\ pc[runJob] \in {"watch", "awaitExit", "watchExternal", "error"}
       /\ proven[runJob] /\ engine = proc[runJob]

\* An engine launched after the cancel is the last one.
LateInv ==
    \A j \in Jobs : late[j] # 0 =>
        /\ late[j] = 1 /\ cancelled[j]
        /\ pc[j] \notin {"awaitClosed", "spawn", "respawn"}
        /\ pc[j] \in {"kill", "drop"} => resume[j] # "awaitClosed"

JobInv  == MainInv /\ \A j \in Jobs : LabelsOf(j) /\ LinksOf(j)
SessInv == JobInv /\ FieldInv /\ CancelInv /\ JoinInv /\ CalmInv
IInv == Kinds /\ Counts /\ SessInv /\ OwnInv /\ TestedInv /\ ShownInv /\ LateInv

-----------------------------------------------------------------------------
(* Numbers, threads and what primes leave alone.                           *)

LEMMA Threads0 ==
    /\ MaxJobs \in Nat /\ NoJob \in Threads /\ MainThread \in Threads /\ NoJob \notin Jobs
    /\ \A j \in Jobs : j \in Threads /\ j \in Nat /\ j # NoJob /\ j # MainThread
    /\ \A j \in Threads : j \in Nat /\ (j = NoJob \/ j \in Jobs)
BY VpnAssumption DEF Jobs, Threads, NoJob, MainThread

\* The jobs of the fields and of the joins are jobs or nobody.
LEMMA Known ==
    ASSUME Kinds, Counts
    PROVE  /\ runJob \in Threads /\ stopJob \in Threads
           /\ \A j \in Threads : job[j].run \in Threads /\ job[j].stop \in Threads
           /\ \A j \in Threads : job[j].kind \in {"none", "main", "run", "stop", "lockdown"}
           /\ \A j \in Threads : cancelled[j] \in BOOLEAN
           /\ \A j \in Threads : pc[j] \in Labels /\ resume[j] \in Labels
<1>1. runJob \in Threads /\ stopJob \in Threads
  BY VpnAssumption DEF Counts, Threads
<1>2. job \in [Threads -> [kind : {"none", "main", "run", "stop", "lockdown"},
                           prof : Profiles \cup {NoProfile},
                           run : Threads, stop : Threads]]
  BY DEF Kinds
<1>3. \A j \in Threads : /\ job[j].run \in Threads /\ job[j].stop \in Threads
                         /\ job[j].kind \in {"none", "main", "run", "stop", "lockdown"}
  BY <1>2
<1>4. \A j \in Threads : /\ cancelled[j] \in BOOLEAN
                         /\ pc[j] \in Labels /\ resume[j] \in Labels
  BY DEF Kinds
<1> QED BY <1>1, <1>3, <1>4

-----------------------------------------------------------------------------
(* One thread moves, and nobody is launched or cancelled: what has to be   *)
(* seen of that thread alone.                                              *)

\* The destruction of the service is asked for when the current session waits
\* for nobody but the teardown.
Asks == /\ destroy = "no" /\ destroy' = "asked"
        /\ calm /\ runJob # NoJob => Done(job[runJob].run)

MoveOK(t) ==
    /\ t \in Jobs => LabelsOf(t)'
    /\ t = MainThread => MainInv'
    /\ t \in Jobs /\ IsRun(t) =>
         /\ Joined(t)' => \/ Joined(t)
                          \/ /\ Done(job[t].run) /\ Done(job[t].stop)
                             /\ job[t].stop # NoJob => Done(job[job[t].stop].run)
         /\ pc'[t] = "joinStop" => Done(job[t].run)
         /\ pc'[t] \notin {"new", "done"} => pc[t] # "new" \/ job[t].run = NoJob
         /\ InFlow(t) => InFlow(t)' \/ Done(t)'
    /\ t \in Jobs /\ job[t].kind \in Teardowns /\ pc'[t] = "done" /\ ~cancelled[t]
         => Done(job[t].run)

LEMMA MoveKeeps ==
    ASSUME Kinds, Counts, SessInv, NEW t \in Threads, NEW l, NEW q, pc[t] # "done",
           UNCHANGED <<launchVars, cancelled>>, destroy' = destroy \/ Asks,
           pc' = [pc EXCEPT ![t] = l], resume' = [resume EXCEPT ![t] = q],
           MoveOK(t)
    PROVE  SessInv'
<1>0. /\ job' = job /\ launched' = launched /\ runJob' = runJob /\ stopJob' = stopJob
      /\ calm' = calm /\ cancelled' = cancelled
  BY DEF launchVars
<1>1. /\ \A k \in Threads \ {t} : pc'[k] = pc[k] /\ resume'[k] = resume[k]
      /\ \A k \in Threads : Done(k) => Done(k)'
      /\ \A k \in Threads \ {t} : Done(k)' => Done(k)
      /\ \A k \in Threads \ {t} : InFlow(k)' <=> InFlow(k)
      /\ \A k \in Threads \ {t} : Joined(k)' <=> Joined(k)
  BY <1>0 DEF Kinds, Done, InFlow, IsRun, Joined
<1>2. /\ \A k \in Threads : IsRun(k)' <=> IsRun(k)
      /\ \A k \in Threads : Done(job[k].run) => Done(job[k].run)'
      /\ \A k \in Threads : Done(job[k].stop) => Done(job[k].stop)'
      /\ \A k \in Threads : Done(job[job[k].stop].run) => Done(job[job[k].stop].run)'
  BY <1>0, <1>1, Known DEF IsRun, Done
<1> HIDE DEF Done, InFlow, Joined
<1>3. JobInv'
  <2>1. MainInv'
    <3>1. CASE t = MainThread
      BY <3>1 DEF MoveOK
    <3>2. CASE t # MainThread
      BY <1>0, <1>1, <3>2, Threads0 DEF MainInv, SessInv, JobInv, Asks
    <3> QED BY <3>1, <3>2
  <2>2. ASSUME NEW k \in Jobs PROVE LabelsOf(k)'
    <3>1. CASE k = t
      BY <3>1 DEF MoveOK
    <3>2. CASE k # t
      BY <1>0, <1>1, <3>2, Threads0 DEF LabelsOf, IsRun, SessInv, JobInv
    <3> QED BY <3>1, <3>2
  <2>3. ASSUME NEW k \in Jobs PROVE LinksOf(k)'
    <3>1. LinksOf(k)
      BY DEF SessInv, JobInv
    <3>2. IsRun(k) /\ pc'[k] \notin {"new", "done"} /\ job[k].run # NoJob
             => cancelled[job[k].run]
      <4>1. CASE k = t
        BY <3>1, <4>1 DEF LinksOf, MoveOK
      <4>2. CASE k # t
        BY <1>1, <3>1, <4>2, Threads0 DEF LinksOf
      <4> QED BY <4>1, <4>2
    <3> QED BY <1>0, <3>1, <3>2 DEF LinksOf, IsRun
  <2> QED BY <2>1, <2>2, <2>3 DEF JobInv
<1>4. FieldInv'
  BY <1>0 DEF SessInv, FieldInv, IsRun
<1>5. CancelInv'
  BY <1>0, <1>2, Threads0 DEF SessInv, CancelInv, Asks
<1>6. JoinInv'
  <2>1. ASSUME NEW k \in Jobs, IsRun(k), pc'[k] = "joinStop" \/ Joined(k)'
        PROVE  Done(job[k].run)
    BY <1>1, <2>1, Threads0 DEF MoveOK, SessInv, JoinInv
  <2>2. ASSUME NEW k \in Jobs, IsRun(k), Joined(k)'
        PROVE  Done(job[k].stop) /\ (job[k].stop # NoJob => Done(job[job[k].stop].run))
    BY <1>1, <2>2, Threads0 DEF MoveOK, SessInv, JoinInv
  <2>3. ASSUME NEW k \in Jobs, job[k].kind \in Teardowns, pc'[k] = "done", ~cancelled[k]
        PROVE  Done(job[k].run)
    BY <1>1, <2>3, Threads0 DEF MoveOK, SessInv, JoinInv
  <2> QED BY <1>0, <1>2, <2>1, <2>2, <2>3, Threads0 DEF JoinInv
<1>7. CalmInv'
  <2> SUFFICES ASSUME calm PROVE Leftovers'
    BY <1>0 DEF CalmInv
  <2>1. ASSUME NEW k \in Jobs, IsRun(k), ~Done(k)', k # runJob
        PROVE  \/ runJob # NoJob /\ k = job[runJob].run
               \/ stopJob # NoJob /\ k = job[stopJob].run
    BY <1>1, <2>1, Threads0 DEF SessInv, CalmInv, Leftovers
  <2>2. ASSUME NEW k \in Jobs, IsRun(k), ~Done(k)', ~InFlow(k)' PROVE k = runJob
    BY <1>1, <2>2, Threads0 DEF SessInv, CalmInv, Leftovers, MoveOK
  <2>3. ASSUME NEW k \in Jobs, job[k].kind \in Teardowns, ~Done(k)' PROVE k = stopJob
    BY <1>1, <2>3, Threads0 DEF SessInv, CalmInv, Leftovers
  <2>4. destroy' # "no" /\ runJob # NoJob => Done(job[runJob].run)'
    BY <1>0, <1>1, Known DEF SessInv, CalmInv, Leftovers, Asks
  <2> QED BY <1>0, <1>2, <2>1, <2>2, <2>3, <2>4, Threads0 DEF Leftovers
<1> QED BY <1>3, <1>4, <1>5, <1>6, <1>7 DEF SessInv

-----------------------------------------------------------------------------
(* The steps that launch or cancel.                                        *)

\* No session that is replaced or torn down in calm leaves one behind it.
LEMMA SettledIsAlone ==
    ASSUME Kinds, Counts, SessInv, calm, Settled, runJob # NoJob, ~cancelled[runJob],
           NEW j \in Jobs, IsRun(j), ~Done(j), j # runJob
    PROVE  FALSE
<1>1. /\ runJob \in Jobs /\ IsRun(runJob) /\ job[runJob].stop = stopJob
  BY Threads0, Known DEF SessInv, FieldInv
<1>2. Joined(runJob)
  BY <1>1 DEF Settled, Joined, Done
<1>3. /\ Done(job[runJob].run)
      /\ stopJob # NoJob => Done(job[stopJob].run)
  BY <1>1, <1>2 DEF SessInv, JoinInv
<1> QED BY <1>3 DEF SessInv, CalmInv, Leftovers

\* Nor does a teardown that is over.
LEMMA TornDownIsAlone ==
    ASSUME Kinds, Counts, SessInv, calm, TornDown, stopJob # NoJob, destroy # "done"
    PROVE  Done(job[stopJob].run)
<1>1. stopJob \in Jobs /\ job[stopJob].kind \in Teardowns
  BY Threads0, Known DEF SessInv, FieldInv
<1>2. pc[stopJob] = "done" /\ ~cancelled[stopJob]
  BY <1>1 DEF TornDown, Done, SessInv, CancelInv, IsRun, Teardowns
<1> QED BY <1>1, <1>2 DEF SessInv, JoinInv

\* What scope.launch does to the table of jobs.
LEMMA LaunchFacts ==
    ASSUME Kinds, Counts, JobInv, NEW kind \in {"run", "stop", "lockdown"}, NEW p,
           NEW r, NEW s, Launch(kind, p, r, s)
    PROVE  /\ launched + 1 \in Jobs /\ launched' = launched + 1
           /\ job[launched + 1].kind = "none" /\ pc[launched + 1] = "none"
           /\ job'[launched + 1] = [kind |-> kind, prof |-> p, run |-> r, stop |-> s]
           /\ \A j \in Threads \ {launched + 1} : job'[j] = job[j]
           /\ \A j \in Jobs : job[j].kind # "none" => j # launched + 1 /\ j <= launched
           /\ \A j \in Jobs : (j > launched + 1) <=> (j > launched /\ j # launched + 1)
<1>1. launched + 1 \in Jobs /\ launched' = launched + 1 /\ launched \in Nat
  BY VpnAssumption DEF Counts, Launch, Jobs
<1>2. job[launched + 1].kind = "none" /\ pc[launched + 1] = "none"
  BY <1>1 DEF JobInv, LabelsOf
<1>3. /\ job'[launched + 1] = [kind |-> kind, prof |-> p, run |-> r, stop |-> s]
      /\ \A j \in Threads \ {launched + 1} : job'[j] = job[j]
  BY <1>1, Threads0 DEF Launch, Kinds
<1>4. \A j \in Jobs : job[j].kind # "none" => j # launched + 1 /\ j <= launched
  BY <1>1, <1>2, Threads0 DEF JobInv, LabelsOf
<1>5. \A j \in Jobs : (j > launched + 1) <=> (j > launched /\ j # launched + 1)
  BY <1>1, Threads0
<1> QED BY <1>1, <1>2, <1>3, <1>4, <1>5

\* Nobody joins a job that has not been launched.
LEMMA OldLinks ==
    ASSUME Kinds, Counts, JobInv, FieldInv, NEW n \in Jobs, job[n].kind = "none"
    PROVE  /\ runJob \in Threads \ {n} /\ stopJob \in Threads \ {n}
           /\ runJob # NoJob => runJob \in Jobs
           /\ stopJob # NoJob => stopJob \in Jobs
           /\ \A j \in Jobs :
                /\ job[j].run \in Threads \ {n} /\ job[j].stop \in Threads \ {n}
                /\ job[j].run # NoJob => job[j].run \in Jobs
                /\ job[j].stop # NoJob => /\ job[j].stop \in Jobs
                                          /\ job[job[j].stop].run \in Threads \ {n}
<1>1. /\ runJob \in Threads \ {n} /\ stopJob \in Threads \ {n}
      /\ runJob # NoJob => runJob \in Jobs
      /\ stopJob # NoJob => stopJob \in Jobs
  BY Known, Threads0 DEF FieldInv, IsRun, Teardowns
<1>2. ASSUME NEW j \in Jobs
      PROVE  /\ job[j].run \in Threads \ {n} /\ job[j].stop \in Threads \ {n}
             /\ job[j].run # NoJob => job[j].run \in Jobs
             /\ job[j].stop # NoJob => job[j].stop \in Jobs
  <2>1. /\ job[j].run # NoJob => IsRun(job[j].run)
        /\ job[j].stop # NoJob => job[job[j].stop].kind \in Teardowns
    BY DEF JobInv, LinksOf
  <2> QED BY <2>1, Known, Threads0 DEF IsRun, Teardowns
<1> QED BY <1>1, <1>2

LEMMA StartKeeps ==
    ASSUME Kinds, Counts, SessInv, NEW p \in Profiles, startTunnel(p)
    PROVE  SessInv'
<1>0. /\ Listening /\ Launch("run", p, runJob, stopJob) /\ pc' = [pc EXCEPT ![launched + 1] = "new"]
      /\ runJob' = launched + 1 /\ calm' = (calm /\ Settled) /\ stopJob' = stopJob
      /\ resume' = resume /\ cancelled' = cancelled /\ destroy' = destroy /\ destroy = "no"
  BY DEF startTunnel, fieldVars, Goto, Listening
<1> PICK n \in Jobs : n = launched + 1
  BY <1>0, LaunchFacts DEF SessInv
<1>1. /\ launched' = n /\ job[n].kind = "none" /\ pc[n] = "none" /\ runJob' = n
      /\ job'[n] = [kind |-> "run", prof |-> p, run |-> runJob, stop |-> stopJob]
      /\ \A j \in Threads \ {n} : job'[j] = job[j]
      /\ \A j \in Jobs : job[j].kind # "none" => j # n /\ j < n
      /\ \A j \in Jobs : (j > n) <=> (j > launched /\ j # n)
  BY <1>0, LaunchFacts DEF SessInv, Counts
<1>2. /\ IsRun(n)' /\ job'[n].run = runJob /\ job'[n].stop = stopJob /\ job'[n].prof = p
      /\ job'[n].kind = "run" /\ pc'[n] = "new" /\ n # NoJob /\ n # MainThread
  BY <1>0, <1>1, Threads0 DEF IsRun, Kinds
<1>a. ~Done(n)' /\ ~InFlow(n)' /\ ~Joined(n)'
  BY <1>2 DEF Done, InFlow, Joined
<1>3. /\ \A j \in Threads \ {n} : pc'[j] = pc[j]
      /\ \A j \in Threads \ {n} : IsRun(j)' <=> IsRun(j)
      /\ \A j \in Threads \ {n} : InFlow(j)' <=> InFlow(j)
      /\ \A j \in Threads \ {n} : Joined(j)' <=> Joined(j)
      /\ \A j \in Threads \ {n} : Done(j)' <=> Done(j)
  BY <1>0, <1>1 DEF IsRun, Done, Kinds, InFlow, Joined
<1>4. /\ runJob \in Threads \ {n} /\ stopJob \in Threads \ {n}
      /\ runJob # NoJob => runJob \in Jobs
      /\ stopJob # NoJob => stopJob \in Jobs
      /\ \A j \in Jobs :
           /\ job[j].run \in Threads \ {n} /\ job[j].stop \in Threads \ {n}
           /\ job[j].run # NoJob => job[j].run \in Jobs
           /\ job[j].stop # NoJob => /\ job[j].stop \in Jobs
                                     /\ job[job[j].stop].run \in Threads \ {n}
  BY <1>1, OldLinks DEF SessInv
<1>5. /\ runJob # NoJob => IsRun(runJob) /\ job[runJob].stop = stopJob
      /\ stopJob # NoJob => job[stopJob].kind \in Teardowns
      /\ runJob # NoJob => ~cancelled[runJob]
  BY <1>0 DEF SessInv, FieldInv, CancelInv
<1>6. JobInv'
  <2>1. MainInv'
    BY <1>0, <1>1, <1>2, <1>3, Threads0 DEF SessInv, JobInv, MainInv
  <2>2. ASSUME NEW j \in Jobs PROVE LabelsOf(j)'
    <3>1. CASE j = n
      BY <1>1, <1>2, <3>1 DEF LabelsOf, RunLabels, Labels
    <3>2. CASE j # n
      BY <1>0, <1>1, <1>3, <3>2, Threads0 DEF SessInv, JobInv, LabelsOf, IsRun
    <3> QED BY <3>1, <3>2
  <2>3. ASSUME NEW j \in Jobs PROVE LinksOf(j)'
    <3>1. CASE j = n
      <4>1. runJob # NoJob => runJob < n
        BY <1>1, <1>4, <1>5 DEF IsRun
      <4>2. stopJob # NoJob => stopJob < n
        BY <1>1, <1>4, <1>5 DEF Teardowns
      <4> QED BY <1>0, <1>1, <1>2, <1>3, <1>4, <1>5, <3>1, <4>1, <4>2 DEF LinksOf, Teardowns
    <3>2. CASE j # n
      BY <1>0, <1>1, <1>3, <1>4, <3>2, Threads0 DEF SessInv, JobInv, LinksOf
    <3> QED BY <3>1, <3>2
  <2> QED BY <2>1, <2>2, <2>3 DEF JobInv
<1>7. FieldInv'
  <2>1. \A j \in Jobs : job'[j].run # n
    BY <1>1, <1>2, <1>4, Threads0
  <2> QED BY <1>0, <1>1, <1>2, <1>4, <1>5, <2>1 DEF FieldInv
<1>8. CancelInv'
  <2>1. ~cancelled[n]
    BY <1>0, <1>1 DEF SessInv, CancelInv, IsRun
  <2> QED BY <1>0, <1>2, <1>3, <2>1, Threads0 DEF SessInv, CancelInv
<1>9. JoinInv'
  <2>1. ASSUME NEW j \in Jobs, j # n
        PROVE  /\ job'[j] = job[j] /\ pc'[j] = pc[j] /\ (IsRun(j)' <=> IsRun(j))
               /\ Done(job[j].run) => Done(job[j].run)'
               /\ Done(job[j].stop) => Done(job[j].stop)'
               /\ job[j].stop # NoJob /\ Done(job[job[j].stop].run)
                    => Done(job[job[j].stop].run)'
    BY <1>1, <1>3, <1>4, <2>1, Threads0 DEF Done
  <2> QED BY <1>0, <1>2, <1>a, <1>3, <2>1, Threads0 DEF SessInv, JoinInv, Teardowns
<1>10. CalmInv'
  <2> SUFFICES ASSUME calm, Settled PROVE Leftovers'
    BY <1>0 DEF CalmInv
  <2>1. ASSUME NEW j \in Jobs, j # n, IsRun(j), ~Done(j)
        PROVE  \/ j = runJob /\ InFlow(j)
               \/ stopJob # NoJob /\ j = job[stopJob].run /\ InFlow(j)
    <3>1. CASE j = runJob
      BY <2>1, <3>1, Threads0 DEF Settled
    <3>2. CASE j # runJob
      <4>1. runJob = NoJob
        BY <1>5, <2>1, <3>2, SettledIsAlone
      <4> QED BY <2>1, <3>2, <4>1 DEF SessInv, CalmInv, Leftovers
    <3> QED BY <3>1, <3>2
  <2>2. stopJob # NoJob => job'[stopJob] = job[stopJob]
    BY <1>1, <1>4
  <2>3. ASSUME NEW j \in Jobs, job'[j].kind \in Teardowns, ~Done(j)' PROVE j = stopJob
    BY <1>1, <1>2, <1>3, <2>3, Threads0 DEF SessInv, CalmInv, Leftovers, Teardowns
  <2> QED BY <1>0, <1>1, <1>2, <1>3, <2>1, <2>2, <2>3, Threads0 DEF Leftovers
<1> QED BY <1>6, <1>7, <1>8, <1>9, <1>10 DEF SessInv

\* A teardown is launched: by a command, or by a session that gives up and ends.
LEMMA TeardownKeeps ==
    ASSUME Kinds, Counts, SessInv, NEW kind \in Teardowns, NEW p, LaunchTeardown(kind, p),
           resume' = resume, pc' \in [Threads -> Labels], pc'[launched + 1] = "new",
           \A k \in Threads : k # launched + 1 =>
                pc'[k] = pc[k] \/ (k \in Jobs /\ pc'[k] = "done" /\ InFlow(k)),
           destroy' = destroy \/ (destroy = "no" /\ destroy' = "asked"),
           destroy # "done", runJob # NoJob => ~cancelled[runJob]
    PROVE  SessInv'
<1>0. /\ Launch(kind, p, runJob, NoJob) /\ stopJob' = launched + 1 /\ runJob' = NoJob
      /\ cancelled' = [j \in Threads |-> cancelled[j] \/ (j # NoJob /\ j = runJob)]
      /\ calm' = (calm /\ Settled /\ TornDown)
  BY DEF LaunchTeardown
<1> PICK n \in Jobs : n = launched + 1
  BY <1>0, LaunchFacts DEF SessInv, Teardowns
<1>1. /\ launched' = n /\ job[n].kind = "none" /\ pc[n] = "none" /\ stopJob' = n
      /\ job'[n] = [kind |-> kind, prof |-> p, run |-> runJob, stop |-> NoJob]
      /\ \A j \in Threads \ {n} : job'[j] = job[j]
      /\ \A j \in Jobs : job[j].kind # "none" => j # n /\ j < n
      /\ \A j \in Jobs : (j > n) <=> (j > launched /\ j # n)
  BY <1>0, LaunchFacts DEF SessInv, Counts, Teardowns
<1>2. /\ ~IsRun(n)' /\ job'[n].run = runJob /\ job'[n].stop = NoJob /\ job'[n].kind = kind
      /\ pc'[n] = "new" /\ n # NoJob /\ n # MainThread /\ ~Done(n)'
  BY <1>0, <1>1, Threads0 DEF IsRun, Teardowns, Done
<1>3. /\ \A j \in Jobs \ {n} : (IsRun(j)' <=> IsRun(j)) /\ job'[j] = job[j]
      /\ \A j \in Threads : cancelled[j] => cancelled'[j]
      /\ \A j \in Threads \ {runJob} : cancelled'[j] = cancelled[j]
      /\ runJob # NoJob => cancelled'[runJob]
      /\ cancelled'[n] = cancelled[n] \/ runJob = n
  BY <1>0, <1>1, Known, Threads0 DEF IsRun
<1>4. /\ \A j \in Threads \ {n} : Done(j) => Done(j)'
      /\ \A j \in Jobs \ {n} : InFlow(j)' => InFlow(j)
      /\ \A j \in Jobs \ {n} : InFlow(j) => InFlow(j)' \/ Done(j)'
      /\ \A j \in Jobs \ {n} : Joined(j)' => Joined(j)
      /\ \A j \in Jobs \ {n} : pc'[j] # "done" => pc'[j] = pc[j]
      /\ pc'[MainThread] = pc[MainThread] /\ job'[MainThread] = job[MainThread]
  <2>1. \A j \in Threads \ {n} : Done(j) => Done(j)'
    BY DEF Done
  <2>2. \A j \in Jobs \ {n} : /\ InFlow(j)' => InFlow(j)
                              /\ InFlow(j) => InFlow(j)' \/ Done(j)'
    BY <1>3, Threads0 DEF InFlow, Done
  <2>3. \A j \in Jobs \ {n} : Joined(j)' => Joined(j)
    BY <1>3, <2>2, Threads0 DEF Joined
  <2> QED BY <1>1, <1>2, <2>1, <2>2, <2>3, Threads0
<1>5. /\ runJob \in Threads \ {n} /\ stopJob \in Threads \ {n}
      /\ runJob # NoJob => runJob \in Jobs
      /\ stopJob # NoJob => stopJob \in Jobs
      /\ \A j \in Jobs :
           /\ job[j].run \in Threads \ {n} /\ job[j].stop \in Threads \ {n}
           /\ job[j].run # NoJob => job[j].run \in Jobs
           /\ job[j].stop # NoJob => /\ job[j].stop \in Jobs
                                     /\ job[job[j].stop].run \in Threads \ {n}
  BY <1>1, OldLinks DEF SessInv
<1>6. runJob # NoJob => IsRun(runJob)
  BY DEF SessInv, FieldInv
<1>7. JobInv'
  <2>1. MainInv'
    BY <1>4 DEF SessInv, JobInv, MainInv
  <2>2. ASSUME NEW j \in Jobs PROVE LabelsOf(j)'
    <3>1. CASE j = n
      BY <1>1, <1>2, <3>1 DEF LabelsOf, Teardowns
    <3>2. CASE j # n
      <4>1. CASE pc'[j] = pc[j]
        BY <1>1, <1>3, <3>2, <4>1, Threads0 DEF SessInv, JobInv, LabelsOf
      <4>2. CASE pc'[j] = "done" /\ InFlow(j)
        BY <1>1, <1>3, <3>2, <4>2, Threads0 DEF SessInv, JobInv, LabelsOf, InFlow, IsRun,
             RunLabels, Labels
      <4> QED BY <3>2, <4>1, <4>2, Threads0
    <3> QED BY <3>1, <3>2
  <2>3. ASSUME NEW j \in Jobs PROVE LinksOf(j)'
    <3>1. CASE j = n
      <4>1. runJob # NoJob => runJob < n
        BY <1>1, <1>5, <1>6 DEF IsRun
      <4> QED BY <1>1, <1>2, <1>3, <1>5, <1>6, <3>1, <4>1 DEF LinksOf
    <3>2. CASE j # n
      <4>1. LinksOf(j)
        BY DEF SessInv, JobInv
      <4>2. /\ job[j].run # NoJob => IsRun(job[j].run)'
            /\ job[j].stop # NoJob => job'[job[j].stop] = job[job[j].stop]
        BY <1>3, <1>5, <3>2, <4>1 DEF LinksOf, IsRun
      <4>3. pc'[j] \notin {"new", "done"} => pc[j] \notin {"new", "done"}
        BY <1>4, <3>2
      <4> QED BY <1>3, <1>5, <3>2, <4>1, <4>2, <4>3 DEF LinksOf
    <3> QED BY <3>1, <3>2
  <2> QED BY <2>1, <2>2, <2>3 DEF JobInv
<1>8. FieldInv'
  BY <1>0, <1>1, <1>2 DEF FieldInv
<1>9. CancelInv'
  <2>1. ASSUME NEW j \in Jobs, ~IsRun(j)', cancelled'[j] PROVE FALSE
    <3>1. ~IsRun(j) /\ j # runJob
      BY <1>1, <1>3, <1>6, <2>1, Threads0 DEF IsRun
    <3> QED BY <1>3, <2>1, <3>1, Threads0 DEF SessInv, CancelInv
  <2> QED BY <1>0, <2>1 DEF CancelInv
<1>10. JoinInv'
  <2>1. ASSUME NEW j \in Jobs, j # n
        PROVE  /\ Done(job[j].run) => Done(job[j].run)'
               /\ Done(job[j].stop) => Done(job[j].stop)'
               /\ job[j].stop # NoJob /\ Done(job[job[j].stop].run)
                    => Done(job[job[j].stop].run)'
    BY <1>1, <1>4, <1>5, <2>1, Threads0 DEF Done
  <2>2. ASSUME NEW j \in Jobs, job'[j].kind \in Teardowns, pc'[j] = "done", ~cancelled'[j]
        PROVE  j # n /\ pc[j] = "done" /\ ~cancelled[j]
    BY <1>2, <1>3, <2>2, Threads0 DEF InFlow, IsRun, Teardowns
  <2> QED BY <1>2, <1>3, <1>4, <2>1, <2>2, Threads0 DEF SessInv, JoinInv
<1>11. CalmInv'
  <2> SUFFICES ASSUME calm, Settled, TornDown PROVE Leftovers'
    BY <1>0 DEF CalmInv
  <2>1. ASSUME NEW j \in Jobs, j # n, IsRun(j), ~Done(j) PROVE j = runJob /\ InFlow(j)
    <3>1. CASE j = runJob
      BY <2>1, <3>1, Threads0 DEF Settled
    <3>2. CASE j # runJob
      <4>1. runJob = NoJob
        BY <2>1, <3>2, SettledIsAlone
      <4>2. stopJob # NoJob /\ j = job[stopJob].run
        BY <2>1, <3>2, <4>1 DEF SessInv, CalmInv, Leftovers
      <4> QED BY <2>1, <4>2, TornDownIsAlone
    <3> QED BY <3>1, <3>2
  <2>2. ASSUME NEW j \in Jobs, j # n, job[j].kind \in Teardowns PROVE Done(j)
    BY <2>2 DEF SessInv, CalmInv, Leftovers, TornDown
  <2> QED BY <1>0, <1>1, <1>2, <1>3, <1>4, <2>1, <2>2, Threads0 DEF Leftovers
<1> QED BY <1>7, <1>8, <1>9, <1>10, <1>11 DEF SessInv

\* Somebody is cancelled, and nobody but the main thread or a new session moves.
LEMMA CancelKeepsJoins ==
    ASSUME Kinds, Counts, SessInv, UNCHANGED launchVars, NEW t \in Threads,
           pc[t] # "done", ~InFlow(t), pc[t] # "flow",
           pc' \in [Threads -> Labels], resume' \in [Threads -> Labels],
           \A k \in Threads \ {t} : pc'[k] = pc[k] /\ resume'[k] = resume[k],
           cancelled' \in [Threads -> BOOLEAN],
           \A k \in Threads : cancelled[k] => cancelled'[k],
           t \in Jobs => /\ ~Joined(t)' /\ ~InFlow(t)' /\ ~Done(t)'
                         /\ pc'[t] = "joinStop" => Done(job[t].run),
           destroy' # "no" => destroy # "no"
    PROVE  JoinInv' /\ CalmInv'
<1>0. /\ job' = job /\ runJob' = runJob /\ stopJob' = stopJob /\ calm' = calm
  BY DEF launchVars
<1>1. /\ \A k \in Threads : IsRun(k)' <=> IsRun(k)
      /\ \A k \in Threads : Done(k) => Done(k)'
      /\ \A k \in Jobs : Done(k)' => Done(k)
      /\ \A k \in Jobs : InFlow(k)' <=> InFlow(k)
      /\ \A k \in Jobs : Joined(k)' => Joined(k)
  <2>1. /\ \A k \in Threads : IsRun(k)' <=> IsRun(k)
        /\ \A k \in Threads : Done(k) => Done(k)'
        /\ \A k \in Jobs : Done(k)' => Done(k)
    BY <1>0, Threads0 DEF IsRun, Done
  <2>2. \A k \in Jobs : InFlow(k)' <=> InFlow(k)
    BY <2>1, Threads0 DEF InFlow
  <2> QED BY <2>1, <2>2, Threads0 DEF Joined
<1>2. /\ \A k \in Threads : Done(job[k].run) => Done(job[k].run)'
      /\ \A k \in Threads : Done(job[k].stop) => Done(job[k].stop)'
      /\ \A k \in Threads : Done(job[job[k].stop].run) => Done(job[job[k].stop].run)'
  BY <1>0, <1>1, Known DEF Done
<1>3. JoinInv'
  <2>1. ASSUME NEW k \in Jobs, IsRun(k), pc'[k] = "joinStop" \/ Joined(k)'
        PROVE  Done(job[k].run)
    BY <1>1, <2>1, Threads0 DEF SessInv, JoinInv
  <2>2. ASSUME NEW k \in Jobs, job[k].kind \in Teardowns, pc'[k] = "done", ~cancelled'[k]
        PROVE  Done(job[k].run)
    BY <1>1, <2>2, Threads0 DEF SessInv, JoinInv, Done
  <2> QED BY <1>0, <1>1, <1>2, <2>1, <2>2, Threads0 DEF SessInv, JoinInv
<1>4. CalmInv'
  BY <1>0, <1>1, <1>2, Known, Threads0 DEF SessInv, CalmInv, Leftovers
<1> QED BY <1>3, <1>4

\* The session takes over: the one it replaces is cancelled.
LEMMA TakeOverKeeps ==
    ASSUME Kinds, Counts, SessInv, NEW j \in Jobs, TakeOver(j)
    PROVE  SessInv'
<1> PICK old \in Threads : old = job[j].run
  BY Known, Threads0
<1>0. /\ IsRun(j) /\ pc[j] = "new" /\ ~cancelled[j] /\ UNCHANGED launchVars /\ destroy' = destroy
      /\ cancelled' = [cancelled EXCEPT ![old] = (old # NoJob) \/ @]
      /\ IF old = NoJob THEN pc' = [pc EXCEPT ![j] = "joinStop"] /\ UNCHANGED resume
         ELSE /\ pc' = [pc EXCEPT ![j] = "kill"] /\ resume' = [resume EXCEPT ![j] = "joinRun"]
  BY DEF TakeOver, Goto, Cleanup, fieldVars
<1>1. /\ job' = job /\ launched' = launched /\ runJob' = runJob /\ stopJob' = stopJob /\ calm' = calm
  BY <1>0 DEF launchVars
<1>2. /\ pc' \in [Threads -> Labels] /\ resume' \in [Threads -> Labels]
      /\ \A k \in Threads \ {j} : pc'[k] = pc[k] /\ resume'[k] = resume[k]
      /\ pc'[j] \in {"joinStop", "kill"} /\ (pc'[j] = "joinStop" => job[j].run = NoJob)
      /\ pc'[j] = "kill" => resume'[j] = "joinRun"
  <2>0. "joinStop" \in Labels /\ "kill" \in Labels /\ "joinRun" \in Labels
    BY DEF Labels
  <2>1. pc \in [Threads -> Labels] /\ resume \in [Threads -> Labels] /\ j \in Threads
    BY Threads0 DEF Kinds
  <2>2. CASE old = NoJob
    BY <1>0, <2>0, <2>1, <2>2
  <2>3. CASE old # NoJob
    BY <1>0, <2>0, <2>1, <2>3
  <2> QED BY <2>2, <2>3
<1>3. /\ \A k \in Threads : cancelled[k] => cancelled'[k]
      /\ \A k \in Threads : cancelled'[k] => cancelled[k] \/ (k = old /\ old # NoJob)
      /\ old # NoJob => cancelled'[old]
      /\ cancelled' \in [Threads -> BOOLEAN]
  <2>1. ((old # NoJob) \/ cancelled[old]) \in BOOLEAN
    BY Zenon
  <2> PICK b \in BOOLEAN : b = ((old # NoJob) \/ cancelled[old])
    BY <2>1, Zenon
  <2>2. cancelled' = [cancelled EXCEPT ![old] = b]
    BY <1>0
  <2> QED BY <2>2 DEF Kinds
<1>4. old # NoJob => old \in Jobs /\ old < j /\ IsRun(old)
  BY Threads0 DEF SessInv, JobInv, LinksOf
<1>5. JoinInv' /\ CalmInv'
  <2>1. ~InFlow(j) /\ pc[j] # "done" /\ pc[j] # "flow"
    BY <1>0 DEF InFlow
  <2>2. /\ ~Joined(j)' /\ ~InFlow(j)' /\ ~Done(j)'
        /\ pc'[j] = "joinStop" => Done(job[j].run)
    BY <1>2, Threads0 DEF InFlow, Joined, Done
  <2> QED BY <1>0, <1>2, <1>3, <2>1, <2>2, Threads0, CancelKeepsJoins
<1>6. JobInv'
  <2>1. MainInv'
    BY <1>0, <1>1, <1>2, Threads0 DEF SessInv, JobInv, MainInv
  <2>2. ASSUME NEW k \in Jobs PROVE LabelsOf(k)'
    <3>1. CASE k = j
      BY <1>0, <1>1, <1>2, <3>1 DEF SessInv, JobInv, LabelsOf, IsRun, RunLabels, Labels, Returns
    <3>2. CASE k # j
      BY <1>1, <1>2, <3>2, Threads0 DEF SessInv, JobInv, LabelsOf, IsRun
    <3> QED BY <3>1, <3>2
  <2>3. ASSUME NEW k \in Jobs PROVE LinksOf(k)'
    <3>1. LinksOf(k) /\ job[k].run \in Threads
      BY Known, Threads0 DEF SessInv, JobInv
    <3>2. CASE k = j
      BY <1>0, <1>1, <1>3, <1>4, <3>1, <3>2 DEF LinksOf, IsRun
    <3>3. CASE k # j
      BY <1>1, <1>2, <1>3, <3>1, <3>3, Threads0 DEF LinksOf, IsRun
    <3> QED BY <3>2, <3>3
  <2> QED BY <2>1, <2>2, <2>3 DEF JobInv
<1>7. FieldInv'
  BY <1>1 DEF SessInv, FieldInv, IsRun
<1>8. CancelInv'
  <2>1. runJob # NoJob => runJob # old
    BY DEF SessInv, FieldInv
  <2> QED BY <1>0, <1>1, <1>3, <1>4, <2>1 DEF SessInv, CancelInv, IsRun
<1> QED BY <1>5, <1>6, <1>7, <1>8 DEF SessInv

\* Shared by onDestroy and the end of it: the main thread goes on, and some are
\* cancelled.
LEMMA MainCancelKeeps ==
    ASSUME Kinds, Counts, SessInv, UNCHANGED launchVars, MainInv', CancelInv',
           pc[MainThread] # "done", pc' \in [Threads -> Labels], resume' \in [Threads -> Labels],
           \A k \in Jobs : pc'[k] = pc[k] /\ resume'[k] = resume[k],
           cancelled' \in [Threads -> BOOLEAN],
           \A k \in Threads : cancelled[k] => cancelled'[k],
           destroy' # "no" => destroy # "no"
    PROVE  SessInv'
<1>0. /\ job' = job /\ launched' = launched /\ runJob' = runJob /\ stopJob' = stopJob /\ calm' = calm
  BY DEF launchVars
<1>1. JoinInv' /\ CalmInv'
  <2>1. /\ \A k \in Threads \ {MainThread} : pc'[k] = pc[k] /\ resume'[k] = resume[k]
        /\ MainThread \in Threads /\ MainThread \notin Jobs
    BY Threads0 DEF NoJob, MainThread
  <2>2. ~InFlow(MainThread) /\ pc[MainThread] # "flow"
    BY DEF SessInv, JobInv, MainInv, InFlow, IsRun
  <2> QED BY <2>1, <2>2, CancelKeepsJoins
<1>2. \A k \in Jobs : LabelsOf(k)'
  BY <1>0 DEF SessInv, JobInv, LabelsOf, IsRun
<1>3. ASSUME NEW k \in Jobs PROVE LinksOf(k)'
  <2>1. LinksOf(k) /\ job[k].run \in Threads
    BY Known, Threads0 DEF SessInv, JobInv
  <2> QED BY <1>0, <2>1 DEF LinksOf, IsRun
<1>4. FieldInv'
  BY <1>0 DEF SessInv, FieldInv, IsRun
<1> QED BY <1>1, <1>2, <1>3, <1>4 DEF SessInv, JobInv

\* onDestroy cancels the current session.
LEMMA DestroyKeeps ==
    ASSUME Kinds, Counts, SessInv, onDestroy
    PROVE  SessInv'
<1>0. /\ destroy = "asked" /\ destroy' = "running" /\ UNCHANGED launchVars
      /\ cancelled' = [j \in Threads |-> cancelled[j] \/ (j # NoJob /\ j = runJob)]
      /\ pc' = [pc EXCEPT ![MainThread] = "kill"]
      /\ resume' = [resume EXCEPT ![MainThread] = "scope"]
  BY DEF onDestroy, Cleanup
<1>1. /\ job' = job /\ runJob' = runJob /\ runJob \in Threads
  BY <1>0, Known DEF launchVars
<1>2. /\ pc' \in [Threads -> Labels] /\ resume' \in [Threads -> Labels]
      /\ \A k \in Jobs : pc'[k] = pc[k] /\ resume'[k] = resume[k]
      /\ pc'[MainThread] = "kill" /\ resume'[MainThread] = "scope"
  BY <1>0, Threads0 DEF Kinds, Labels
<1>3. /\ cancelled' \in [Threads -> BOOLEAN]
      /\ \A k \in Threads : cancelled[k] => cancelled'[k]
      /\ \A k \in Threads \ {runJob} : cancelled'[k] = cancelled[k]
      /\ runJob # NoJob => cancelled'[runJob]
  <2>1. \A k \in Threads : (cancelled[k] \/ (k # NoJob /\ k = runJob)) \in BOOLEAN
    BY Zenon
  <2> QED BY <1>0, <1>1, <2>1, Known
<1>4. MainInv'
  BY <1>0, <1>1, <1>2 DEF SessInv, JobInv, MainInv
<1>5. CancelInv'
  BY <1>0, <1>1, <1>3, Threads0 DEF SessInv, CancelInv, FieldInv, IsRun
<1>6. pc[MainThread] # "done"
  BY <1>0 DEF SessInv, JobInv, MainInv
<1> QED BY <1>0, <1>2, <1>3, <1>4, <1>5, <1>6, MainCancelKeeps

\* The scope is cancelled, and everybody with it.
LEMMA ScopeKeeps ==
    ASSUME Kinds, Counts, SessInv, CancelScope
    PROVE  SessInv'
<1>0. /\ pc[MainThread] = "scope" /\ destroy' = "done" /\ UNCHANGED launchVars
      /\ cancelled' = [j \in Threads |-> TRUE] /\ pc' = [pc EXCEPT ![MainThread] = "done"]
      /\ resume' = resume
  BY DEF CancelScope, Goto
<1>1. /\ job' = job /\ runJob' = runJob /\ runJob \in Threads /\ destroy = "running"
  BY <1>0, Known DEF launchVars, SessInv, JobInv, MainInv
<1>2. /\ pc' \in [Threads -> Labels] /\ resume' \in [Threads -> Labels]
      /\ \A k \in Jobs : pc'[k] = pc[k] /\ resume'[k] = resume[k]
      /\ pc'[MainThread] = "done"
  BY <1>0, Threads0 DEF Kinds, Labels
<1>3. MainInv'
  BY <1>0, <1>1, <1>2 DEF SessInv, JobInv, MainInv
<1>4. CancelInv'
  BY <1>0, <1>1, Threads0 DEF CancelInv
<1> QED BY <1>0, <1>1, <1>2, <1>3, <1>4, MainCancelKeeps

-----------------------------------------------------------------------------
(* A step of a session inside its connect flow.                            *)

FlowLabels == RunLabels \ {"new", "kill", "drop", "joinRun", "joinStop", "done"}
FlowAims   == RunLabels \ {"new", "kill", "drop", "joinRun", "joinStop", "flow"}

FlowStep(j) ==
    /\ pc[j] \in FlowLabels
    /\ UNCHANGED <<launchVars, cancelled, destroy>>
    /\ \/ \E l \in FlowAims : pc' = [pc EXCEPT ![j] = l] /\ UNCHANGED resume
       \/ \E q \in Returns \ {"joinRun"} : Cleanup(j, q)

\* The label tells that a job is a session.
LEMMA FlowIsRun ==
    ASSUME Kinds, JobInv, NEW j \in Jobs, pc[j] \in FlowLabels
    PROVE  IsRun(j) /\ (pc[j] = "flow" \/ InFlow(j))
<1>1. job[j].kind \in {"none", "main", "run", "stop", "lockdown"}
  BY Threads0 DEF Kinds
<1>2. IsRun(j)
  BY <1>1 DEF JobInv, LabelsOf, FlowLabels, RunLabels, Labels, IsRun
<1> QED BY <1>2 DEF FlowLabels, RunLabels, Labels, InFlow

LEMMA FlowKeeps ==
    ASSUME Kinds, Counts, SessInv, NEW j \in Jobs, FlowStep(j)
    PROVE  SessInv'
<1>1. PICK l \in FlowAims \cup {"kill"}, q \in Labels :
          /\ pc' = [pc EXCEPT ![j] = l] /\ resume' = [resume EXCEPT ![j] = q]
          /\ l = "kill" => q \in Returns \ {"joinRun"}
  <2>1. CASE \E l \in FlowAims : pc' = [pc EXCEPT ![j] = l] /\ UNCHANGED resume
    <3>1. resume' = [resume EXCEPT ![j] = resume[j]] /\ resume[j] \in Labels
      BY <2>1, Threads0 DEF Kinds
    <3>2. "kill" \notin FlowAims
      BY DEF FlowAims
    <3> QED BY <2>1, <3>1, <3>2
  <2>2. CASE \E q \in Returns \ {"joinRun"} : Cleanup(j, q)
    BY <2>2 DEF Cleanup, Returns, Labels
  <2> QED BY <2>1, <2>2 DEF FlowStep
<1>2. /\ IsRun(j) /\ (pc[j] = "flow" \/ InFlow(j)) /\ Joined(j)
      /\ UNCHANGED <<launchVars, cancelled>> /\ destroy' = destroy /\ job' = job
      /\ launched' = launched
  BY FlowIsRun DEF SessInv, FlowStep, launchVars, Joined
<1>3. pc'[j] = l /\ resume'[j] = q
  BY <1>1, Threads0 DEF Kinds
<1>4. LabelsOf(j)'
  BY <1>1, <1>2, <1>3 DEF SessInv, JobInv, LabelsOf, IsRun, FlowAims, RunLabels, Labels
<1>5. InFlow(j)' \/ Done(j)'
  BY <1>1, <1>2, <1>3 DEF InFlow, Done, IsRun, FlowAims, RunLabels, Labels
<1>6. MoveOK(j)
  <2>1. /\ pc'[j] # "joinStop" /\ pc[j] # "new" /\ pc[j] # "done" /\ j # MainThread
        /\ job[j].kind \notin Teardowns
    BY <1>1, <1>2, <1>3, Threads0 DEF FlowStep, FlowLabels, FlowAims, IsRun, Teardowns
  <2> QED BY <1>2, <1>4, <1>5, <2>1 DEF MoveOK
<1>7. pc[j] # "done" /\ j \in Threads
  BY Threads0 DEF FlowStep, FlowLabels
<1> QED BY <1>1, <1>2, <1>6, <1>7, MoveKeeps

\* The steps of the connect flow, the ladder and the supervisor.
FlowActions(j) ==
    \/ connectFlow(j) \/ BeginRung(j) \/ AwaitClosed(j) \/ StartEngine(j)
    \/ AssignEngine(j) \/ AwaitOpen(j) \/ StageProven(j) \/ CreateTransport(j)
    \/ TransportStarts(j) \/ TorFrontStarts(j) \/ Expose(j) \/ startTun2Socks(j)
    \/ SelfTestPasses(j) \/ Connected(j) \/ Throws(j) \/ NextRung(j) \/ ReportError(j)
    \/ ExternalEnds(j) \/ Watch(j) \/ Probe(j) \/ Backoff(j) \/ Reopen(j) \/ Reverify(j)

LEMMA FlowActionIsFlowStep ==
    ASSUME NEW j \in Jobs, FlowActions(j)
    PROVE  FlowStep(j)
<1> USE DEF FlowStep, FlowLabels, FlowAims, RunLabels, Labels, Returns, Goto, fieldVars, localVars
<1>1. CASE connectFlow(j)
  BY <1>1 DEF connectFlow
<1>2. CASE BeginRung(j)
  BY <1>2 DEF BeginRung
<1>3. CASE AwaitClosed(j)
  BY <1>3 DEF AwaitClosed
<1>4. CASE StartEngine(j)
  BY <1>4 DEF StartEngine
<1>5. CASE AssignEngine(j)
  BY <1>5 DEF AssignEngine
<1>6. CASE AwaitOpen(j)
  BY <1>6 DEF AwaitOpen
<1>7. CASE StageProven(j)
  BY <1>7 DEF StageProven
<1>8. CASE CreateTransport(j)
  BY <1>8 DEF CreateTransport
<1>9. CASE TransportStarts(j)
  BY <1>9 DEF TransportStarts
<1>10. CASE TorFrontStarts(j)
  BY <1>10 DEF TorFrontStarts
<1>11. CASE Expose(j)
  BY <1>11 DEF Expose
<1>12. CASE startTun2Socks(j)
  BY <1>12 DEF startTun2Socks
<1>13. CASE SelfTestPasses(j)
  BY <1>13 DEF SelfTestPasses
<1>14. CASE Connected(j)
  BY <1>14 DEF Connected
<1>15. CASE Throws(j)
  BY <1>15 DEF Throws, MayThrow
<1>16. CASE NextRung(j)
  BY <1>16 DEF NextRung
<1>17. CASE ReportError(j)
  BY <1>17 DEF ReportError
<1>18. CASE ExternalEnds(j)
  BY <1>18 DEF ExternalEnds
<1>19. CASE Watch(j)
  BY <1>19 DEF Watch
<1>20. CASE Probe(j)
  BY <1>20 DEF Probe
<1>21. CASE Backoff(j)
  BY <1>21 DEF Backoff
<1>22. CASE Reopen(j)
  BY <1>22 DEF Reopen
<1>23. CASE Reverify(j)
  BY <1>23 DEF Reverify
<1> QED BY <1>1, <1>2, <1>3, <1>4, <1>5, <1>6, <1>7, <1>8, <1>9, <1>10, <1>11, <1>12, <1>13, <1>14, <1>15, <1>16, <1>17, <1>18, <1>19, <1>20, <1>21, <1>22, <1>23 DEF FlowActions

-----------------------------------------------------------------------------
(* The other steps of a thread.                                            *)

\* A cleanup goes on: of a session, a teardown or the main thread.
LEMMA KillKeeps ==
    ASSUME Kinds, Counts, SessInv, NEW t \in Threads, Kill(t)
    PROVE  SessInv'
<1>0. /\ pc[t] = "kill" /\ pc' = [pc EXCEPT ![t] = "drop"] /\ resume' = resume
      /\ UNCHANGED <<launchVars, cancelled>> /\ destroy' = destroy
      /\ job' = job /\ launched' = launched
  BY DEF Kill, Goto, fieldVars, launchVars
<1>1. /\ pc'[t] = "drop" /\ resume' = [resume EXCEPT ![t] = resume[t]]
  BY <1>0 DEF Kinds
<1>2. MoveOK(t)
  <2>1. t \in Jobs => LabelsOf(t)'
    BY <1>0, <1>1 DEF SessInv, JobInv, LabelsOf, IsRun, RunLabels, Labels
  <2>2. t = MainThread => MainInv'
    BY <1>0, <1>1 DEF SessInv, JobInv, MainInv
  <2>3. InFlow(t)' <=> InFlow(t)
    BY <1>0, <1>1 DEF InFlow, IsRun
  <2> QED BY <1>0, <1>1, <2>1, <2>2, <2>3 DEF MoveOK, Joined
<1> QED BY <1>0, <1>1, <1>2, MoveKeeps

LEMMA DropKeeps ==
    ASSUME Kinds, Counts, SessInv, NEW t \in Threads, Drop(t)
    PROVE  SessInv'
<1>0. /\ pc[t] = "drop" /\ pc' = [pc EXCEPT ![t] = resume[t]] /\ resume' = resume
      /\ UNCHANGED <<launchVars, cancelled>> /\ destroy' = destroy
      /\ job' = job /\ launched' = launched
  BY DEF Drop, Goto, fieldVars, launchVars
<1>1. /\ pc'[t] = resume[t] /\ resume' = [resume EXCEPT ![t] = resume[t]]
  BY <1>0 DEF Kinds
<1>2. MoveOK(t)
  <2>0. t \in Jobs => LabelsOf(t)
    BY DEF SessInv, JobInv
  <2>1. t \in Jobs => LabelsOf(t)'
    BY <1>0, <1>1, <2>0 DEF LabelsOf, IsRun, RunLabels, Labels, Returns
  <2>2. t = MainThread => MainInv'
    BY <1>0, <1>1 DEF SessInv, JobInv, MainInv
  <2>3. ASSUME t \in Jobs, IsRun(t)
        PROVE  /\ resume[t] = "joinRun" => ~Joined(t)' /\ ~InFlow(t)
               /\ resume[t] # "joinRun" => InFlow(t) /\ (InFlow(t)' \/ Done(t)')
               /\ pc'[t] # "joinStop"
    <3>1. resume[t] \in Returns
      BY <1>0, <2>0, <2>3 DEF LabelsOf
    <3> QED BY <1>0, <1>1, <2>3, <3>1 DEF InFlow, IsRun, Joined, Done, Returns
  <2>4. t \in Jobs /\ job[t].kind \in Teardowns => pc'[t] # "done"
    BY <1>0, <1>1, <2>0 DEF LabelsOf, Teardowns
  <2> QED BY <1>0, <2>1, <2>2, <2>3, <2>4 DEF MoveOK, Joined
<1> QED BY <1>0, <1>1, <1>2, MoveKeeps

LEMMA CancelledEndsKeeps ==
    ASSUME Kinds, Counts, SessInv, NEW j \in Jobs, CancelledEnds(j)
    PROVE  SessInv'
<1>0. /\ cancelled[j] /\ pc[j] # "done" /\ pc[j] # "none"
      /\ pc' = [pc EXCEPT ![j] = "done"] /\ resume' = resume
      /\ UNCHANGED <<launchVars, cancelled>> /\ destroy' = destroy
      /\ job' = job /\ launched' = launched /\ cancelled' = cancelled
  BY DEF CancelledEnds, EndsWhenCancelled, Goto, fieldVars, launchVars
<1>1. /\ pc'[j] = "done" /\ resume' = [resume EXCEPT ![j] = resume[j]] /\ j # MainThread /\ j \in Threads
  BY <1>0, Threads0 DEF Kinds
<1>2. MoveOK(j)
  <2>1. LabelsOf(j)'
    BY <1>0, <1>1 DEF SessInv, JobInv, LabelsOf, IsRun, RunLabels, Labels
  <2>2. ~Joined(j)' /\ Done(j)'
    BY <1>0, <1>1 DEF Joined, InFlow, Done
  <2> QED BY <1>0, <1>1, <2>1, <2>2 DEF MoveOK
<1> QED BY <1>0, <1>1, <1>2, MoveKeeps

LEMMA JoinRunKeeps ==
    ASSUME Kinds, Counts, SessInv, NEW j \in Jobs, JoinRun(j)
    PROVE  SessInv'
<1>0. /\ pc[j] = "joinRun" /\ Done(job[j].run)
      /\ pc' = [pc EXCEPT ![j] = "joinStop"] /\ resume' = resume
      /\ UNCHANGED <<launchVars, cancelled>> /\ destroy' = destroy
      /\ job' = job /\ launched' = launched
  BY DEF JoinRun, Goto, fieldVars, launchVars
<1>1. /\ pc'[j] = "joinStop" /\ resume' = [resume EXCEPT ![j] = resume[j]]
      /\ j # MainThread /\ j \in Threads
  BY <1>0, Threads0 DEF Kinds
<1>2. MoveOK(j)
  <2>1. LabelsOf(j)'
    BY <1>0, <1>1 DEF SessInv, JobInv, LabelsOf, IsRun, RunLabels, Labels
  <2>2. ~Joined(j)' /\ ~InFlow(j)
    BY <1>0, <1>1 DEF Joined, InFlow
  <2> QED BY <1>0, <1>1, <2>1, <2>2 DEF MoveOK
<1> QED BY <1>0, <1>1, <1>2, MoveKeeps

\* A session that is not cancelled joins a teardown that was not cancelled
\* either, and that one has joined the session it ended.
LEMMA JoinStopKeeps ==
    ASSUME Kinds, Counts, SessInv, NEW j \in Jobs, JoinStop(j)
    PROVE  SessInv'
<1>0. /\ pc[j] = "joinStop" /\ Done(job[j].stop) /\ (cancelled[j] => job[j].stop = NoJob)
      /\ pc' = [pc EXCEPT ![j] = "flow"] /\ resume' = resume
      /\ UNCHANGED <<launchVars, cancelled>> /\ destroy' = destroy
      /\ job' = job /\ launched' = launched
  BY DEF JoinStop, Goto, fieldVars, launchVars
<1>1. /\ pc'[j] = "flow" /\ resume' = [resume EXCEPT ![j] = resume[j]]
      /\ j # MainThread /\ j \in Threads
  BY <1>0, Threads0 DEF Kinds
<1>2. job[j].kind \in {"none", "main", "run", "stop", "lockdown"}
  BY Known, <1>1
<1>3. IsRun(j)
  BY <1>0, <1>2 DEF SessInv, JobInv, LabelsOf, IsRun
<1>4. Done(job[j].run)
  BY <1>0, <1>3 DEF SessInv, JoinInv
<1>5. job[j].stop # NoJob => Done(job[job[j].stop].run)
  <2> SUFFICES ASSUME job[j].stop # NoJob PROVE Done(job[job[j].stop].run)
    OBVIOUS
  <2> PICK s \in Jobs : s = job[j].stop
    BY <1>1, Known, Threads0
  <2>1. job[s].kind \in Teardowns /\ pc[s] = "done"
    BY <1>0 DEF SessInv, JobInv, LinksOf, Done
  <2>2. ~cancelled[s]
    BY <1>0, <2>1 DEF SessInv, CancelInv, IsRun, Teardowns
  <2> QED BY <2>1, <2>2 DEF SessInv, JoinInv
<1>6. MoveOK(j)
  <2>1. LabelsOf(j)'
    BY <1>0, <1>1, <1>3 DEF SessInv, JobInv, LabelsOf, IsRun, RunLabels, Labels
  <2>2. ~InFlow(j)
    BY <1>0 DEF InFlow
  <2> QED BY <1>0, <1>1, <1>3, <1>4, <1>5, <2>1, <2>2 DEF MoveOK, IsRun, Teardowns
<1> QED BY <1>0, <1>1, <1>6, MoveKeeps

LEMMA StartTeardownKeeps ==
    ASSUME Kinds, Counts, SessInv, NEW j \in Jobs, StartTeardown(j)
    PROVE  SessInv'
<1> PICK q \in {"idle", "arm"} : q = IF job[j].kind = "stop" THEN "idle" ELSE "arm"
  OBVIOUS
<1>0. /\ pc[j] = "new" /\ job[j].kind \in Teardowns
      /\ pc' = [pc EXCEPT ![j] = "kill"] /\ resume' = [resume EXCEPT ![j] = q]
      /\ UNCHANGED <<launchVars, cancelled>> /\ destroy' = destroy
      /\ job' = job /\ launched' = launched
  BY DEF StartTeardown, Cleanup, fieldVars, launchVars, Teardowns
<1>1. /\ pc'[j] = "kill" /\ resume'[j] = q /\ j # MainThread /\ j \in Threads
  BY <1>0, Threads0 DEF Kinds
<1>2. MoveOK(j)
  <2>1. LabelsOf(j)'
    BY <1>0, <1>1 DEF SessInv, JobInv, LabelsOf, IsRun, Teardowns
  <2> QED BY <1>0, <1>1, <2>1 DEF MoveOK, IsRun, Teardowns
<1> QED BY <1>0, <1>1, <1>2, MoveKeeps

\* Under calm the session that waits for this teardown waits for nobody else.
LEMMA GoIdleKeeps ==
    ASSUME Kinds, Counts, SessInv, NEW j \in Jobs, GoIdle(j)
    PROVE  SessInv'
<1>0. /\ pc[j] = "idle" /\ destroy' = IF destroy = "no" THEN "asked" ELSE destroy
      /\ pc' = [pc EXCEPT ![j] = "join"] /\ resume' = resume
      /\ UNCHANGED <<launchVars, cancelled>>
      /\ job' = job /\ launched' = launched
  BY DEF GoIdle, Goto, launchVars
<1>1. /\ pc'[j] = "join" /\ resume' = [resume EXCEPT ![j] = resume[j]]
      /\ j # MainThread /\ j \in Threads
  BY <1>0, Threads0 DEF Kinds
<1>2. job[j].kind = "stop"
  <2>1. job[j].kind \in {"none", "main", "run", "stop", "lockdown"}
    BY <1>1, Known
  <2> QED BY <1>0, <2>1 DEF SessInv, JobInv, LabelsOf, IsRun, RunLabels
<1>3. calm /\ runJob # NoJob => Done(job[runJob].run)
  <2> SUFFICES ASSUME calm, runJob # NoJob, ~Done(job[runJob].run) PROVE FALSE
    OBVIOUS
  <2>1. j = stopJob
    BY <1>0, <1>1, <1>2, Threads0 DEF SessInv, CalmInv, Leftovers, Teardowns, Done
  <2>2. runJob \in Jobs
    BY Known, Threads0
  <2> PICK o \in Jobs : o = job[runJob].run
    BY <2>2, Known, Threads0 DEF Done
  <2>3. IsRun(o) /\ o < runJob /\ job[o].stop = stopJob
    BY <2>2, Threads0 DEF SessInv, JobInv, LinksOf, FieldInv
  <2>4. InFlow(o)
    BY <2>2, <2>3, Threads0 DEF SessInv, CalmInv, Leftovers
  <2>5. Done(stopJob)
    BY <2>3, <2>4 DEF SessInv, JoinInv, Joined
  <2> QED BY <1>0, <2>1, <2>5, Threads0 DEF Done
<1>4. destroy' = destroy \/ Asks
  BY <1>0, <1>3 DEF Asks
<1>5. MoveOK(j)
  <2>1. LabelsOf(j)'
    BY <1>0, <1>1, <1>2 DEF SessInv, JobInv, LabelsOf, IsRun
  <2> QED BY <1>0, <1>1, <1>2, <2>1 DEF MoveOK, IsRun
<1> QED BY <1>0, <1>1, <1>4, <1>5, MoveKeeps

LEMMA ArmKeeps ==
    ASSUME Kinds, Counts, SessInv, NEW j \in Jobs, Arm(j)
    PROVE  SessInv'
<1>0. /\ pc[j] = "arm" /\ pc' = [pc EXCEPT ![j] = "join"] /\ resume' = resume
      /\ UNCHANGED <<launchVars, cancelled>> /\ destroy' = destroy
      /\ job' = job /\ launched' = launched
  BY DEF Arm, Goto, launchVars
<1>1. /\ pc'[j] = "join" /\ resume' = [resume EXCEPT ![j] = resume[j]]
      /\ j # MainThread /\ j \in Threads
  BY <1>0, Threads0 DEF Kinds
<1>2. job[j].kind = "lockdown"
  <2>1. job[j].kind \in {"none", "main", "run", "stop", "lockdown"}
    BY <1>1, Known
  <2> QED BY <1>0, <2>1 DEF SessInv, JobInv, LabelsOf, IsRun, RunLabels
<1>3. MoveOK(j)
  <2>1. LabelsOf(j)'
    BY <1>0, <1>1, <1>2 DEF SessInv, JobInv, LabelsOf, IsRun
  <2> QED BY <1>0, <1>1, <1>2, <2>1 DEF MoveOK, IsRun
<1> QED BY <1>0, <1>1, <1>3, MoveKeeps

LEMMA JoinSessionKeeps ==
    ASSUME Kinds, Counts, SessInv, NEW j \in Jobs, JoinSession(j)
    PROVE  SessInv'
<1>0. /\ pc[j] = "join" /\ Done(job[j].run)
      /\ pc' = [pc EXCEPT ![j] = "done"] /\ resume' = resume
      /\ UNCHANGED <<launchVars, cancelled>> /\ destroy' = destroy
      /\ job' = job /\ launched' = launched
  BY DEF JoinSession, Goto, fieldVars, launchVars
<1>1. /\ pc'[j] = "done" /\ resume' = [resume EXCEPT ![j] = resume[j]]
      /\ j # MainThread /\ j \in Threads
  BY <1>0, Threads0 DEF Kinds
<1>2. ~IsRun(j)
  BY <1>0 DEF SessInv, JobInv, LabelsOf, IsRun, RunLabels
<1>3. MoveOK(j)
  <2>1. LabelsOf(j)'
    BY <1>0, <1>1, <1>2 DEF SessInv, JobInv, LabelsOf, IsRun
  <2> QED BY <1>0, <1>1, <1>2, <2>1 DEF MoveOK
<1> QED BY <1>0, <1>1, <1>3, MoveKeeps

\* The commands that tear down, and the session that gives up.
LEMMA CommandKeeps ==
    ASSUME Kinds, Counts, SessInv, Disconnect \/ onRevoke
    PROVE  SessInv'
<1>1. PICK kind \in Teardowns : LaunchTeardown(kind, lastProfile)
  BY DEF Disconnect, onRevoke, stopEverything, Teardowns
<1>2. /\ pc' = [pc EXCEPT ![launched + 1] = "new"] /\ resume' = resume /\ destroy = "no"
      /\ destroy' = destroy \/ destroy' = "asked"
  BY DEF Disconnect, onRevoke, stopEverything, Goto, Listening, fieldVars
<1>3. launched + 1 \in Jobs
  BY <1>1, LaunchFacts DEF LaunchTeardown, SessInv, Teardowns
<1>4. /\ pc' \in [Threads -> Labels] /\ pc'[launched + 1] = "new"
      /\ \A k \in Threads : k # launched + 1 => pc'[k] = pc[k]
  BY <1>2, <1>3, Threads0 DEF Kinds, Labels
<1>5. runJob # NoJob => ~cancelled[runJob]
  BY <1>2 DEF SessInv, CancelInv
<1> QED BY <1>1, <1>2, <1>4, <1>5, TeardownKeeps

LEMMA GiveUpKeeps ==
    ASSUME Kinds, Counts, SessInv, NEW j \in Jobs, GiveUp(j)
    PROVE  SessInv'
<1>1. /\ pc[j] = "watch" /\ currentScopeActive /\ LaunchTeardown("lockdown", job[j].prof)
      /\ pc' = [pc EXCEPT ![j] = "done", ![launched + 1] = "new"]
      /\ resume' = resume /\ destroy' = destroy
  BY DEF GiveUp, fieldVars
<1>2. /\ launched + 1 \in Jobs /\ pc[launched + 1] = "none"
  BY <1>1, LaunchFacts DEF LaunchTeardown, SessInv, Teardowns
<1>3. /\ pc' \in [Threads -> Labels] /\ pc'[launched + 1] = "new"
      /\ \A k \in Threads : k # launched + 1 => pc'[k] = pc[k] \/ (k = j /\ pc'[k] = "done")
  BY <1>1, <1>2, Threads0 DEF Kinds, Labels
<1>4. InFlow(j)
  BY <1>1, FlowIsRun DEF SessInv, FlowLabels, RunLabels, Labels
<1>5. runJob # NoJob /\ ~cancelled[runJob] /\ runJob \in Jobs
  BY <1>1, Known, Threads0 DEF currentScopeActive
<1>6. destroy # "done"
  BY <1>5 DEF SessInv, CancelInv
<1> QED BY <1>1, <1>3, <1>4, <1>5, <1>6, TeardownKeeps DEF Teardowns

\* Every step keeps the order of sessions and teardowns.
LEMMA SessStep ==
    ASSUME Kinds, Counts, SessInv, [Next]_vars
    PROVE  SessInv'
<1>1. ASSUME NEW p \in Profiles, startTunnel(p) PROVE SessInv'
  BY <1>1, StartKeeps
<1>2. CASE Disconnect \/ onRevoke
  BY <1>2, CommandKeeps
<1>3. CASE onDestroy
  BY <1>3, DestroyKeeps
<1>4. CASE MainStep
  BY <1>4, KillKeeps, DropKeeps, ScopeKeeps, Threads0 DEF MainStep
<1>5. ASSUME NEW j \in Jobs, JobStep(j) PROVE SessInv'
  <2>1. j \in Threads
    BY Threads0
  <2>2. CASE Kill(j) \/ Drop(j) \/ CancelledEnds(j)
    BY <2>1, <2>2, KillKeeps, DropKeeps, CancelledEndsKeeps
  <2>3. CASE SessionStep(j)
    <3>1. CASE TakeOver(j) \/ JoinRun(j) \/ JoinStop(j) \/ GiveUp(j)
      BY <3>1, TakeOverKeeps, JoinRunKeeps, JoinStopKeeps, GiveUpKeeps
    <3>2. CASE FlowActions(j)
      BY <3>2, FlowActionIsFlowStep, FlowKeeps
    <3> QED BY <2>3, <3>1, <3>2 DEF SessionStep, FlowActions
  <2>4. CASE TeardownStep(j)
    BY <2>4, StartTeardownKeeps, GoIdleKeeps, ArmKeeps, JoinSessionKeeps DEF TeardownStep
  <2> QED BY <1>5, <2>2, <2>3, <2>4 DEF JobStep
<1>6. CASE UNCHANGED <<launchVars, pc, resume, cancelled, destroy>>
  <2>1. /\ job' = job /\ launched' = launched /\ runJob' = runJob /\ stopJob' = stopJob
        /\ calm' = calm /\ pc' = pc /\ resume' = resume /\ cancelled' = cancelled
        /\ destroy' = destroy
    BY <1>6 DEF launchVars
  <2>2. JobInv' /\ FieldInv' /\ CancelInv'
    BY <2>1 DEF SessInv, JobInv, MainInv, LabelsOf, LinksOf, IsRun, FieldInv, CancelInv
  <2>3. JoinInv' /\ CalmInv'
    BY <2>1 DEF SessInv, IsRun, JoinInv, CalmInv, Leftovers, InFlow, Joined, Done
  <2> QED BY <2>2, <2>3 DEF SessInv
<1>7. ASSUME NEW p \in Procs, EngineListens(p) \/ EngineExits(p) PROVE SessInv'
  BY <1>6, <1>7 DEF EngineListens, EngineExits, fieldVars
<1>8. CASE UNCHANGED vars
  BY <1>6, <1>8 DEF vars, fieldVars
<1> QED BY <1>1, <1>2, <1>3, <1>4, <1>5, <1>7, <1>8 DEF Next

-----------------------------------------------------------------------------
(* One session at a time.                                                  *)

\* The first half of OneSessionOwns.
LEMMA NoOverlap ==
    ASSUME Kinds, Counts, SessInv, calm, NEW j \in Jobs, NEW k \in Jobs, InFlow(j), InFlow(k)
    PROVE  j = k
<1> SUFFICES ASSUME j # k PROVE FALSE
  OBVIOUS
<1>1. /\ IsRun(j) /\ IsRun(k) /\ ~Done(j) /\ ~Done(k) /\ Joined(j) /\ Joined(k)
  BY Threads0 DEF InFlow, Done, Joined
<1>2. ASSUME NEW i \in Jobs, IsRun(i), InFlow(i), Joined(i), runJob # NoJob,
             i = runJob \/ i = job[runJob].run
      PROVE  /\ Done(job[i].run)
             /\ stopJob # NoJob => Done(job[stopJob].run)
  <2>1. job[i].stop = stopJob
    BY <1>2, Threads0 DEF SessInv, FieldInv
  <2> QED BY <1>2, <2>1 DEF SessInv, JoinInv
<1>3. ASSUME NEW i \in Jobs, IsRun(i), ~Done(i), i # runJob
      PROVE  \/ runJob # NoJob /\ i = job[runJob].run
             \/ stopJob # NoJob /\ i = job[stopJob].run
  BY <1>3 DEF SessInv, CalmInv, Leftovers
<1>4. j # runJob /\ k # runJob
  BY <1>1, <1>2, <1>3, Threads0
<1> QED BY <1>1, <1>2, <1>3, <1>4

\* A session in its flow that has not been cancelled is alone with the natives:
\* nobody else cleans up, arms a lockdown or is in a flow.
LEMMA Alone ==
    ASSUME Kinds, Counts, SessInv, calm, NEW j \in Jobs, InFlow(j), ~cancelled[j],
           NEW t \in Threads, t # j
    PROVE  pc[t] \notin {"kill", "drop", "arm"} /\ (t \in Jobs => ~InFlow(t))
<1>1. t \in Jobs => ~InFlow(t)
  BY NoOverlap
<1>2. IsRun(j) /\ ~Done(j) /\ Joined(j)
  BY Threads0 DEF InFlow, Done, Joined
<1>3. /\ stopJob # NoJob => stopJob \in Jobs /\ job[stopJob].kind \in Teardowns
      /\ runJob # NoJob => runJob \in Jobs /\ IsRun(runJob) /\ job[runJob].stop = stopJob
      /\ runJob # NoJob /\ j = job[runJob].run => job[j].stop = stopJob
  BY Known, Threads0 DEF SessInv, FieldInv
\* Nobody has cancelled the session, so no teardown is about it.
<1>4. stopJob # NoJob => j # job[stopJob].run
  BY <1>3, Threads0 DEF SessInv, JobInv, LinksOf
<1>5. j = runJob \/ (runJob # NoJob /\ j = job[runJob].run)
  BY <1>2, <1>4 DEF SessInv, CalmInv, Leftovers
<1>6. CASE t = MainThread
  <2> SUFFICES ASSUME pc[t] \in {"kill", "drop"} PROVE FALSE
    BY <1>6, Threads0 DEF SessInv, JobInv, MainInv
  <2>1. destroy = "running"
    BY <1>6 DEF SessInv, JobInv, MainInv
  <2>2. j # runJob
    BY <2>1, Threads0 DEF SessInv, CancelInv
  <2> QED BY <1>2, <1>5, <2>1, <2>2 DEF SessInv, CalmInv, Leftovers
<1>7. CASE t \in Jobs /\ IsRun(t)
  <2> SUFFICES ASSUME pc[t] \in {"kill", "drop", "arm"} PROVE FALSE
    BY <1>1, <1>7
  <2>1. t = runJob
    BY <1>1, <1>7, Threads0 DEF SessInv, CalmInv, Leftovers, Done
  <2>2. j = job[t].run
    BY <1>5, <2>1
  <2> QED BY <1>7, <2>2, Threads0 DEF SessInv, JobInv, LinksOf
<1>8. CASE t \in Jobs /\ job[t].kind \in Teardowns
  <2> SUFFICES ASSUME ~Done(t) PROVE FALSE
    BY <1>1, <1>8, Threads0 DEF Done
  <2>1. t = stopJob
    BY <1>8 DEF SessInv, CalmInv, Leftovers
  <2>2. job[j].stop = stopJob
    BY <1>3, <1>5, Threads0
  <2> QED BY <1>2, <2>1, <2>2 DEF SessInv, JoinInv
<1>9. CASE t \in Jobs /\ job[t].kind = "none"
  BY <1>1, <1>9 DEF SessInv, JobInv, LabelsOf
<1> QED
  <2>1. job[t].kind \in {"none", "main", "run", "stop", "lockdown"}
    BY Known
  <2>2. t \in Jobs => job[t].kind # "main"
    BY DEF SessInv, JobInv, LabelsOf
  <2> QED BY <1>6, <1>7, <1>8, <1>9, <2>1, <2>2, Threads0 DEF IsRun, Teardowns, NoJob, MainThread

\* The labels at which a session has something to lose.
Sensitive == HasEngine \cup {"awaitClosed", "spawn", "assign", "reassign"}

LEMMA SensitiveIsFlow ==
    ASSUME NEW j \in Jobs, IsRun(j), pc[j] \in Sensitive
    PROVE  InFlow(j)
BY DEF Sensitive, HasEngine, InFlow

LEMMA InsensitiveOwns ==
    ASSUME NEW j, pc[j] \notin Sensitive
    PROVE  Owns(j)
BY DEF Sensitive, HasEngine, HasTun, Owns

-----------------------------------------------------------------------------
(* Steps that touch neither natives nor sessions in their flow.            *)

\* Nobody's session is brought to another label than one that owns nothing.
QuietStep ==
    /\ UNCHANGED <<nativeVars, proc, proven>>
    /\ calm' => calm
    /\ \A k \in Jobs : IsRun(k)' => IsRun(k) \/ pc'[k] = "new"
    /\ \A k \in Jobs : IsRun(k) => job'[k] = job[k]
    /\ \A k \in Jobs : cancelled[k] => cancelled'[k]
    /\ \A k \in Jobs : \/ pc'[k] = pc[k] /\ resume'[k] = resume[k]
                       \/ pc'[k] \notin Sensitive \cup {"connected"}
    /\ ui' = ui \/ ui' # "Connected"
    /\ runJob' = runJob \/ runJob' = NoJob \/ pc'[runJob'] = "new"
    /\ runJob' = runJob /\ runJob # NoJob /\ InFlow(runJob)' /\ ui' = "Connected"
         => pc'[runJob] = pc[runJob] /\ resume'[runJob] = resume[runJob]

LEMMA QuietKeeps ==
    ASSUME Kinds, Counts, SessInv, OwnInv, TestedInv, ShownInv, QuietStep
    PROVE  OwnInv' /\ TestedInv' /\ ShownInv'
<1>0. /\ engine' = engine /\ tun' = tun /\ forwarding' = forwarding /\ stage2' = stage2
      /\ proc' = proc /\ proven' = proven
  BY DEF QuietStep, nativeVars
<1>1. OwnInv'
  <2> SUFFICES ASSUME calm', NEW j \in Jobs, IsRun(j)', ~cancelled'[j] PROVE Owns(j)'
    BY DEF OwnInv
  <2>1. CASE pc'[j] \notin Sensitive
    BY <2>1, InsensitiveOwns DEF Sensitive, HasEngine, HasTun, Owns
  <2>2. CASE pc'[j] \in Sensitive
    <3>1. pc'[j] = pc[j] /\ IsRun(j) /\ job'[j] = job[j] /\ calm /\ ~cancelled[j]
      BY <2>2 DEF QuietStep, Sensitive, HasEngine
    <3>2. Owns(j)
      BY <3>1 DEF OwnInv
    <3> QED BY <1>0, <3>1, <3>2 DEF Owns, ModeOf
  <2> QED BY <2>1, <2>2
<1>2. TestedInv'
  BY <1>0 DEF QuietStep, TestedInv
<1>3. ShownInv'
  <2> SUFFICES ASSUME calm', ui' = "Connected", runJob' # NoJob, InFlow(runJob)', ~cancelled'[runJob']
               PROVE  /\ pc'[runJob'] \in {"watch", "awaitExit", "watchExternal", "error"}
                      /\ proven'[runJob'] /\ engine' = proc'[runJob']
    BY DEF ShownInv
  <2>1. runJob' = runJob /\ runJob # NoJob
    BY DEF QuietStep, InFlow
  <2>2. runJob \in Jobs /\ IsRun(runJob)
    BY <2>1, Known, Threads0 DEF SessInv, FieldInv
  <2>3. /\ pc'[runJob] = pc[runJob] /\ resume'[runJob] = resume[runJob]
        /\ ~cancelled[runJob] /\ calm /\ ui = "Connected"
    BY <2>1, <2>2 DEF QuietStep
  <2>4. InFlow(runJob)
    BY <2>1, <2>2, <2>3 DEF InFlow
  <2> QED BY <1>0, <2>1, <2>3, <2>4 DEF ShownInv
<1> QED BY <1>1, <1>2, <1>3

-----------------------------------------------------------------------------
(* Steps that touch the natives.                                           *)

\* A cleanup or a lockdown from outside finds no session that could lose by it.
LEMMA ForeignKeeps ==
    ASSUME Kinds, Counts, SessInv, OwnInv, TestedInv, ShownInv, NEW t \in Threads,
           pc[t] \in {"kill", "drop", "arm"}, pc'[t] \notin Sensitive \cup {"connected"},
           t \in Jobs => ~InFlow(t)', UNCHANGED <<launchVars, cancelled, proven>>,
           \A k \in Threads \ {t} : pc'[k] = pc[k] /\ resume'[k] = resume[k]
    PROVE  OwnInv' /\ TestedInv' /\ ShownInv'
<1>0. /\ job' = job /\ runJob' = runJob /\ calm' = calm /\ cancelled' = cancelled
      /\ proven' = proven
  BY DEF launchVars
<1>1. OwnInv'
  <2> SUFFICES ASSUME calm, NEW j \in Jobs, IsRun(j), ~cancelled[j] PROVE Owns(j)'
    BY <1>0 DEF OwnInv, IsRun
  <2>1. ASSUME pc'[j] \in Sensitive PROVE FALSE
    <3>1. j # t /\ pc[j] \in Sensitive
      BY <2>1, Threads0
    <3> QED BY <3>1, SensitiveIsFlow, Alone
  <2> QED BY <2>1 DEF Sensitive, HasEngine, HasTun, Owns
<1>2. TestedInv'
  BY <1>0, Threads0 DEF TestedInv
<1>3. ShownInv'
  <2> SUFFICES ASSUME calm, runJob # NoJob, InFlow(runJob)', ~cancelled[runJob] PROVE FALSE
    BY <1>0 DEF ShownInv
  <2>1. runJob \in Jobs /\ runJob # t
    BY <1>0, Known, Threads0
  <2>2. InFlow(runJob)
    BY <1>0, <2>1, Threads0 DEF InFlow, IsRun
  <2> QED BY <2>1, <2>2, Alone
<1> QED BY <1>1, <1>2, <1>3

\* What has to be seen of a session that moves in its flow.
OwnStep(j) ==
    /\ calm /\ ~cancelled[j] => Owns(j)'
    /\ pc'[j] = "connected" => proven'[j]
    /\ \A k \in Jobs \ {j} : proven'[k] = proven[k]
    /\ calm /\ runJob = j /\ ~cancelled[j] /\ ui' = "Connected"
         => \/ pc'[j] = "done"
            \/ /\ pc'[j] \in {"watch", "awaitExit", "watchExternal", "error"}
               /\ proven'[j] /\ engine' = proc'[j]

LEMMA OwnStepKeeps ==
    ASSUME Kinds, Counts, SessInv, OwnInv, TestedInv, ShownInv, NEW j \in Jobs, InFlow(j),
           UNCHANGED <<launchVars, cancelled>>, OwnStep(j),
           \A k \in Jobs \ {j} : pc'[k] = pc[k] /\ resume'[k] = resume[k]
    PROVE  OwnInv' /\ TestedInv' /\ ShownInv'
<1>0. /\ job' = job /\ runJob' = runJob /\ calm' = calm /\ cancelled' = cancelled
  BY DEF launchVars
<1>1. OwnInv'
  <2> SUFFICES ASSUME calm, NEW k \in Jobs, IsRun(k), ~cancelled[k] PROVE Owns(k)'
    BY <1>0 DEF OwnInv, IsRun
  <2>1. CASE k = j
    BY <2>1 DEF OwnStep
  <2>2. CASE k # j
    <3>1. pc'[k] \notin Sensitive
      BY <2>2, SensitiveIsFlow, NoOverlap
    <3> QED BY <3>1 DEF Sensitive, HasEngine, HasTun, Owns
  <2> QED BY <2>1, <2>2
<1>2. TestedInv'
  BY DEF TestedInv, OwnStep
<1>3. ShownInv'
  <2> SUFFICES ASSUME calm, ui' = "Connected", runJob # NoJob, InFlow(runJob)', ~cancelled[runJob]
               PROVE  /\ pc'[runJob] \in {"watch", "awaitExit", "watchExternal", "error"}
                      /\ proven'[runJob] /\ engine' = proc'[runJob]
    BY <1>0 DEF ShownInv
  <2>1. runJob \in Jobs
    BY Known, Threads0
  <2>2. CASE runJob = j
    BY <1>0, <2>2 DEF OwnStep, InFlow
  <2>3. CASE runJob # j
    <3>1. InFlow(runJob)
      BY <1>0, <2>1, <2>3 DEF InFlow, IsRun
    <3> QED BY <2>1, <2>3, <3>1, NoOverlap
  <2> QED BY <2>2, <2>3
<1> QED BY <1>1, <1>2, <1>3

\* What a session in its flow has at the start of a step.
LEMMA OwnStart ==
    ASSUME Kinds, Counts, SessInv, OwnInv, TestedInv, ShownInv, NEW j \in Jobs, IsRun(j), InFlow(j)
    PROVE  /\ calm /\ ~cancelled[j] => Owns(j)
           /\ pc[j] = "connected" => proven[j]
           /\ calm /\ runJob = j /\ ~cancelled[j] /\ ui = "Connected"
                => /\ pc[j] \in {"watch", "awaitExit", "watchExternal", "error"}
                   /\ proven[j] /\ engine = proc[j]
BY Threads0 DEF OwnInv, TestedInv, ShownInv

LEMMA FlowActionIsOwnStep ==
    ASSUME Kinds, Counts, SessInv, OwnInv, TestedInv, ShownInv, NEW j \in Jobs, IsRun(j), InFlow(j),
           FlowActions(j), ~connectFlow(j)
    PROVE  OwnStep(j)
<1>0. /\ calm /\ ~cancelled[j] => Owns(j)
      /\ pc[j] = "connected" => proven[j]
      /\ calm /\ runJob = j /\ ~cancelled[j] /\ ui = "Connected"
           => /\ pc[j] \in {"watch", "awaitExit", "watchExternal", "error"}
              /\ proven[j] /\ engine = proc[j]
      /\ pc \in [Threads -> Labels] /\ proven \in [Jobs -> BOOLEAN] /\ proc \in [Jobs -> Procs \cup {NoProc}]
      /\ j \in Threads
  BY OwnStart, Threads0 DEF Kinds, Counts
<1> USE <1>0 DEF OwnStep, Owns, HasEngine, HasTun, Goto, launchVars, fieldVars, localVars, nativeVars,
        ModeOf
<1>1. CASE BeginRung(j)
  BY <1>1 DEF BeginRung, Cleanup
<1>2. CASE AwaitClosed(j)
  BY <1>2 DEF AwaitClosed
<1>3. CASE StartEngine(j)
  BY <1>3 DEF StartEngine
<1>4. CASE AssignEngine(j)
  BY <1>4 DEF AssignEngine
<1>5. CASE AwaitOpen(j)
  BY <1>5 DEF AwaitOpen
<1>6. CASE StageProven(j)
  BY <1>6 DEF StageProven
<1>7. CASE CreateTransport(j)
  BY <1>7 DEF CreateTransport
<1>8. CASE TransportStarts(j)
  BY <1>8 DEF TransportStarts
<1>9. CASE TorFrontStarts(j)
  BY <1>9 DEF TorFrontStarts
<1>10. CASE Expose(j)
  BY <1>10 DEF Expose
<1>11. CASE startTun2Socks(j)
  BY <1>11 DEF startTun2Socks
<1>12. CASE SelfTestPasses(j)
  BY <1>12 DEF SelfTestPasses
<1>13. CASE Connected(j)
  BY <1>13 DEF Connected
<1>14. CASE Throws(j)
  BY <1>14 DEF Throws, MayThrow, Cleanup
<1>15. CASE NextRung(j)
  BY <1>15 DEF NextRung
<1>16. CASE ReportError(j)
  BY <1>16 DEF ReportError, Cleanup
<1>17. CASE ExternalEnds(j)
  BY <1>17 DEF ExternalEnds
<1>18. CASE Watch(j)
  BY <1>18 DEF Watch
<1>19. CASE Probe(j)
  BY <1>19 DEF Probe
<1>20. CASE Backoff(j)
  BY <1>20 DEF Backoff
<1>21. CASE Reopen(j)
  BY <1>21 DEF Reopen
<1>22. CASE Reverify(j)
  BY <1>22 DEF Reverify
<1> QED BY <1>1, <1>2, <1>3, <1>4, <1>5, <1>6, <1>7, <1>8, <1>9, <1>10, <1>11, <1>12, <1>13, <1>14, <1>15, <1>16, <1>17, <1>18, <1>19, <1>20, <1>21, <1>22 DEF FlowActions

\* A thread moves without natives, to a label that owns nothing.
LEMMA QuietMove ==
    ASSUME Kinds, Counts, SessInv, NEW t \in Threads,
           UNCHANGED <<launchVars, nativeVars, proc, proven>>,
           \A k \in Threads \ {t} : pc'[k] = pc[k] /\ resume'[k] = resume[k],
           pc'[t] \notin Sensitive \cup {"connected"},
           \A k \in Threads : cancelled[k] => cancelled'[k],
           ui' = ui \/ ui' # "Connected",
           t \in Jobs /\ IsRun(t) => ~InFlow(t)' \/ ui' # "Connected"
    PROVE  QuietStep
<1>0. /\ job' = job /\ runJob' = runJob /\ calm' = calm
  BY DEF launchVars
<1>1. runJob # NoJob => runJob \in Jobs /\ IsRun(runJob)
  BY Known, Threads0 DEF SessInv, FieldInv
<1>2. runJob # NoJob /\ InFlow(runJob)' /\ ui' = "Connected"
         => pc'[runJob] = pc[runJob] /\ resume'[runJob] = resume[runJob]
  BY <1>0, <1>1, Threads0
<1> QED BY <1>0, <1>2, Threads0 DEF QuietStep, IsRun

\* A job is launched, and the current session may end.
LEMMA QuietLaunch ==
    ASSUME Kinds, Counts, SessInv, NEW kind \in {"run", "stop", "lockdown"}, NEW p, NEW r, NEW s,
           Launch(kind, p, r, s), UNCHANGED <<nativeVars, proc, proven, resume>>,
           pc'[launched + 1] = "new",
           \A k \in Threads : k # launched + 1 => pc'[k] = pc[k] \/ pc'[k] = "done",
           \A k \in Threads : cancelled[k] => cancelled'[k],
           calm' => calm, ui' = ui \/ ui' # "Connected",
           runJob' \in {NoJob, launched + 1}
    PROVE  QuietStep
<1> PICK n \in Jobs : n = launched + 1
  BY LaunchFacts DEF SessInv
<1>1. /\ job[n].kind = "none" /\ job'[n] = [kind |-> kind, prof |-> p, run |-> r, stop |-> s]
      /\ \A k \in Threads \ {n} : job'[k] = job[k]
  BY LaunchFacts DEF SessInv
<1>2. /\ \A k \in Jobs : IsRun(k)' => IsRun(k) \/ pc'[k] = "new"
      /\ \A k \in Jobs : IsRun(k) => job'[k] = job[k]
  BY <1>1, Threads0 DEF IsRun
<1>3. \A k \in Jobs : \/ pc'[k] = pc[k] /\ resume'[k] = resume[k]
                      \/ pc'[k] \notin Sensitive \cup {"connected"}
  BY Threads0 DEF Sensitive, HasEngine
<1>4. runJob' = NoJob \/ pc'[runJob'] = "new"
  OBVIOUS
<1>5. runJob' # runJob \/ runJob = NoJob
  BY <1>1, OldLinks DEF SessInv
<1> QED BY <1>2, <1>3, <1>4, <1>5, Threads0 DEF QuietStep

LEMMA KillOwns ==
    ASSUME Kinds, Counts, SessInv, OwnInv, TestedInv, ShownInv, NEW t \in Threads, Kill(t) \/ Drop(t)
    PROVE  OwnInv' /\ TestedInv' /\ ShownInv'
<1>0. /\ pc[t] \in {"kill", "drop"} /\ UNCHANGED <<launchVars, cancelled, resume, ui, proc, proven>>
      /\ \/ pc[t] = "kill" /\ pc' = [pc EXCEPT ![t] = "drop"]
         \/ pc[t] = "drop" /\ pc' = [pc EXCEPT ![t] = resume[t]] /\ tun' = "none"
      /\ job' = job
  BY DEF Kill, Drop, Goto, localVars, launchVars
<1>1. /\ \A k \in Threads \ {t} : pc'[k] = pc[k] /\ resume'[k] = resume[k]
      /\ pc[t] = "kill" => pc'[t] = "drop"
      /\ pc[t] = "drop" => pc'[t] = resume[t] /\ tun' = "none"
  BY <1>0 DEF Kinds
<1>2. CASE t \in Jobs /\ IsRun(t) /\ resume[t] # "joinRun"
  <2>1. InFlow(t) /\ resume[t] \in Returns
    BY <1>0, <1>2 DEF InFlow, SessInv, JobInv, LabelsOf
  <2>2. calm /\ runJob = t /\ ~cancelled[t] => ui # "Connected"
    BY <1>0, <1>2, <2>1, Threads0 DEF ShownInv
  <2>3. OwnStep(t)
    <3>1. Owns(t)'
      BY <1>0, <1>1, <2>1 DEF Owns, HasEngine, HasTun, Returns
    <3> QED BY <1>0, <1>1, <2>1, <2>2, <3>1 DEF OwnStep, Returns
  <2> QED BY <1>0, <1>1, <1>2, <2>1, <2>3, OwnStepKeeps, Threads0
<1>3. CASE ~(t \in Jobs /\ IsRun(t) /\ resume[t] # "joinRun")
  <2>1. /\ pc'[t] \in {"drop", "joinRun", "idle", "arm", "scope"}
        /\ t \in Jobs /\ IsRun(t) => pc'[t] = "joinRun" \/ (pc'[t] = "drop" /\ resume'[t] = "joinRun")
    <3>1. job[t].kind \in {"none", "main", "run", "stop", "lockdown"}
      BY Known
    <3>2. t \in Jobs => LabelsOf(t)
      BY DEF SessInv, JobInv
    <3>3. CASE t \in Jobs
      BY <1>0, <1>1, <1>3, <3>1, <3>2, <3>3 DEF LabelsOf, IsRun
    <3>4. CASE t = MainThread
      BY <1>0, <1>1, <3>4, Threads0 DEF SessInv, JobInv, MainInv
    <3> QED BY <3>3, <3>4, Threads0 DEF NoJob, MainThread
  <2>2. /\ pc'[t] \notin Sensitive \cup {"connected"}
        /\ t \in Jobs => ~InFlow(t)'
    BY <1>0, <2>1 DEF Sensitive, HasEngine, InFlow, IsRun
  <2> QED BY <1>0, <1>1, <2>2, ForeignKeeps
<1> QED BY <1>2, <1>3

LEMMA ArmOwns ==
    ASSUME Kinds, Counts, SessInv, OwnInv, TestedInv, ShownInv, NEW j \in Jobs, Arm(j)
    PROVE  OwnInv' /\ TestedInv' /\ ShownInv'
<1>0. /\ pc[j] = "arm" /\ pc' = [pc EXCEPT ![j] = "join"] /\ j \in Threads
      /\ UNCHANGED <<launchVars, cancelled, resume, proven>> /\ job' = job
  BY Threads0 DEF Arm, Goto, localVars, launchVars
<1>1. /\ \A k \in Threads \ {j} : pc'[k] = pc[k] /\ resume'[k] = resume[k]
      /\ pc'[j] = "join"
  BY <1>0 DEF Kinds
<1>2. ~IsRun(j)
  BY <1>0 DEF SessInv, JobInv, LabelsOf, IsRun, RunLabels
<1>3. pc'[j] \notin Sensitive \cup {"connected"} /\ ~InFlow(j)'
  BY <1>0, <1>1, <1>2 DEF Sensitive, HasEngine, InFlow, IsRun
<1> QED BY <1>0, <1>1, <1>3, ForeignKeeps

\* The other steps of jobs and main thread.
LEMMA OutsideIsQuiet ==
    ASSUME Kinds, Counts, SessInv, NEW j \in Jobs,
           \/ onDestroy \/ CancelScope
           \/ TakeOver(j) \/ JoinRun(j) \/ JoinStop(j) \/ CancelledEnds(j) \/ connectFlow(j)
           \/ StartTeardown(j) \/ GoIdle(j) \/ JoinSession(j)
    PROVE  QuietStep
<1>0. /\ pc \in [Threads -> Labels] /\ resume \in [Threads -> Labels] /\ j \in Threads
      /\ cancelled \in [Threads -> BOOLEAN] /\ MainThread \in Threads /\ MainThread \notin Jobs
  BY Threads0 DEF Kinds, NoJob, MainThread
<1> DEFINE Aims == {"done", "joinStop", "kill", "flow", "rung", "join"}
<1>1. \A l \in Aims : l \notin Sensitive \cup {"connected"}
  BY DEF Sensitive, HasEngine
<1>2. CASE onDestroy \/ CancelScope
  <2>1. /\ UNCHANGED <<launchVars, nativeVars, proc, proven>> /\ ui' = ui
        /\ \A k \in Threads \ {MainThread} : pc'[k] = pc[k] /\ resume'[k] = resume[k]
        /\ pc'[MainThread] \in Aims
        /\ \A k \in Threads : cancelled[k] => cancelled'[k]
    BY <1>0, <1>2 DEF onDestroy, CancelScope, Goto, Cleanup, localVars
  <2> QED BY <1>0, <1>1, <2>1, QuietMove
<1>3. CASE \/ TakeOver(j) \/ JoinRun(j) \/ JoinStop(j) \/ CancelledEnds(j) \/ connectFlow(j)
           \/ StartTeardown(j) \/ GoIdle(j) \/ JoinSession(j)
  <2>1. /\ UNCHANGED <<launchVars, nativeVars, proc, proven>>
        /\ \A k \in Threads \ {j} : pc'[k] = pc[k] /\ resume'[k] = resume[k]
        /\ pc'[j] \in Aims
    <3>1. CASE TakeOver(j)
      BY <1>0, <3>1 DEF TakeOver, Goto, Cleanup, localVars
    <3>2. CASE JoinRun(j) \/ JoinStop(j) \/ CancelledEnds(j)
      BY <1>0, <3>2 DEF JoinRun, JoinStop, CancelledEnds, Goto, localVars
    <3>3. CASE connectFlow(j)
      BY <1>0, <3>3 DEF connectFlow, Goto, Cleanup, localVars
    <3>4. CASE StartTeardown(j) \/ GoIdle(j) \/ JoinSession(j)
      BY <1>0, <3>4 DEF StartTeardown, GoIdle, JoinSession, Goto, Cleanup, localVars
    <3> QED BY <1>3, <3>1, <3>2, <3>3, <3>4
  <2>2. \A k \in Threads : cancelled[k] => cancelled'[k]
    <3>1. CASE TakeOver(j)
      <4>1. cancelled' = [cancelled EXCEPT ![job[j].run] = (job[j].run # NoJob) \/ @]
        BY <3>1 DEF TakeOver
      <4> QED BY <1>0, <4>1
    <3>2. CASE ~TakeOver(j)
      BY <1>3, <3>2 DEF JoinRun, JoinStop, CancelledEnds, connectFlow, StartTeardown, GoIdle, JoinSession
    <3> QED BY <3>1, <3>2
  <2>3. ui' = ui \/ ui' # "Connected"
    BY <1>3 DEF TakeOver, JoinRun, JoinStop, CancelledEnds, connectFlow, StartTeardown, GoIdle, JoinSession
  <2>4. IsRun(j) => ~InFlow(j)' \/ ui' # "Connected"
    <3>1. CASE TakeOver(j)
      BY <1>0, <3>1 DEF TakeOver, Goto, Cleanup, InFlow
    <3>2. CASE JoinRun(j) \/ JoinStop(j) \/ CancelledEnds(j)
      BY <1>0, <3>2 DEF JoinRun, JoinStop, CancelledEnds, Goto, InFlow
    <3>3. CASE connectFlow(j)
      BY <3>3 DEF connectFlow
    <3>4. CASE StartTeardown(j) \/ GoIdle(j) \/ JoinSession(j)
      BY <1>0, <3>4 DEF StartTeardown, GoIdle, JoinSession, SessInv, JobInv, LabelsOf, IsRun, RunLabels
    <3> QED BY <1>3, <3>1, <3>2, <3>3, <3>4
  <2> QED BY <1>0, <1>1, <2>1, <2>2, <2>3, <2>4, QuietMove
<1> QED BY <1>2, <1>3

LEMMA LaunchIsQuiet ==
    ASSUME Kinds, Counts, SessInv, NEW j \in Jobs,
           (\E p \in Profiles : startTunnel(p)) \/ Disconnect \/ onRevoke \/ GiveUp(j)
    PROVE  QuietStep
<1>0. /\ pc \in [Threads -> Labels] /\ cancelled \in [Threads -> BOOLEAN] /\ j \in Threads
  BY Threads0 DEF Kinds
<1>1. ASSUME NEW p \in Profiles, startTunnel(p) PROVE QuietStep
  <2>1. /\ Launch("run", p, runJob, stopJob) /\ UNCHANGED <<nativeVars, proc, proven, resume>>
        /\ pc' = [pc EXCEPT ![launched + 1] = "new"] /\ cancelled' = cancelled
        /\ (calm' => calm) /\ ui' = ui /\ runJob' = launched + 1
    BY <1>1 DEF startTunnel, Goto, localVars
  <2>2. launched + 1 \in Threads
    BY <2>1, LaunchFacts, Threads0 DEF SessInv
  <2>3. /\ pc'[launched + 1] = "new"
        /\ \A k \in Threads : k # launched + 1 => pc'[k] = pc[k] \/ pc'[k] = "done"
    BY <1>0, <2>1, <2>2
  <2> QED BY <2>1, <2>3, QuietLaunch
<1>2. CASE Disconnect \/ onRevoke \/ GiveUp(j)
  <2>1. PICK kind \in {"stop", "lockdown"}, p \in {lastProfile, job[j].prof} : LaunchTeardown(kind, p)
    BY <1>2 DEF Disconnect, onRevoke, stopEverything, GiveUp
  <2>2. /\ Launch(kind, p, runJob, NoJob) /\ runJob' = NoJob /\ (calm' => calm)
        /\ cancelled' = [k \in Threads |-> cancelled[k] \/ (k # NoJob /\ k = runJob)]
    BY <2>1 DEF LaunchTeardown
  <2>3. launched + 1 \in Threads
    BY <2>2, LaunchFacts, Threads0 DEF SessInv
  <2>4. /\ UNCHANGED <<nativeVars, proc, proven, resume>>
        /\ ui' = ui \/ ui' # "Connected"
        /\ \/ pc' = [pc EXCEPT ![launched + 1] = "new"]
           \/ pc' = [pc EXCEPT ![j] = "done", ![launched + 1] = "new"]
    BY <1>2 DEF Disconnect, onRevoke, stopEverything, GiveUp, Goto, localVars
  <2>5. /\ pc'[launched + 1] = "new"
        /\ \A k \in Threads : k # launched + 1 => pc'[k] = pc[k] \/ pc'[k] = "done"
    BY <1>0, <2>3, <2>4
  <2>6. \A k \in Threads : cancelled[k] => cancelled'[k]
    BY <2>2
  <2> QED BY <2>2, <2>4, <2>5, <2>6, QuietLaunch
<1> QED BY <1>1, <1>2

\* Every step keeps what a session owns and what the state shows.
LEMMA OwnershipStep ==
    ASSUME Kinds, Counts, SessInv, OwnInv, TestedInv, ShownInv, [Next]_vars
    PROVE  OwnInv' /\ TestedInv' /\ ShownInv'
<1>0. CASE UNCHANGED <<launchVars, pc, resume, cancelled, ui, nativeVars, proc, proven>>
  <2>1. /\ job' = job /\ runJob' = runJob /\ calm' = calm
    BY <1>0 DEF launchVars
  <2>2. QuietStep
    BY <1>0, <2>1 DEF QuietStep, IsRun
  <2> QED BY <2>2, QuietKeeps
<1>1. ASSUME NEW p \in Profiles, startTunnel(p) PROVE OwnInv' /\ TestedInv' /\ ShownInv'
  <2>1. Jobs # {}
    BY <1>1, LaunchFacts DEF startTunnel, SessInv
  <2> QED BY <1>1, <2>1, LaunchIsQuiet, QuietKeeps
<1>2. CASE Disconnect \/ onRevoke
  <2>1. Jobs # {}
    BY <1>2, LaunchFacts DEF Disconnect, onRevoke, stopEverything, LaunchTeardown, SessInv
  <2> QED BY <1>2, <2>1, LaunchIsQuiet, QuietKeeps
<1>3. CASE onDestroy \/ MainStep
  <2>1. CASE Kill(MainThread) \/ Drop(MainThread)
    BY <2>1, KillOwns, Threads0
  <2>2. CASE Jobs # {} /\ (onDestroy \/ CancelScope)
    BY <2>2, OutsideIsQuiet, QuietKeeps
  <2>3. CASE Jobs = {}
    <3>1. ASSUME UNCHANGED launchVars PROVE OwnInv' /\ TestedInv' /\ ShownInv'
      <4>1. runJob' = NoJob
        BY <2>3, <3>1, Known, Threads0 DEF launchVars
      <4> QED BY <2>3, <4>1 DEF OwnInv, TestedInv, ShownInv
    <3> QED BY <1>3, <3>1 DEF onDestroy, MainStep, Kill, Drop, CancelScope
  <2> QED BY <1>3, <2>1, <2>2, <2>3 DEF MainStep
<1>4. ASSUME NEW j \in Jobs, JobStep(j) PROVE OwnInv' /\ TestedInv' /\ ShownInv'
  <2>1. j \in Threads
    BY Threads0
  <2>2. CASE Kill(j) \/ Drop(j)
    BY <2>1, <2>2, KillOwns
  <2>3. CASE Arm(j)
    BY <2>3, ArmOwns
  <2>4. CASE \/ TakeOver(j) \/ JoinRun(j) \/ JoinStop(j) \/ CancelledEnds(j) \/ connectFlow(j)
             \/ StartTeardown(j) \/ GoIdle(j) \/ JoinSession(j)
    BY <2>4, OutsideIsQuiet, QuietKeeps
  <2>5. CASE GiveUp(j)
    BY <2>5, LaunchIsQuiet, QuietKeeps
  <2>6. CASE FlowActions(j) /\ ~connectFlow(j)
    <3>1. FlowStep(j)
      BY <2>6, FlowActionIsFlowStep
    <3>2. pc[j] # "flow"
      BY <2>6 DEF FlowActions, BeginRung, AwaitClosed, StartEngine, AssignEngine, AwaitOpen,
           StageProven, CreateTransport, TransportStarts, TorFrontStarts, Expose, startTun2Socks,
           SelfTestPasses, Connected, Throws, MayThrow, NextRung, ReportError, ExternalEnds, Watch,
           Probe, Backoff, Reopen, Reverify
    <3>3. IsRun(j) /\ InFlow(j)
      BY <3>1, <3>2, FlowIsRun DEF FlowStep, SessInv
    <3>4. OwnStep(j)
      BY <2>6, <3>3, FlowActionIsOwnStep
    <3>5. \A k \in Jobs \ {j} : pc'[k] = pc[k] /\ resume'[k] = resume[k]
      BY <2>1, <3>1, Threads0 DEF FlowStep, Cleanup, Kinds
    <3> QED BY <3>1, <3>3, <3>4, <3>5, OwnStepKeeps DEF FlowStep
  <2> QED BY <1>4, <2>2, <2>3, <2>4, <2>5, <2>6 DEF JobStep, SessionStep, TeardownStep, FlowActions
<1>5. ASSUME NEW p \in Procs, EngineListens(p) \/ EngineExits(p)
      PROVE  OwnInv' /\ TestedInv' /\ ShownInv'
  BY <1>0, <1>5 DEF EngineListens, EngineExits, localVars
<1>6. CASE UNCHANGED vars
  BY <1>0, <1>6 DEF vars, localVars
<1> QED BY <1>1, <1>2, <1>3, <1>4, <1>5, <1>6 DEF Next

-----------------------------------------------------------------------------
(* Engines launched after the cancel.                                      *)

\* The thread is not on its way to a launch.
Away(j) == /\ pc'[j] \notin {"awaitClosed", "spawn", "respawn"}
           /\ pc'[j] \in {"kill", "drop"} => resume'[j] # "awaitClosed"

LEMMA LateFrame ==
    ASSUME LateInv, late' = late, \A k \in Jobs : cancelled[k] => cancelled'[k],
           \A k \in Jobs : \/ pc'[k] = pc[k] /\ resume'[k] = resume[k]
                           \/ late[k] = 0 \/ Away(k)
    PROVE  LateInv'
BY DEF LateInv, Away

LEMMA LateFlow ==
    ASSUME Kinds, Counts, LateInv, NEW j \in Jobs, FlowActions(j), ~StartEngine(j)
    PROVE  late' = late /\ (late[j] = 0 \/ Away(j))
<1>0. /\ j \in Threads /\ pc \in [Threads -> Labels] /\ resume \in [Threads -> Labels]
      /\ late[j] # 0 => cancelled[j] /\ pc[j] \notin {"awaitClosed", "spawn", "respawn"}
  BY Threads0 DEF Kinds, LateInv
<1> USE <1>0 DEF Away, Goto, localVars
<1>1. CASE connectFlow(j)
  BY <1>1 DEF connectFlow, Cleanup
<1>2. CASE BeginRung(j)
  BY <1>2 DEF BeginRung, Cleanup
<1>3. CASE AwaitClosed(j)
  BY <1>3 DEF AwaitClosed
<1>4. CASE AssignEngine(j)
  BY <1>4 DEF AssignEngine
<1>5. CASE AwaitOpen(j)
  BY <1>5 DEF AwaitOpen
<1>6. CASE StageProven(j)
  BY <1>6 DEF StageProven
<1>7. CASE CreateTransport(j)
  BY <1>7 DEF CreateTransport
<1>8. CASE TransportStarts(j)
  BY <1>8 DEF TransportStarts
<1>9. CASE TorFrontStarts(j)
  BY <1>9 DEF TorFrontStarts
<1>10. CASE Expose(j)
  BY <1>10 DEF Expose
<1>11. CASE startTun2Socks(j)
  BY <1>11 DEF startTun2Socks
<1>12. CASE SelfTestPasses(j)
  BY <1>12 DEF SelfTestPasses
<1>13. CASE Connected(j)
  BY <1>13 DEF Connected
<1>14. CASE Throws(j)
  BY <1>14 DEF Throws, MayThrow, Cleanup
<1>15. CASE NextRung(j)
  BY <1>15 DEF NextRung
<1>16. CASE ReportError(j)
  BY <1>16 DEF ReportError, Cleanup
<1>17. CASE ExternalEnds(j)
  BY <1>17 DEF ExternalEnds
<1>18. CASE Watch(j)
  BY <1>18 DEF Watch
<1>19. CASE Probe(j)
  BY <1>19 DEF Probe
<1>20. CASE Backoff(j)
  BY <1>20 DEF Backoff
<1>21. CASE Reopen(j)
  BY <1>21 DEF Reopen
<1>22. CASE Reverify(j)
  BY <1>22 DEF Reverify
<1> QED BY <1>1, <1>2, <1>3, <1>4, <1>5, <1>6, <1>7, <1>8, <1>9, <1>10, <1>11, <1>12, <1>13, <1>14, <1>15, <1>16, <1>17, <1>18, <1>19, <1>20, <1>21, <1>22 DEF FlowActions

LEMMA LateStep ==
    ASSUME Kinds, Counts, SessInv, LateInv, [Next]_vars
    PROVE  LateInv'
<1>0. /\ pc \in [Threads -> Labels] /\ resume \in [Threads -> Labels]
      /\ cancelled \in [Threads -> BOOLEAN] /\ MainThread \in Threads /\ MainThread \notin Jobs
      /\ \A k \in Jobs : k \in Threads
  BY Threads0 DEF Kinds, NoJob, MainThread
<1>1. ASSUME NEW p \in Profiles, startTunnel(p) PROVE LateInv'
  <2>1. /\ Launch("run", p, runJob, stopJob) /\ late' = late /\ resume' = resume
        /\ pc' = [pc EXCEPT ![launched + 1] = "new"] /\ cancelled' = cancelled
    BY <1>1 DEF startTunnel, Goto, localVars
  <2>2. launched + 1 \in Threads
    BY <1>0, <2>1, LaunchFacts DEF SessInv
  <2>3. \A k \in Jobs : (pc'[k] = pc[k] /\ resume'[k] = resume[k]) \/ Away(k)
    BY <1>0, <2>1, <2>2 DEF Away
  <2> QED BY <2>1, <2>3, LateFrame
<1>2. ASSUME NEW j \in Threads, Disconnect \/ onRevoke \/ GiveUp(j) PROVE LateInv'
  <2>1. PICK kind \in {"stop", "lockdown"}, p \in {lastProfile, job[j].prof} : LaunchTeardown(kind, p)
    BY <1>2 DEF Disconnect, onRevoke, stopEverything, GiveUp
  <2>2. /\ Launch(kind, p, runJob, NoJob)
        /\ cancelled' = [k \in Threads |-> cancelled[k] \/ (k # NoJob /\ k = runJob)]
    BY <2>1 DEF LaunchTeardown
  <2>3. launched + 1 \in Threads
    <3>1. kind \in {"run", "stop", "lockdown"}
      OBVIOUS
    <3> QED BY <1>0, <2>2, <3>1, LaunchFacts, Threads0 DEF SessInv
  <2>4. /\ late' = late /\ resume' = resume
        /\ \/ pc' = [pc EXCEPT ![launched + 1] = "new"]
           \/ pc' = [pc EXCEPT ![j] = "done", ![launched + 1] = "new"]
    BY <1>2 DEF Disconnect, onRevoke, stopEverything, GiveUp, Goto, localVars
  <2>5. \A k \in Jobs : (pc'[k] = pc[k] /\ resume'[k] = resume[k]) \/ Away(k)
    BY <1>0, <2>3, <2>4 DEF Away
  <2>6. \A k \in Jobs : cancelled[k] => cancelled'[k]
    BY <1>0, <2>2
  <2> QED BY <2>4, <2>5, <2>6, LateFrame
<1>3. CASE onDestroy \/ MainStep
  <2>1. /\ late' = late /\ \A k \in Jobs : cancelled[k] => cancelled'[k]
        /\ \A k \in Jobs : pc'[k] = pc[k] /\ resume'[k] = resume[k]
    BY <1>0, <1>3 DEF onDestroy, MainStep, CancelScope, Kill, Drop, Goto, Cleanup, localVars
  <2> QED BY <2>1, LateFrame
<1>4. ASSUME NEW j \in Jobs, JobStep(j) PROVE LateInv'
  <2>1. CASE StartEngine(j)
    <3>1. /\ pc[j] \in {"spawn", "respawn"} /\ resume' = resume /\ cancelled' = cancelled
          /\ pc' = [pc EXCEPT ![j] = IF pc[j] = "spawn" THEN "assign" ELSE "reassign"]
          /\ late' = [late EXCEPT ![j] = IF cancelled[j] THEN @ + 1 ELSE @]
      BY <2>1 DEF StartEngine, Goto
    <3>2. late[j] = 0 /\ late \in [Jobs -> Nat]
      BY <3>1 DEF LateInv, Counts
    <3>3. /\ late'[j] = IF cancelled[j] THEN 1 ELSE 0
          /\ \A k \in Jobs \ {j} : late'[k] = late[k] /\ pc'[k] = pc[k]
          /\ pc'[j] \in {"assign", "reassign"}
      BY <1>0, <3>1, <3>2
    <3> QED BY <3>1, <3>3 DEF LateInv
  <2>2. CASE FlowActions(j) /\ ~StartEngine(j)
    <3>1. /\ cancelled' = cancelled
          /\ \A k \in Jobs \ {j} : pc'[k] = pc[k] /\ resume'[k] = resume[k]
      BY <1>0, <2>2, FlowActionIsFlowStep DEF FlowStep, Cleanup
    <3>2. late' = late /\ (late[j] = 0 \/ Away(j))
      BY <2>2, LateFlow
    <3> QED BY <3>1, <3>2, LateFrame
  <2>3. CASE GiveUp(j)
    BY <1>0, <1>2, <2>3
  <2>4. CASE Kill(j) \/ Drop(j)
    <3>1. /\ late' = late /\ cancelled' = cancelled
          /\ \A k \in Jobs \ {j} : pc'[k] = pc[k] /\ resume'[k] = resume[k]
      BY <1>0, <2>4 DEF Kill, Drop, Goto, localVars
    <3>2. /\ pc[j] \in {"kill", "drop"} /\ resume' = resume /\ pc'[j] \in {"drop", resume[j]}
      BY <1>0, <2>4 DEF Kill, Drop, Goto
    <3>3. late[j] # 0 => resume[j] # "awaitClosed"
      BY <3>2 DEF LateInv
    <3>4. resume[j] \notin {"spawn", "respawn"}
      <4>1. LabelsOf(j) /\ job[j].kind \in {"none", "main", "run", "stop", "lockdown"}
        BY <1>0, Known DEF SessInv, JobInv
      <4> QED BY <3>2, <4>1 DEF LabelsOf, IsRun, Returns
    <3>5. late[j] = 0 \/ Away(j)
      BY <3>2, <3>3, <3>4 DEF Away
    <3> QED BY <3>1, <3>5, LateFrame
  <2>5. CASE CancelledEnds(j) \/ JoinRun(j) \/ JoinStop(j) \/ TakeOver(j) \/ TeardownStep(j)
    <3>1. /\ late' = late
          /\ \A k \in Jobs \ {j} : pc'[k] = pc[k] /\ resume'[k] = resume[k]
      BY <1>0, <2>5 DEF CancelledEnds, JoinRun, JoinStop, TakeOver, TeardownStep, StartTeardown,
           GoIdle, Arm, JoinSession, Goto, Cleanup, localVars
    <3>2. Away(j)
      BY <1>0, <2>5 DEF CancelledEnds, JoinRun, JoinStop, TakeOver, TeardownStep, StartTeardown,
           GoIdle, Arm, JoinSession, Goto, Cleanup, Away
    <3>3. \A k \in Jobs : cancelled[k] => cancelled'[k]
      <4>1. CASE TakeOver(j)
        <5>1. cancelled' = [cancelled EXCEPT ![job[j].run] = (job[j].run # NoJob) \/ @]
          BY <4>1 DEF TakeOver
        <5> QED BY <1>0, <5>1
      <4>2. CASE ~TakeOver(j)
        BY <2>5, <4>2 DEF CancelledEnds, JoinRun, JoinStop, TeardownStep, StartTeardown,
             GoIdle, Arm, JoinSession
      <4> QED BY <4>1, <4>2
    <3> QED BY <3>1, <3>2, <3>3, LateFrame
  <2> QED BY <1>4, <2>1, <2>2, <2>3, <2>4, <2>5 DEF JobStep, SessionStep, FlowActions
<1>5. CASE UNCHANGED <<pc, resume, cancelled, late>>
  BY <1>5, LateFrame
<1>6. ASSUME NEW p \in Procs, EngineListens(p) \/ EngineExits(p) PROVE LateInv'
  BY <1>5, <1>6 DEF EngineListens, EngineExits, localVars
<1>7. CASE UNCHANGED vars
  BY <1>5, <1>7 DEF vars, localVars
<1> QED BY <1>0, <1>1, <1>2, <1>3, <1>4, <1>6, <1>7 DEF Next

-----------------------------------------------------------------------------
(* Types.                                                                  *)

\* The identity of a new process is a free one.
LEMMA LeastFree ==
    ASSUME NEW F \in SUBSET Nat, F # {}
    PROVE  (CHOOSE p \in F : \A q \in F : p <= q) \in F
<1>1. \A x, y \in Nat : y < x => <<y, x>> \in OpToRel(<, Nat)
  BY DEF OpToRel
<1>2. \E x \in F : \A y \in F : ~(<<y, x>> \in OpToRel(<, Nat))
  BY NatLessThanWellFounded, WFMin, Zenon
<1>3. PICK x \in F : \A y \in F : ~(y < x)
  BY <1>1, <1>2, Zenon
<1>4. \A y \in F : x <= y
  BY <1>3
<1> QED BY <1>4

\* Killing the engine of the field.
LEMMA StopEngineType ==
    ASSUME Counts, StopEngine
    PROVE  alive' \subseteq Procs /\ listening' \in alive' \cup {NoProc}
BY DEF Counts, StopEngine

\* What most steps leave alone.
LEMMA CountsFrame ==
    ASSUME Counts, UNCHANGED <<launched, runJob, stopJob, rung, attempt, proc, probeFailures, engine,
                               alive, listening, late, restarts>>
    PROVE  Counts'
BY DEF Counts

LEMMA LaunchTypes ==
    ASSUME Kinds, Counts, NEW kind \in {"run", "stop", "lockdown"},
           NEW p \in Profiles \cup {NoProfile}, NEW r \in Threads, NEW s \in Threads,
           Launch(kind, p, r, s)
    PROVE  /\ job' \in [Threads -> [kind : {"none", "main", "run", "stop", "lockdown"},
                           prof : Profiles \cup {NoProfile},
                           run : Threads, stop : Threads]]
           /\ launched' \in 0 .. MaxJobs /\ launched' = launched + 1
           /\ \A i \in 0 .. launched : i \in 0 .. launched'
           /\ launched + 1 \in 0 .. launched' /\ 0 \in 0 .. launched'
           /\ launched + 1 \in Threads
<1>1. /\ launched' \in 0 .. MaxJobs /\ launched' = launched + 1 /\ launched + 1 \in Threads
      /\ launched \in Nat
  BY VpnAssumption DEF Launch, Counts, Threads
<1>2. [kind |-> kind, prof |-> p, run |-> r, stop |-> s]
         \in [kind : {"none", "main", "run", "stop", "lockdown"},
              prof : Profiles \cup {NoProfile}, run : Threads, stop : Threads]
  OBVIOUS
<1>3. job' \in [Threads -> [kind : {"none", "main", "run", "stop", "lockdown"},
                           prof : Profiles \cup {NoProfile},
                           run : Threads, stop : Threads]]
  BY <1>1, <1>2 DEF Launch, Kinds
<1> QED BY <1>1, <1>3

\* A step of one job, from its shape.
LEMMA MoveTypes ==
    ASSUME Kinds, pc' \in [Threads -> Labels], resume' \in [Threads -> Labels],
           job' = job, cancelled' = cancelled, lastProfile' = lastProfile,
           lockdownTunActive' = lockdownTunActive, destroy' = destroy, calm' = calm, wasUp' = wasUp,
           ui' \in States, tun' \in {"none", "tunnel", "lockdown"},
           forwarding' \in BOOLEAN, stage2' \in BOOLEAN, proven' \in [Jobs -> BOOLEAN]
    PROVE  Kinds'
BY Zenon DEF Kinds

LEMMA FlowTypes ==
    ASSUME Kinds, Counts, SessInv, NEW j \in Jobs, FlowActions(j)
    PROVE  Kinds' /\ Counts'
<1>0. /\ j \in Threads /\ NoProc = 0 /\ Procs \subseteq Nat \ {0}
      /\ Rungs \in Nat \ {0} /\ MaxRetries \in Nat \ {0} /\ WATCHDOG_FAIL_CYCLES \in Nat \ {0}
  BY Threads0, VpnAssumption DEF NoProc
<1>k. Kinds'
  <2>0. /\ ui \in States /\ tun \in {"none", "tunnel", "lockdown"}
        /\ forwarding \in BOOLEAN /\ stage2 \in BOOLEAN /\ proven \in [Jobs -> BOOLEAN]
        /\ pc \in [Threads -> Labels] /\ resume \in [Threads -> Labels]
    BY Zenon DEF Kinds
  <2> USE <1>0 DEF Labels, States, Goto, launchVars, fieldVars, localVars, nativeVars, procVars
  <2>1. CASE connectFlow(j)
    BY <2>1 DEF connectFlow, Cleanup, Kinds
  <2>2. CASE BeginRung(j)
    BY <2>2 DEF BeginRung, Cleanup, Kinds
  <2>3. CASE AwaitClosed(j)
    BY <2>3 DEF AwaitClosed, Kinds
  <2>4. CASE StartEngine(j)
    BY <2>4 DEF StartEngine, Kinds
  <2>5. CASE AssignEngine(j)
    <3>1. CASE pc[j] = "assign"
      <4>1. pc' = [pc EXCEPT ![j] = "awaitOpen"] /\ "awaitOpen" \in Labels
        BY <2>5, <3>1 DEF AssignEngine
      <4>2. /\ job' = job /\ cancelled' = cancelled /\ lastProfile' = lastProfile
            /\ lockdownTunActive' = lockdownTunActive /\ destroy' = destroy
            /\ calm' = calm /\ wasUp' = wasUp /\ proven' = proven /\ stage2' = stage2
        BY <2>5 DEF AssignEngine
      <4>3. /\ ui' \in States /\ tun' \in {"none", "tunnel", "lockdown"}
            /\ forwarding' \in BOOLEAN /\ resume' \in [Threads -> Labels]
        BY <2>0, <2>5, <3>1 DEF AssignEngine
      <4>4. pc' \in [Threads -> Labels]
        BY <2>0, <4>1
      <4> QED BY <2>0, <4>2, <4>3, <4>4, MoveTypes, Zenon
    <3>2. CASE pc[j] = "reassign"
      <4>1. pc' = [pc EXCEPT ![j] = "reopen"] /\ "reopen" \in Labels
        BY <2>5, <3>2 DEF AssignEngine
      <4>2. /\ job' = job /\ cancelled' = cancelled /\ lastProfile' = lastProfile
            /\ lockdownTunActive' = lockdownTunActive /\ destroy' = destroy
            /\ calm' = calm /\ wasUp' = wasUp /\ proven' = proven /\ stage2' = stage2
        BY <2>5 DEF AssignEngine
      <4>3. /\ ui' \in States /\ tun' \in {"none", "tunnel", "lockdown"}
            /\ forwarding' \in BOOLEAN /\ resume' \in [Threads -> Labels]
        BY <2>0, <2>5, <3>2 DEF AssignEngine
      <4>4. pc' \in [Threads -> Labels]
        BY <2>0, <4>1
      <4> QED BY <2>0, <4>2, <4>3, <4>4, MoveTypes, Zenon
    <3> QED BY <2>5, <3>1, <3>2 DEF AssignEngine
  <2>6. CASE AwaitOpen(j)
    BY <2>6 DEF AwaitOpen, Kinds
  <2>7. CASE StageProven(j)
    BY <2>7 DEF StageProven, Kinds
  <2>8. CASE CreateTransport(j)
    BY <2>8 DEF CreateTransport, Kinds
  <2>9. CASE TransportStarts(j)
    BY <2>9 DEF TransportStarts, Kinds
  <2>10. CASE TorFrontStarts(j)
    BY <2>10 DEF TorFrontStarts, Kinds
  <2>11. CASE Expose(j)
    <3>1. CASE job[j].prof.proxy
      <4>1. pc' = [pc EXCEPT ![j] = "verify"] /\ "verify" \in Labels
        BY <2>11, <3>1 DEF Expose
      <4>2. /\ job' = job /\ cancelled' = cancelled /\ lastProfile' = lastProfile
            /\ lockdownTunActive' = lockdownTunActive /\ destroy' = destroy
            /\ calm' = calm /\ wasUp' = wasUp /\ proven' = proven /\ stage2' = stage2
        BY <2>11 DEF Expose
      <4>3. /\ ui' \in States /\ tun' \in {"none", "tunnel", "lockdown"}
            /\ forwarding' \in BOOLEAN /\ resume' \in [Threads -> Labels]
        BY <2>0, <2>11, <3>1 DEF Expose
      <4>4. pc' \in [Threads -> Labels]
        BY <2>0, <4>1
      <4> QED BY <2>0, <4>2, <4>3, <4>4, MoveTypes, Zenon
    <3>2. CASE ~job[j].prof.proxy
      <4>1. pc' = [pc EXCEPT ![j] = "forward"] /\ "forward" \in Labels
        BY <2>11, <3>2 DEF Expose
      <4>2. /\ job' = job /\ cancelled' = cancelled /\ lastProfile' = lastProfile
            /\ lockdownTunActive' = lockdownTunActive /\ destroy' = destroy
            /\ calm' = calm /\ wasUp' = wasUp /\ proven' = proven /\ stage2' = stage2
        BY <2>11 DEF Expose
      <4>3. /\ ui' \in States /\ tun' \in {"none", "tunnel", "lockdown"}
            /\ forwarding' \in BOOLEAN /\ resume' \in [Threads -> Labels]
        BY <2>0, <2>11, <3>2 DEF Expose
      <4>4. pc' \in [Threads -> Labels]
        BY <2>0, <4>1
      <4> QED BY <2>0, <4>2, <4>3, <4>4, MoveTypes, Zenon
    <3> QED BY <2>11, <3>1, <3>2 DEF Expose
  <2>12. CASE startTun2Socks(j)
    BY <2>12 DEF startTun2Socks, Kinds
  <2>13. CASE SelfTestPasses(j)
    BY <2>13 DEF SelfTestPasses, Kinds
  <2>14. CASE Connected(j)
    BY <2>14 DEF Connected, Kinds
  <2>15. CASE Throws(j)
    <3>1. CASE pc[j] # "respawn" /\ InLadder(j)
      <4>1. pc' = [pc EXCEPT ![j] = "kill"] /\ "kill" \in Labels
        BY <2>15, <3>1 DEF Throws, Cleanup
      <4>2. /\ job' = job /\ cancelled' = cancelled /\ lastProfile' = lastProfile
            /\ lockdownTunActive' = lockdownTunActive /\ destroy' = destroy
            /\ calm' = calm /\ wasUp' = wasUp /\ proven' = proven /\ stage2' = stage2
        BY <2>15 DEF Throws, Cleanup
      <4>3. /\ ui' \in States /\ tun' \in {"none", "tunnel", "lockdown"}
            /\ forwarding' \in BOOLEAN /\ resume' \in [Threads -> Labels]
        BY <2>0, <2>15, <3>1 DEF Throws, Cleanup
      <4>4. pc' \in [Threads -> Labels]
        BY <2>0, <4>1
      <4> QED BY <2>0, <4>2, <4>3, <4>4, MoveTypes, Zenon
    <3>2. CASE ~(pc[j] # "respawn" /\ InLadder(j))
      <4>1. pc' = [pc EXCEPT ![j] = "error"] /\ "error" \in Labels
        BY <2>15, <3>2 DEF Throws, Cleanup
      <4>2. /\ job' = job /\ cancelled' = cancelled /\ lastProfile' = lastProfile
            /\ lockdownTunActive' = lockdownTunActive /\ destroy' = destroy
            /\ calm' = calm /\ wasUp' = wasUp /\ proven' = proven /\ stage2' = stage2
        BY <2>15 DEF Throws, Cleanup
      <4>3. /\ ui' \in States /\ tun' \in {"none", "tunnel", "lockdown"}
            /\ forwarding' \in BOOLEAN /\ resume' \in [Threads -> Labels]
        BY <2>0, <2>15, <3>2 DEF Throws, Cleanup
      <4>4. pc' \in [Threads -> Labels]
        BY <2>0, <4>1
      <4> QED BY <2>0, <4>2, <4>3, <4>4, MoveTypes, Zenon
    <3> QED BY <2>15, <3>1, <3>2 DEF Throws, Cleanup
  <2>16. CASE NextRung(j)
    BY <2>16 DEF NextRung, Kinds
  <2>17. CASE ReportError(j)
    BY <2>17 DEF ReportError, Cleanup, Kinds
  <2>18. CASE ExternalEnds(j)
    BY <2>18 DEF ExternalEnds, Kinds
  <2>19. CASE Watch(j)
    <3>1. CASE ~currentScopeActive
      <4>1. pc' = [pc EXCEPT ![j] = "done"] /\ "done" \in Labels
        BY <2>19, <3>1 DEF Watch
      <4>2. /\ job' = job /\ cancelled' = cancelled /\ lastProfile' = lastProfile
            /\ lockdownTunActive' = lockdownTunActive /\ destroy' = destroy
            /\ calm' = calm /\ wasUp' = wasUp /\ proven' = proven /\ stage2' = stage2
        BY <2>19 DEF Watch
      <4>3. /\ ui' \in States /\ tun' \in {"none", "tunnel", "lockdown"}
            /\ forwarding' \in BOOLEAN /\ resume' \in [Threads -> Labels]
        BY <2>0, <2>19, <3>1 DEF Watch
      <4>4. pc' \in [Threads -> Labels]
        BY <2>0, <4>1
      <4> QED BY <2>0, <4>2, <4>3, <4>4, MoveTypes, Zenon
    <3>2. CASE currentScopeActive /\ EngineAlive
      <4>1. pc' = [pc EXCEPT ![j] = "awaitExit"] /\ "awaitExit" \in Labels
        BY <2>19, <3>2 DEF Watch
      <4>2. /\ job' = job /\ cancelled' = cancelled /\ lastProfile' = lastProfile
            /\ lockdownTunActive' = lockdownTunActive /\ destroy' = destroy
            /\ calm' = calm /\ wasUp' = wasUp /\ proven' = proven /\ stage2' = stage2
        BY <2>19 DEF Watch
      <4>3. /\ ui' \in States /\ tun' \in {"none", "tunnel", "lockdown"}
            /\ forwarding' \in BOOLEAN /\ resume' \in [Threads -> Labels]
        BY <2>0, <2>19, <3>2 DEF Watch
      <4>4. pc' \in [Threads -> Labels]
        BY <2>0, <4>1
      <4> QED BY <2>0, <4>2, <4>3, <4>4, MoveTypes, Zenon
    <3>3. CASE currentScopeActive /\ ~EngineAlive /\ attempt[j] < MaxRetries
      <4>1. pc' = [pc EXCEPT ![j] = "backoff"] /\ "backoff" \in Labels
        BY <2>19, <3>3 DEF Watch
      <4>2. /\ job' = job /\ cancelled' = cancelled /\ lastProfile' = lastProfile
            /\ lockdownTunActive' = lockdownTunActive /\ destroy' = destroy
            /\ calm' = calm /\ wasUp' = wasUp /\ proven' = proven /\ stage2' = stage2
        BY <2>19 DEF Watch
      <4>3. /\ ui' \in States /\ tun' \in {"none", "tunnel", "lockdown"}
            /\ forwarding' \in BOOLEAN /\ resume' \in [Threads -> Labels]
        BY <2>0, <2>19, <3>3 DEF Watch
      <4>4. pc' \in [Threads -> Labels]
        BY <2>0, <4>1
      <4> QED BY <2>0, <4>2, <4>3, <4>4, MoveTypes, Zenon
    <3>4. CASE currentScopeActive /\ ~EngineAlive /\ ~(attempt[j] < MaxRetries)
      <4>1. pc' = [pc EXCEPT ![j] = "error"] /\ "error" \in Labels
        BY <2>19, <3>4 DEF Watch
      <4>2. /\ job' = job /\ cancelled' = cancelled /\ lastProfile' = lastProfile
            /\ lockdownTunActive' = lockdownTunActive /\ destroy' = destroy
            /\ calm' = calm /\ wasUp' = wasUp /\ proven' = proven /\ stage2' = stage2
        BY <2>19 DEF Watch
      <4>3. /\ ui' \in States /\ tun' \in {"none", "tunnel", "lockdown"}
            /\ forwarding' \in BOOLEAN /\ resume' \in [Threads -> Labels]
        BY <2>0, <2>19, <3>4 DEF Watch
      <4>4. pc' \in [Threads -> Labels]
        BY <2>0, <4>1
      <4> QED BY <2>0, <4>2, <4>3, <4>4, MoveTypes, Zenon
    <3> QED BY <2>19, <3>1, <3>2, <3>3, <3>4 DEF Watch
  <2>20. CASE Probe(j)
    BY <2>20 DEF Probe, Kinds
  <2>21. CASE Backoff(j)
    BY <2>21 DEF Backoff, Kinds
  <2>22. CASE Reopen(j)
    BY <2>22 DEF Reopen, Kinds
  <2>23. CASE Reverify(j)
    <3>1. pc' \in [Threads -> Labels]
      BY <2>0, <2>23 DEF Reverify
    <3>2. proven' \in [Jobs -> BOOLEAN] /\ ui' \in States
      BY <2>0, <2>23 DEF Reverify
    <3>3. /\ job' = job /\ cancelled' = cancelled /\ lastProfile' = lastProfile
          /\ lockdownTunActive' = lockdownTunActive /\ destroy' = destroy
          /\ calm' = calm /\ wasUp' = wasUp /\ stage2' = stage2 /\ tun' = tun
          /\ forwarding' = forwarding /\ resume' = resume
      BY <2>23 DEF Reverify
    <3> QED BY <2>0, <3>1, <3>2, <3>3, MoveTypes, Zenon
  <2> QED BY <2>1, <2>2, <2>3, <2>4, <2>5, <2>6, <2>7, <2>8, <2>9, <2>10, <2>11, <2>12, <2>13, <2>14, <2>15, <2>16, <2>17, <2>18, <2>19, <2>20, <2>21, <2>22, <2>23 DEF FlowActions
<1>c. Counts'
  <2>0. CASE UNCHANGED <<launched, runJob, stopJob, rung, attempt, proc, probeFailures, engine,
                         alive, listening, late, restarts>>
    BY <2>0, CountsFrame
  <2> USE <1>0 DEF launchVars, fieldVars, localVars, nativeVars, procVars
  <2>1. CASE connectFlow(j)
    BY <2>0, <2>1 DEF connectFlow
  <2>2. CASE BeginRung(j)
    BY <2>0, <2>2 DEF BeginRung
  <2>3. CASE AwaitClosed(j)
    BY <2>0, <2>3 DEF AwaitClosed
  <2>4. CASE StartEngine(j)
    <3>1. Free # {} /\ Free \in SUBSET Nat /\ Free \subseteq Procs
      BY <2>4 DEF StartEngine, Free
    <3> PICK f \in Procs : f = CHOOSE p \in Free : \A q \in Free : p <= q
      BY <3>1, LeastFree
    <3>2. /\ proc' = [proc EXCEPT ![j] = f] /\ alive' = alive \cup {f}
          /\ late' = [late EXCEPT ![j] = IF cancelled[j] THEN @ + 1 ELSE @]
          /\ restarts' = [restarts EXCEPT ![j] =
                            IF pc[j] = "respawn" /\ @ <= MaxRetries THEN @ + 1 ELSE @]
          /\ UNCHANGED <<launched, runJob, stopJob, rung, attempt, probeFailures, engine, listening>>
      BY <2>4 DEF StartEngine
    <3>3. proc' \in [Jobs -> Procs \cup {NoProc}] /\ alive' \subseteq Procs
          /\ listening' \in alive' \cup {NoProc}
      BY <3>2 DEF Counts
    <3>4. late' \in [Jobs -> Nat] /\ restarts' \in [Jobs -> 0 .. MaxRetries + 1]
      BY <3>2 DEF Counts
    <3> QED BY <3>2, <3>3, <3>4 DEF Counts
  <2>5. CASE AssignEngine(j)
    BY <2>5, StopEngineType DEF AssignEngine, Counts
  <2>6. CASE AwaitOpen(j)
    BY <2>0, <2>6 DEF AwaitOpen
  <2>7. CASE StageProven(j)
    BY <2>0, <2>7 DEF StageProven
  <2>8. CASE CreateTransport(j)
    BY <2>0, <2>8 DEF CreateTransport
  <2>9. CASE TransportStarts(j)
    BY <2>0, <2>9 DEF TransportStarts
  <2>10. CASE TorFrontStarts(j)
    BY <2>0, <2>10 DEF TorFrontStarts
  <2>11. CASE Expose(j)
    BY <2>0, <2>11 DEF Expose
  <2>12. CASE startTun2Socks(j)
    BY <2>0, <2>12 DEF startTun2Socks
  <2>13. CASE SelfTestPasses(j)
    BY <2>0, <2>13 DEF SelfTestPasses
  <2>14. CASE Connected(j)
    BY <2>0, <2>14 DEF Connected
  <2>15. CASE Throws(j)
    BY <2>0, <2>15 DEF Throws
  <2>16. CASE NextRung(j)
    BY <2>16, StopEngineType DEF NextRung, Counts
  <2>17. CASE ReportError(j)
    BY <2>0, <2>17 DEF ReportError
  <2>18. CASE ExternalEnds(j)
    BY <2>0, <2>18 DEF ExternalEnds
  <2>19. CASE Watch(j)
    BY <2>19, StopEngineType DEF Watch, Counts
  <2>20. CASE Probe(j)
    <3>1. alive' \subseteq Procs /\ listening' \in alive' \cup {NoProc}
      BY <2>20, StopEngineType DEF Probe, Counts
    <3>2. probeFailures' \in 0 .. WATCHDOG_FAIL_CYCLES - 1
      BY <2>20 DEF Probe, Counts
    <3> QED BY <2>20, <3>1, <3>2 DEF Probe, Counts
  <2>21. CASE Backoff(j)
    BY <2>0, <2>21 DEF Backoff
  <2>22. CASE Reopen(j)
    BY <2>0, <2>22 DEF Reopen
  <2>23. CASE Reverify(j)
    <3>1. alive' \subseteq Procs /\ listening' \in alive' \cup {NoProc}
      BY <2>23, StopEngineType DEF Reverify, Counts
    <3>2. attempt' \in [Jobs -> 0 .. MaxRetries] /\ restarts' \in [Jobs -> 0 .. MaxRetries + 1]
      BY <2>23 DEF Reverify, Counts
    <3> QED BY <2>23, <3>1, <3>2 DEF Reverify, Counts
  <2> QED BY <2>1, <2>2, <2>3, <2>4, <2>5, <2>6, <2>7, <2>8, <2>9, <2>10, <2>11, <2>12, <2>13, <2>14, <2>15, <2>16, <2>17, <2>18, <2>19, <2>20, <2>21, <2>22, <2>23 DEF FlowActions
<1> QED BY <1>k, <1>c


\* The steps of cleanups, joins and teardowns.
LEMMA JoinTypes ==
    ASSUME Kinds, Counts, NEW j \in Threads,
           \/ Kill(j) \/ Drop(j) \/ CancelledEnds(j) \/ JoinRun(j) \/ JoinStop(j)
           \/ StartTeardown(j) \/ JoinSession(j)
    PROVE  Kinds' /\ Counts'
<1>0. /\ ui \in States /\ tun \in {"none", "tunnel", "lockdown"}
      /\ forwarding \in BOOLEAN /\ stage2 \in BOOLEAN /\ proven \in [Jobs -> BOOLEAN]
      /\ pc \in [Threads -> Labels] /\ resume \in [Threads -> Labels]
  BY Zenon DEF Kinds
<1>1. /\ job' = job /\ cancelled' = cancelled /\ lastProfile' = lastProfile
      /\ lockdownTunActive' = lockdownTunActive /\ destroy' = destroy
      /\ calm' = calm /\ wasUp' = wasUp /\ proven' = proven /\ ui' = ui
  BY DEF Kill, Drop, CancelledEnds, JoinRun, JoinStop, StartTeardown, JoinSession,
         launchVars, fieldVars, localVars
<1>2. pc' \in [Threads -> Labels]
  BY <1>0 DEF Kill, Drop, CancelledEnds, JoinRun, JoinStop, StartTeardown, JoinSession,
         Goto, Cleanup, Labels
<1>3. resume' \in [Threads -> Labels]
  BY <1>0 DEF Kill, Drop, CancelledEnds, JoinRun, JoinStop, StartTeardown, JoinSession,
         Cleanup, Labels
<1>4. tun' \in {"none", "tunnel", "lockdown"} /\ forwarding' \in BOOLEAN /\ stage2' \in BOOLEAN
  BY <1>0 DEF Kill, Drop, CancelledEnds, JoinRun, JoinStop, StartTeardown, JoinSession, nativeVars
<1>k. Kinds'
  BY <1>0, <1>1, <1>2, <1>3, <1>4, MoveTypes, Zenon
<1>5. CASE Kill(j)
  <2>1. alive' \subseteq Procs /\ listening' \in alive' \cup {NoProc}
    BY <1>5, StopEngineType DEF Kill
  <2>2. UNCHANGED <<launched, runJob, stopJob, rung, attempt, proc, probeFailures, engine, late,
                    restarts>>
    BY <1>5 DEF Kill, launchVars, localVars, fieldVars
  <2> QED BY <1>k, <2>1, <2>2 DEF Counts
<1>6. CASE Drop(j)
  <2>1. /\ engine' = NoProc
        /\ UNCHANGED <<launched, runJob, stopJob, rung, attempt, proc, probeFailures, alive,
                       listening, late, restarts>>
    BY <1>6 DEF Drop, launchVars, localVars, fieldVars, procVars
  <2> QED BY <1>k, <2>1 DEF Counts
<1>7. CASE CancelledEnds(j) \/ JoinRun(j) \/ JoinStop(j) \/ StartTeardown(j) \/ JoinSession(j)
  BY <1>7, <1>k, CountsFrame DEF CancelledEnds, JoinRun, JoinStop, StartTeardown, JoinSession,
     launchVars, localVars, fieldVars, nativeVars, procVars
<1> QED BY <1>5, <1>6, <1>7

\* Taking over writes the cancellation of another job, a finished teardown the
\* state, the lockdown and the end of the service.
LEMMA ServiceTypes ==
    ASSUME Kinds, Counts, NEW j \in Threads, TakeOver(j) \/ GoIdle(j) \/ Arm(j)
    PROVE  Kinds' /\ Counts'
<1>c. Counts'
  BY CountsFrame DEF TakeOver, GoIdle, Arm, launchVars, localVars, fieldVars, nativeVars, procVars
<1>0. /\ pc \in [Threads -> Labels] /\ resume \in [Threads -> Labels]
      /\ lockdownTunActive \in BOOLEAN /\ destroy \in {"no", "asked", "running", "done"}
      /\ ui \in States /\ tun \in {"none", "tunnel", "lockdown"}
      /\ cancelled \in [Threads -> BOOLEAN] /\ job[j].run \in Threads
  <2>1. job[j].run \in Threads
    BY DEF Kinds
  <2> QED BY <2>1, Zenon DEF Kinds
<1>1. /\ job' = job /\ lastProfile' = lastProfile /\ calm' = calm /\ wasUp' = wasUp
      /\ proven' = proven /\ forwarding' = forwarding /\ stage2' = stage2
  BY DEF TakeOver, GoIdle, Arm, launchVars, localVars, nativeVars
<1>2. pc' \in [Threads -> Labels] /\ resume' \in [Threads -> Labels]
  BY <1>0 DEF TakeOver, GoIdle, Arm, Goto, Cleanup, Labels
<1>3. ui' \in States /\ tun' \in {"none", "tunnel", "lockdown"}
      /\ destroy' \in {"no", "asked", "running", "done"}
  BY <1>0 DEF TakeOver, GoIdle, Arm, States, fieldVars, nativeVars
<1>4. lockdownTunActive' \in BOOLEAN
  BY <1>0 DEF TakeOver, GoIdle, Arm, fieldVars
<1>5. cancelled' \in [Threads -> BOOLEAN]
  <2>1. CASE TakeOver(j)
    <3>1. PICK b \in BOOLEAN : cancelled' = [cancelled EXCEPT ![job[j].run] = b]
      BY <1>0, <2>1, Zenon DEF TakeOver
    <3> QED BY <1>0, <3>1
  <2>2. CASE GoIdle(j) \/ Arm(j)
    BY <1>0, <2>2 DEF GoIdle, Arm
  <2> QED BY <2>1, <2>2
<1> QED BY <1>c, <1>1, <1>2, <1>3, <1>4, <1>5, Zenon DEF Kinds

\* The launches.
LEMMA LaunchingTypes ==
    ASSUME Kinds, Counts, NEW j \in Jobs,
           (\E p \in Profiles : startTunnel(p)) \/ Disconnect \/ onRevoke \/ GiveUp(j)
    PROVE  Kinds' /\ Counts'
<1>0. /\ pc \in [Threads -> Labels] /\ resume \in [Threads -> Labels] /\ ui \in States
      /\ calm \in BOOLEAN /\ cancelled \in [Threads -> BOOLEAN] /\ job[j].prof \in Profiles \cup {NoProfile}
      /\ lastProfile \in Profiles \cup {NoProfile} /\ runJob \in Threads /\ stopJob \in Threads
      /\ j \in Threads /\ NoJob \in Threads
  <2>1. job[j].prof \in Profiles \cup {NoProfile} /\ j \in Threads
    BY Threads0 DEF Kinds
  <2>2. runJob \in Threads /\ stopJob \in Threads /\ NoJob \in Threads
    BY VpnAssumption DEF Counts, Threads, NoJob
  <2> QED BY <2>1, <2>2, Zenon DEF Kinds
<1>1. /\ resume' = resume /\ lockdownTunActive' = lockdownTunActive /\ tun' = tun
      /\ forwarding' = forwarding /\ stage2' = stage2 /\ proven' = proven /\ wasUp' = wasUp
      /\ UNCHANGED <<rung, attempt, proc, probeFailures, engine, alive, listening, late, restarts>>
  BY DEF startTunnel, Disconnect, onRevoke, GiveUp, localVars, fieldVars, nativeVars, procVars
<1>2. destroy' \in {"no", "asked", "running", "done"} /\ ui' \in States
  <2>1. destroy \in {"no", "asked", "running", "done"}
    BY DEF Kinds
  <2> QED BY <1>0, <2>1 DEF startTunnel, Disconnect, onRevoke, stopEverything, GiveUp, fieldVars, States
<1>3. calm' \in BOOLEAN
  BY Zenon DEF startTunnel, Disconnect, onRevoke, stopEverything, GiveUp, LaunchTeardown
<1>4. cancelled' \in [Threads -> BOOLEAN]
  <2>1. CASE \E p \in Profiles : startTunnel(p)
    BY <1>0, <2>1 DEF startTunnel
  <2>2. CASE Disconnect \/ onRevoke \/ GiveUp(j)
    <3>1. cancelled' = [k \in Threads |-> cancelled[k] \/ (k # NoJob /\ k = runJob)]
      BY <2>2 DEF Disconnect, onRevoke, stopEverything, GiveUp, LaunchTeardown
    <3> QED BY <3>1, Zenon
  <2> QED BY <2>1, <2>2
<1>5. lastProfile' \in Profiles \cup {NoProfile}
  BY <1>0 DEF startTunnel, Disconnect, onRevoke, stopEverything, GiveUp, LaunchTeardown
<1>6. PICK kind \in {"run", "stop", "lockdown"}, p \in Profiles \cup {NoProfile}, s \in Threads :
        Launch(kind, p, runJob, s)
  BY <1>0 DEF startTunnel, Disconnect, onRevoke, stopEverything, GiveUp, LaunchTeardown
<1>7. /\ job' \in [Threads -> [kind : {"none", "main", "run", "stop", "lockdown"},
                           prof : Profiles \cup {NoProfile},
                           run : Threads, stop : Threads]]
      /\ launched' \in 0 .. MaxJobs /\ launched' = launched + 1
      /\ \A i \in 0 .. launched : i \in 0 .. launched'
      /\ launched + 1 \in 0 .. launched' /\ 0 \in 0 .. launched'
      /\ launched + 1 \in Threads
  BY <1>0, <1>6, LaunchTypes
<1>8. \/ pc' = [pc EXCEPT ![launched + 1] = "new"]
      \/ pc' = [pc EXCEPT ![j] = "done", ![launched + 1] = "new"]
  BY DEF startTunnel, Disconnect, onRevoke, stopEverything, GiveUp, Goto
<1>9. pc' \in [Threads -> Labels]
  BY <1>0, <1>7, <1>8 DEF Labels
<1>10. runJob' \in {0, launched + 1} /\ stopJob' \in {stopJob, launched + 1}
  BY DEF startTunnel, Disconnect, onRevoke, stopEverything, GiveUp, LaunchTeardown, NoJob
<1>11. runJob' \in 0 .. launched' /\ stopJob' \in 0 .. launched'
  BY <1>7, <1>10 DEF Counts
<1>k. Kinds'
  BY <1>0, <1>1, <1>2, <1>3, <1>4, <1>5, <1>7, <1>9, Zenon DEF Kinds
<1>c. Counts'
  BY <1>1, <1>7, <1>11 DEF Counts
<1> QED BY <1>k, <1>c

\* The main thread and the processes.
LEMMA OutsideTypes ==
    ASSUME Kinds, Counts, onDestroy \/ CancelScope
    PROVE  Kinds' /\ Counts'
<1>c. Counts'
  BY CountsFrame DEF onDestroy, CancelScope, launchVars, localVars, fieldVars, nativeVars, procVars
<1>0. pc \in [Threads -> Labels] /\ resume \in [Threads -> Labels]
  BY Zenon DEF Kinds
<1>1. /\ job' = job /\ lastProfile' = lastProfile /\ calm' = calm /\ wasUp' = wasUp /\ ui' = ui
      /\ proven' = proven /\ forwarding' = forwarding /\ stage2' = stage2 /\ tun' = tun
      /\ lockdownTunActive' = lockdownTunActive
  BY DEF onDestroy, CancelScope, launchVars, localVars, nativeVars
<1>2. pc' \in [Threads -> Labels] /\ resume' \in [Threads -> Labels]
      /\ destroy' \in {"no", "asked", "running", "done"}
  BY <1>0, Threads0 DEF onDestroy, CancelScope, Goto, Cleanup, Labels
<1>3. cancelled' \in [Threads -> BOOLEAN]
  <2>1. \/ cancelled' = [k \in Threads |-> cancelled[k] \/ (k # NoJob /\ k = runJob)]
        \/ cancelled' = [k \in Threads |-> TRUE]
    BY DEF onDestroy, CancelScope
  <2> QED BY <2>1, Zenon
<1> QED BY <1>c, <1>1, <1>2, <1>3, Zenon DEF Kinds

LEMMA ProcessTypes ==
    ASSUME Kinds, Counts, NEW p \in Procs, EngineListens(p) \/ EngineExits(p)
    PROVE  Kinds' /\ Counts'
<1>1. /\ UNCHANGED <<job, launched, runJob, stopJob, lastProfile, calm>>
      /\ pc' = pc /\ resume' = resume /\ cancelled' = cancelled /\ ui' = ui
      /\ UNCHANGED <<rung, attempt, proc, late, proven, restarts, wasUp>>
      /\ UNCHANGED <<lockdownTunActive, probeFailures, destroy>>
      /\ UNCHANGED <<engine, tun, forwarding, stage2>>
  BY DEF EngineListens, EngineExits, launchVars, localVars, fieldVars, nativeVars
<1>2. alive' \subseteq Procs /\ listening' \in alive' \cup {NoProc}
  BY DEF EngineListens, EngineExits, Counts
<1>k. Kinds'
  BY <1>1 DEF Kinds
<1>c. Counts'
  BY <1>1, <1>2 DEF Counts
<1> QED BY <1>k, <1>c

LEMMA TypeStep ==
    ASSUME Kinds, Counts, SessInv, [Next]_vars
    PROVE  Kinds' /\ Counts'
<1>1. CASE (\E p \in Profiles : startTunnel(p)) \/ Disconnect \/ onRevoke
  <2>1. launched < MaxJobs
    BY <1>1 DEF startTunnel, Disconnect, onRevoke, stopEverything, LaunchTeardown, Launch
  <2>2. 1 \in Jobs
    BY <2>1, VpnAssumption DEF Counts, Jobs
  <2> QED BY <1>1, <2>2, LaunchingTypes
<1>2. CASE onDestroy
  BY <1>2, OutsideTypes
<1>3. CASE MainStep
  BY <1>3, OutsideTypes, JoinTypes, Threads0 DEF MainStep
<1>4. ASSUME NEW j \in Jobs, JobStep(j) PROVE Kinds' /\ Counts'
  <2>0. j \in Threads
    BY Threads0
  <2>1. CASE \/ Kill(j) \/ Drop(j) \/ CancelledEnds(j) \/ JoinRun(j) \/ JoinStop(j)
             \/ StartTeardown(j) \/ JoinSession(j)
    BY <2>0, <2>1, JoinTypes
  <2>2. CASE TakeOver(j) \/ GoIdle(j) \/ Arm(j)
    BY <2>0, <2>2, ServiceTypes
  <2>3. CASE GiveUp(j)
    BY <2>3, LaunchingTypes
  <2>4. CASE FlowActions(j)
    BY <2>4, FlowTypes
  <2> QED BY <1>4, <2>1, <2>2, <2>3, <2>4 DEF JobStep, SessionStep, TeardownStep, FlowActions
<1>5. ASSUME NEW p \in Procs, EngineListens(p) \/ EngineExits(p) PROVE Kinds' /\ Counts'
  BY <1>5, ProcessTypes
<1>6. CASE UNCHANGED vars
  <2>1. /\ UNCHANGED <<job, launched, runJob, stopJob, lastProfile, calm>>
        /\ pc' = pc /\ resume' = resume /\ cancelled' = cancelled /\ ui' = ui
        /\ UNCHANGED <<rung, attempt, proc, late, proven, restarts, wasUp>>
        /\ UNCHANGED <<lockdownTunActive, probeFailures, destroy>>
        /\ UNCHANGED <<engine, tun, forwarding, stage2, alive, listening>>
    BY <1>6 DEF vars, launchVars, localVars, fieldVars, nativeVars, procVars
  <2>k. Kinds'
    BY <2>1 DEF Kinds
  <2>c. Counts'
    BY <2>1 DEF Counts
  <2> QED BY <2>k, <2>c
<1> QED BY <1>1, <1>2, <1>3, <1>4, <1>5, <1>6 DEF Next

-----------------------------------------------------------------------------
(* The invariant holds, and what it says.                                  *)

LEMMA InitInv == Init => IInv
<1> SUFFICES ASSUME Init PROVE IInv
  OBVIOUS
<1>0. /\ MaxJobs \in Nat /\ Rungs \in Nat \ {0} /\ MaxRetries \in Nat \ {0}
      /\ WATCHDOG_FAIL_CYCLES \in Nat \ {0}
      /\ MainThread \in Threads /\ MainThread = 0 /\ NoJob = 0 /\ NoProc = 0
      /\ \A j \in Jobs : j \in Threads /\ j \in Nat /\ j > 0 /\ j # MainThread
  BY VpnAssumption DEF Jobs, Threads, NoJob, MainThread, NoProc
<1>1. Kinds
  <2>1. job \in [Threads -> [kind : {"none", "main", "run", "stop", "lockdown"},
                           prof : Profiles \cup {NoProfile},
                           run : Threads, stop : Threads]]
    BY <1>0 DEF Init
  <2>2. pc \in [Threads -> Labels] /\ resume \in [Threads -> Labels]
        /\ ui \in States /\ destroy \in {"no", "asked", "running", "done"}
        /\ tun \in {"none", "tunnel", "lockdown"} /\ lastProfile \in Profiles \cup {NoProfile}
    BY DEF Init, Labels, States
  <2>3. /\ cancelled \in [Threads -> BOOLEAN] /\ lockdownTunActive \in BOOLEAN
        /\ forwarding \in BOOLEAN /\ stage2 \in BOOLEAN
        /\ proven \in [Jobs -> BOOLEAN] /\ wasUp \in [Jobs -> BOOLEAN] /\ calm \in BOOLEAN
    BY DEF Init
  <2> QED BY <2>1, <2>2, <2>3 DEF Kinds
<1>2. Counts
  BY <1>0 DEF Init, Counts
<1>3. \A j \in Jobs : /\ job[j].kind = "none" /\ job[j].run = NoJob /\ job[j].stop = NoJob
                      /\ pc[j] = "none" /\ ~cancelled[j] /\ late[j] = 0 /\ j > launched
  BY <1>0 DEF Init
<1>4. /\ job[MainThread].kind = "main" /\ pc[MainThread] = "none"
      /\ runJob = NoJob /\ stopJob = NoJob /\ destroy = "no"
  BY <1>0 DEF Init
<1>5. JobInv
  BY <1>3, <1>4 DEF JobInv, MainInv, LabelsOf, LinksOf, IsRun
<1>6. \A j \in Jobs : ~IsRun(j) /\ job[j].kind \notin Teardowns
  BY <1>3 DEF IsRun, Teardowns
<1>8. FieldInv /\ CancelInv
  BY <1>3, <1>4, <1>6 DEF FieldInv, CancelInv
<1>9. JoinInv /\ CalmInv
  BY <1>4, <1>6 DEF JoinInv, CalmInv, Leftovers
<1>7. OwnInv /\ TestedInv /\ ShownInv /\ LateInv
  BY <1>3, <1>4 DEF OwnInv, TestedInv, ShownInv, LateInv, IsRun
<1> QED BY <1>1, <1>2, <1>5, <1>7, <1>8, <1>9 DEF IInv, SessInv

LEMMA Inductive == Spec => []IInv
<1>1. IInv /\ [Next]_vars => IInv'
  BY TypeStep, SessStep, OwnershipStep, LateStep DEF IInv
<1> QED BY <1>1, InitInv, PTL DEF Spec

\* Every field, local and flag keeps its type; the watchdog's counter stays
\* below WATCHDOG_FAIL_CYCLES, `attempt` within maxRetries, and the SOCKS port is
\* held by a live process or by nobody.
THEOREM TypeCorrect == Spec => []TypeOK
<1>1. IInv => TypeOK
  BY Zenon DEF IInv, Kinds, Counts, TypeOK
<1> QED BY <1>1, Inductive, PTL

\* However commands, cancellations and crashes fall, a cancelled session starts
\* at most the one engine whose launch was already under way.
THEOREM LateLaunchesHolds == Spec => []LateLaunches
<1>1. IInv => LateLaunches
  <2> SUFFICES ASSUME IInv, NEW j \in Jobs PROVE late[j] <= 1
    BY DEF LateLaunches
  <2>1. late[j] = 0 \/ late[j] = 1
    BY DEF IInv, LateInv
  <2> QED BY <2>1
<1> QED BY <1>1, Inductive, PTL

\* As long as commands wait for the previous one, sessions do not overlap in
\* their connect flow, and the natives of a session that has not been cancelled
\* are its own: no cleanup of another session, a teardown or onDestroy takes them.
THEOREM OneSessionOwnsHolds == Spec => []OneSessionOwns
<1>1. IInv => SessionsDoNotOverlap
  BY NoOverlap DEF IInv, SessionsDoNotOverlap
<1>2. IInv => LiveSessionOwnsNatives
  <2> SUFFICES ASSUME IInv, calm, NEW j \in Jobs, IsRun(j), ~cancelled[j]
               PROVE  /\ pc[j] \in HasEngine => engine = proc[j]
                      /\ pc[j] \in HasTun => (tun = "tunnel") = ~job[j].prof.proxy
                      /\ pc[j] \in HasTun \ {"forward"} => forwarding
                      /\ pc[j] \in HasTun /\ ModeOf(j) # "plain" => stage2
    BY DEF LiveSessionOwnsNatives
  <2>1. Owns(j)
    BY DEF IInv, OwnInv
  <2> QED BY <2>1 DEF Owns
<1>3. IInv => OneSessionOwns
  BY <1>1, <1>2 DEF OneSessionOwns
<1> QED BY <1>3, Inductive, PTL

\* Under the same condition the state shown is Connected only when the engine
\* of the current session passed the self-test after its last (re)start, and
\* that engine is the one the service holds.
THEOREM ConnectedIsProvenHolds == Spec => []ConnectedIsProven
<1>1. IInv => ConnectedIsProven
  BY DEF IInv, ShownInv, ConnectedIsProven
<1> QED BY <1>1, Inductive, PTL
=============================================================================
