---------------------------- MODULE AnalysisRuns -----------------------------
(***************************************************************************)
(* The life of the Review Board's analysis runs of one project: the table  *)
(* review_analysis_runs, the API handlers that open a run and enqueue its  *)
(* job, the BullMQ job, and the workers that execute it.                   *)
(*                                                                         *)
(* Handlers and workers are split at every database or Redis call, since   *)
(* other handlers and workers run between two of them.  A worker may crash *)
(* at any point; a worker whose job lock lapsed keeps running (a zombie)   *)
(* while the job is delivered again.  Time is the age of a run's last      *)
(* heartbeat; the two timeouts of the code are the constants RunReclaim    *)
(* and RunLease, in ticks.                                                 *)
(***************************************************************************)
EXTENDS Naturals, FiniteSets, Sequences

CONSTANTS Runs,         \* run ids that may be drawn
          Starters,     \* API requests that can be in flight together
          Workers,      \* BullMQ worker slots
          NoRun,        \* the run of a request or worker that is idle
          NoWorker,     \* holder of a job no worker has taken
          RunReclaim,   \* RUN_RECLAIM_MINUTES, in ticks
          RunLease,     \* RUN_LEASE_MINUTES, in ticks
          MaxStalls     \* redeliveries of a stalled job (BullMQ maxStalledCount)

ASSUME TimeoutAssumption ==
    /\ RunReclaim \in Nat
    /\ RunLease \in Nat
    /\ RunReclaim < RunLease
    /\ MaxStalls \in Nat

ASSUME NoneAssumption == NoRun \notin Runs /\ NoWorker \notin Workers

VARIABLES run,      \* the rows of review_analysis_runs
          job,      \* the BullMQ job of each run
          starter,  \* where each startAnalysis request is
          worker,   \* where each execution of runAnalysis is
          written   \* the runs whose findings were committed, in that order

runsVars == <<run, job, starter, worker, written>>

Active   == {"queued", "running"}
Terminal == {"completed", "failed"}
Ages     == 0 .. (RunLease + 1)

(* Points of runAnalysis between the claim and the last write *)
Executing == {"read", "beat", "analyse", "persist"}

Idle == [pc |-> "idle", id |-> NoRun]

RunTyped ==
    run \in [Runs -> [status : {"absent"} \cup Active \cup Terminal, age : Ages]]

JobTyped ==
    job \in [Runs -> [state : {"none", "waiting", "active", "gone"},
                     holder : Workers \cup {NoWorker}, stalls : 0 .. MaxStalls]]

StarterTyped ==
    /\ starter \in [Starters -> [pc : {"idle", "insert", "enqueue", "refused"},
                                 id : Runs \cup {NoRun}]]
    /\ \A s \in Starters : starter[s].pc \in {"enqueue", "refused"} => starter[s].id \in Runs

WorkerTyped ==
    /\ worker \in [Workers -> [pc : {"idle", "claim"} \cup Executing, id : Runs \cup {NoRun}]]
    /\ \A w \in Workers : worker[w].pc # "idle" => worker[w].id \in Runs

WrittenTyped == written \in Seq(Runs)

RunsTypeOK == RunTyped /\ JobTyped /\ StarterTyped /\ WorkerTyped /\ WrittenTyped

RunsInit ==
    /\ run = [r \in Runs |-> [status |-> "absent", age |-> 0]]
    /\ job = [r \in Runs |-> [state |-> "none", holder |-> NoWorker, stalls |-> 0]]
    /\ starter = [s \in Starters |-> Idle]
    /\ worker = [w \in Workers |-> Idle]
    /\ written = <<>>

----------------------------------------------------------------------------
(* Rows of review_analysis_runs.  The age of a run that is not active is   *)
(* never looked at and is kept at 0.                                       *)

IsActive(r) == run[r].status \in Active

(* The lease with its 'queued' forgotten *)
SilentRunning(r) == run[r].status = "running" /\ run[r].age > RunLease

Silent(r) == IsActive(r) /\ run[r].age > RunLease

SetStatus(r, status) == run' = [run EXCEPT ![r] = [status |-> status, age |-> 0]]

(* UPDATE ... SET status WHERE id = r AND status = 'running' *)
SetIfRunning(r, status) ==
    run' = IF run[r].status = "running"
           THEN [run EXCEPT ![r] = [status |-> status, age |-> 0]]
           ELSE run

(* The unique index with its 'queued' forgotten *)
NoRunningRun == \A r \in Runs : run[r].status # "running"

(* The partial unique index on active runs lets an INSERT through *)
NoActiveRun == \A r \in Runs : ~ IsActive(r)

ExpireStaleRuns ==
    run' = [r \in Runs |-> IF Silent(r) THEN [status |-> "failed", age |-> 0] ELSE run[r]]

----------------------------------------------------------------------------
(* The API: opening a run, and reading the status of the latest one *)

GetLatestAnalysis ==
    /\ ExpireStaleRuns
    /\ UNCHANGED <<job, starter, worker, written>>

StartAnalysis(s) ==
    /\ starter[s].pc = "idle"
    /\ ExpireStaleRuns
    /\ starter' = [starter EXCEPT ![s] = [pc |-> "insert", id |-> NoRun]]
    /\ UNCHANGED <<job, worker, written>>

InsertRun(s) ==
    /\ starter[s].pc = "insert"
    /\ NoActiveRun
    /\ \E r \in Runs :
         /\ run[r].status = "absent"
         /\ run' = [run EXCEPT ![r] = [status |-> "queued", age |-> 0]]
         /\ starter' = [starter EXCEPT ![s] = [pc |-> "enqueue", id |-> r]]
    /\ UNCHANGED <<job, worker, written>>

(* 23505: another run of the project is active, the request answers 409 *)
RefuseStart(s) ==
    /\ starter[s].pc = "insert"
    /\ ~ NoActiveRun
    /\ starter' = [starter EXCEPT ![s] = Idle]
    /\ UNCHANGED <<run, job, worker, written>>

AddJob(r) == job' = [job EXCEPT ![r].state = "waiting"]

Enqueue(s) ==
    /\ starter[s].pc = "enqueue"
    /\ AddJob(starter[s].id)
    /\ starter' = [starter EXCEPT ![s] = Idle]
    /\ UNCHANGED <<run, worker, written>>

(* queue.add rejects: Redis refused the job, or stored it and the reply was lost *)
EnqueueRejected(s) ==
    /\ starter[s].pc = "enqueue"
    /\ \/ UNCHANGED job
       \/ AddJob(starter[s].id)
    /\ starter' = [starter EXCEPT ![s].pc = "refused"]
    /\ UNCHANGED <<run, worker, written>>

(* The handler's catch fails the run whatever its status is by now *)
FailUnqueued(s) ==
    /\ starter[s].pc = "refused"
    /\ SetStatus(starter[s].id, "failed")
    /\ starter' = [starter EXCEPT ![s] = Idle]
    /\ UNCHANGED <<job, worker, written>>

CrashStarter(s) ==
    /\ starter[s].pc # "idle"
    /\ starter' = [starter EXCEPT ![s] = Idle]
    /\ UNCHANGED <<run, job, worker, written>>

----------------------------------------------------------------------------
(* The worker: runAnalysis *)

TakeJob(w) ==
    /\ worker[w].pc = "idle"
    /\ \E r \in Runs :
         /\ job[r].state = "waiting"
         /\ job' = [job EXCEPT ![r].state = "active", ![r].holder = w]
         /\ worker' = [worker EXCEPT ![w] = [pc |-> "claim", id |-> r]]
    /\ UNCHANGED <<run, starter, written>>

(* The processor returns: BullMQ completes the job if w still holds its lock *)
Return(w) ==
    /\ worker' = [worker EXCEPT ![w] = Idle]
    /\ job' = [r \in Runs |->
                 IF r = worker[w].id /\ job[r].state = "active" /\ job[r].holder = w
                 THEN [job[r] EXCEPT !.state = "gone"] ELSE job[r]]

(* The claim with its status guard loosened to 'not finished' *)
ClaimableUnlessCompleted(r) == run[r].status \in {"queued", "running", "failed"}

Claimable(r) ==
    \/ run[r].status = "queued"
    \/ run[r].status = "running" /\ run[r].age > RunReclaim

Claim(w) ==
    /\ worker[w].pc = "claim"
    /\ Claimable(worker[w].id)
    /\ run' = [run EXCEPT ![worker[w].id] = [status |-> "running", age |-> 0]]
    /\ worker' = [worker EXCEPT ![w].pc = "read"]
    /\ UNCHANGED <<job, starter, written>>

ClaimNothing(w) ==
    /\ worker[w].pc = "claim"
    /\ ~ Claimable(worker[w].id)
    /\ Return(w)
    /\ UNCHANGED <<run, starter, written>>

ReadCases(w) ==
    /\ worker[w].pc = "read"
    /\ worker' = [worker EXCEPT ![w].pc = "beat"]
    /\ UNCHANGED <<run, job, starter, written>>

(* Once before and once after the analysis itself, which holds the event loop *)
Heartbeat(w) ==
    /\ worker[w].pc \in {"beat", "analyse"}
    /\ run' = IF run[worker[w].id].status = "running"
              THEN [run EXCEPT ![worker[w].id].age = 0] ELSE run
    /\ worker' = [worker EXCEPT ![w].pc = IF worker[w].pc = "beat" THEN "analyse" ELSE "persist"]
    /\ UNCHANGED <<job, starter, written>>

(* The findings, with the early return of persist forgotten *)
CommitAnyFindings(r) == written' = Append(written, r)

(* persist returns early, without findings, if the run is not running any more *)
CommitFindings(r) ==
    written' = IF run[r].status = "running" THEN Append(written, r) ELSE written

(* The one transaction of persist *)
Persist(w) ==
    /\ worker[w].pc = "persist"
    /\ SetIfRunning(worker[w].id, "completed")
    /\ CommitFindings(worker[w].id)
    /\ Return(w)
    /\ UNCHANGED starter

(* Any step of the run throws; the failure may itself fail to be recorded *)
FailRun(w) ==
    /\ worker[w].pc \in Executing
    /\ \/ SetIfRunning(worker[w].id, "failed")
       \/ UNCHANGED run
    /\ Return(w)
    /\ UNCHANGED <<starter, written>>

CrashWorker(w) ==
    /\ worker[w].pc # "idle"
    /\ worker' = [worker EXCEPT ![w] = Idle]
    /\ UNCHANGED <<run, job, starter, written>>

----------------------------------------------------------------------------
(* Environment: BullMQ's stalled-job check, and time *)

(* Redelivery without maxStalledCount *)
StallForEver(r) ==
    /\ job[r].state = "active"
    /\ job' = [job EXCEPT ![r] = [state |-> "waiting", holder |-> NoWorker, stalls |-> @.stalls + 1]]
    /\ UNCHANGED <<run, starter, worker, written>>

(* The lock of an active job lapsed: its worker died or could not renew it *)
Stall(r) ==
    /\ job[r].state = "active"
    /\ job' = [job EXCEPT ![r] =
                 IF @.stalls < MaxStalls
                 THEN [state |-> "waiting", holder |-> NoWorker, stalls |-> @.stalls + 1]
                 ELSE [@ EXCEPT !.state = "gone"]]
    /\ UNCHANGED <<run, starter, worker, written>>

Tick ==
    /\ \E r \in Runs : IsActive(r) /\ run[r].age <= RunLease
    /\ run' = [r \in Runs |-> IF IsActive(r) /\ run[r].age <= RunLease
                              THEN [run[r] EXCEPT !.age = @ + 1] ELSE run[r]]
    /\ UNCHANGED <<job, starter, worker, written>>

StarterNext(s) ==
    \/ StartAnalysis(s) \/ InsertRun(s) \/ RefuseStart(s) \/ Enqueue(s)
    \/ EnqueueRejected(s) \/ FailUnqueued(s) \/ CrashStarter(s)

WorkerNext(w) ==
    \/ TakeJob(w) \/ Claim(w) \/ ClaimNothing(w) \/ ReadCases(w) \/ Heartbeat(w)
    \/ Persist(w) \/ FailRun(w) \/ CrashWorker(w)

RunsNext ==
    \/ GetLatestAnalysis
    \/ \E s \in Starters : StarterNext(s)
    \/ \E w \in Workers : WorkerNext(w)
    \/ \E r \in Runs : Stall(r)
    \/ Tick

RunsSpec == RunsInit /\ [][RunsNext]_runsVars

(***************************************************************************)
(* Fairness.  Time passes, and someone who opens the board reads the       *)
(* status again: the page polls it every POLL_MS while a run is active.    *)
(* Nothing is assumed of workers, of Redis, or of the request that started *)
(* the run: each of them may stop for good at any point.                   *)
(***************************************************************************)
RunsFairness ==
    /\ WF_runsVars(Tick)
    /\ WF_runsVars(GetLatestAnalysis)

FairRunsSpec == RunsSpec /\ RunsFairness

----------------------------------------------------------------------------
(* Properties *)

(* At most one run of a project is queued or running, whatever handlers,    *)
(* workers, expiries and redeliveries interleave (idx_review_runs_one_active *)
(* guards the INSERT; this is about every other UPDATE of the table too).    *)
OneActiveRun ==
    \A q, r \in Runs : IsActive(q) /\ IsActive(r) => q = r

(* A run that was completed or failed is never queued or running again: no   *)
(* redelivered job, late worker or late handler revives it (runAnalysis,     *)
(* heartbeat and persist are all conditional on the status they find).       *)
NeverRevived ==
    [][\A r \in Runs : run[r].status \in Terminal => run'[r].status \in Terminal]_runsVars

(* The findings of a run are written at most once, although a run may be      *)
(* executed several times: a worker that lost its lock computes on while the *)
(* job is delivered again, and both reach persist.                            *)
WrittenOnce ==
    \A i, j \in DOMAIN written : written[i] = written[j] => i = j

(* A run cannot block its project for ever: even when every worker and the   *)
(* queue are gone, the lease ends it (expireStaleRuns).                      *)
EveryRunEnds ==
    \A r \in Runs : IsActive(r) ~> run[r].status \in Terminal

(* The table, the queue and the workers together keep the promise of       *)
(* RunRegister: one open run, findings written only by an execution that     *)
(* read the cases after its run was opened and while that run is open, and   *)
(* no run open for ever.                                                              *)
OpenRuns == {r \in Runs : IsActive(r)}

OverRuns == {r \in Runs : run[r].status \in Terminal}

Execution(w) ==
    IF worker[w].pc \in Executing
    THEN [phase |-> IF worker[w].pc = "read" THEN "claimed" ELSE "read", id |-> worker[w].id]
    ELSE [phase |-> "none", id |-> NoRun]

Register == INSTANCE RunRegister WITH
    open <- OpenRuns,
    over <- OverRuns,
    exec <- [w \in Workers |-> Execution(w)]   \* and written is written

ImplementsRunRegister == Register!FairRegisterSpec
==============================================================================
