------------------------- MODULE AnalysisRunsProofs --------------------------
(***************************************************************************)
(* Theorems about AnalysisRuns, for any number of runs, requests, workers  *)
(* and redeliveries, and any lease.                                        *)
(***************************************************************************)
EXTENDS AnalysisRuns, TLAPS

----------------------------------------------------------------------------
(* Type correctness *)

LEMMA ReturnTyped ==
  ASSUME RunsTypeOK, NEW w \in Workers, Return(w)
  PROVE  JobTyped' /\ WorkerTyped'
<1>1. JobTyped'
  BY DEF RunsTypeOK, JobTyped, Return
<1>2. WorkerTyped'
  BY DEF RunsTypeOK, WorkerTyped, Return, Idle
<1> QED
  BY <1>1, <1>2

LEMMA SetTyped ==
  ASSUME RunTyped, NEW r \in Runs, NEW st \in Terminal,
         SetIfRunning(r, st) \/ SetStatus(r, st) \/ UNCHANGED run
  PROVE  RunTyped'
  BY TimeoutAssumption DEF RunTyped, SetIfRunning, SetStatus, Terminal, Ages

LEMMA ExpireTyped ==
  ASSUME RunTyped, ExpireStaleRuns
  PROVE  RunTyped'
  BY TimeoutAssumption DEF RunTyped, ExpireStaleRuns, Terminal, Ages

LEMMA WrittenStays == WrittenTyped /\ written' = written => WrittenTyped'
  BY DEF WrittenTyped

LEMMA RunsInitTyped == RunsInit => RunsTypeOK
  BY TimeoutAssumption
  DEF RunsInit, RunsTypeOK, RunTyped, JobTyped, StarterTyped, WorkerTyped, WrittenTyped,
      Idle, Ages, Active, Terminal

LEMMA StarterNextTyped ==
  ASSUME RunsTypeOK, NEW s \in Starters, StarterNext(s)
  PROVE  RunsTypeOK'
<1> USE DEF RunsTypeOK, StarterTyped
<1> USE WrittenStays
<1>1. CASE StartAnalysis(s)
  BY <1>1, ExpireTyped DEF StartAnalysis, JobTyped, WorkerTyped
<1>2. CASE InsertRun(s)
  BY <1>2, TimeoutAssumption DEF InsertRun, RunTyped, JobTyped, WorkerTyped, Active, Ages
<1>3. CASE RefuseStart(s)
  BY <1>3 DEF RefuseStart, RunTyped, JobTyped, WorkerTyped, Idle
<1>4. CASE Enqueue(s)
  BY <1>4, ZenonT(60) DEF Enqueue, AddJob, RunTyped, JobTyped, WorkerTyped, Idle
<1>5. CASE EnqueueRejected(s)
  <2>1. JobTyped'
    BY <1>5 DEF EnqueueRejected, AddJob, JobTyped
  <2> QED
    BY <1>5, <2>1 DEF EnqueueRejected, RunTyped, WorkerTyped
<1>6. CASE FailUnqueued(s)
  BY <1>6, SetTyped DEF FailUnqueued, Terminal, JobTyped, WorkerTyped, Idle
<1>7. CASE CrashStarter(s)
  BY <1>7 DEF CrashStarter, RunTyped, JobTyped, WorkerTyped, Idle
<1> QED
  BY <1>1, <1>2, <1>3, <1>4, <1>5, <1>6, <1>7 DEF StarterNext

LEMMA WorkerNextTyped ==
  ASSUME RunsTypeOK, NEW w \in Workers, WorkerNext(w)
  PROVE  RunsTypeOK'
<1> USE DEF RunsTypeOK, WorkerTyped
<1> USE WrittenStays
<1>1. CASE TakeJob(w)
  <2>1. PICK r \in Runs :
          /\ job' = [job EXCEPT ![r].state = "active", ![r].holder = w]
          /\ worker' = [worker EXCEPT ![w] = [pc |-> "claim", id |-> r]]
    BY <1>1 DEF TakeJob
  <2>2. JobTyped'
    BY <2>1 DEF JobTyped
  <2>3. WorkerTyped'
    BY <2>1
  <2> QED
    BY <1>1, <2>2, <2>3 DEF TakeJob, RunTyped, StarterTyped
<1>2. CASE Claim(w)
  BY <1>2, TimeoutAssumption
  DEF Claim, RunTyped, JobTyped, StarterTyped, Active, Ages, Executing
<1>3. CASE ClaimNothing(w)
  BY <1>3, ReturnTyped DEF ClaimNothing, RunTyped, StarterTyped
<1>4. CASE ReadCases(w)
  BY <1>4 DEF ReadCases, RunTyped, JobTyped, StarterTyped, Executing
<1>5. CASE Heartbeat(w)
  <2>1. RunTyped'
    BY <1>5, TimeoutAssumption DEF Heartbeat, RunTyped, Ages
  <2>2. WorkerTyped'
    BY <1>5 DEF Heartbeat, Executing
  <2> QED
    BY <1>5, <2>1, <2>2 DEF Heartbeat, JobTyped, StarterTyped
<1>6. CASE Persist(w)
  <2>1. worker[w].id \in Runs
    BY <1>6 DEF Persist
  <2>2. written' \in Seq(Runs)
    BY <1>6, <2>1 DEF Persist, CommitFindings, WrittenTyped
  <2> QED
    BY <1>6, <2>1, <2>2, ReturnTyped, SetTyped DEF Persist, Terminal, StarterTyped, WrittenTyped
<1>7. CASE FailRun(w)
  <2>1. worker[w].id \in Runs
    BY <1>7 DEF FailRun, Executing
  <2>2. RunTyped'
    BY <1>7, <2>1, SetTyped DEF FailRun, Terminal
  <2> QED
    BY <1>7, <2>2, ReturnTyped DEF FailRun, StarterTyped
<1>8. CASE CrashWorker(w)
  BY <1>8 DEF CrashWorker, RunTyped, JobTyped, StarterTyped, Idle
<1> QED
  BY <1>1, <1>2, <1>3, <1>4, <1>5, <1>6, <1>7, <1>8 DEF WorkerNext

LEMMA RunsNextTyped == RunsTypeOK /\ [RunsNext]_runsVars => RunsTypeOK'
<1> SUFFICES ASSUME RunsTypeOK, [RunsNext]_runsVars PROVE RunsTypeOK'
  OBVIOUS
<1> USE WrittenStays
<1>1. CASE GetLatestAnalysis
  BY <1>1, ExpireTyped DEF RunsTypeOK, GetLatestAnalysis, JobTyped, StarterTyped, WorkerTyped
<1>2. ASSUME NEW s \in Starters, StarterNext(s) PROVE RunsTypeOK'
  BY <1>2, StarterNextTyped
<1>3. ASSUME NEW w \in Workers, WorkerNext(w) PROVE RunsTypeOK'
  BY <1>3, WorkerNextTyped
<1>4. ASSUME NEW r \in Runs, Stall(r) PROVE RunsTypeOK'
  <2>1. job[r].stalls < MaxStalls => job[r].stalls + 1 \in 0 .. MaxStalls
    BY TimeoutAssumption DEF RunsTypeOK, JobTyped
  <2>2. JobTyped'
    BY <1>4, <2>1 DEF RunsTypeOK, Stall, JobTyped
  <2> QED
    BY <1>4, <2>2 DEF RunsTypeOK, Stall, RunTyped, StarterTyped, WorkerTyped
<1>5. CASE Tick
  BY <1>5, TimeoutAssumption
  DEF RunsTypeOK, Tick, IsActive, Ages, RunTyped, JobTyped, StarterTyped, WorkerTyped
<1>6. CASE UNCHANGED runsVars
  BY <1>6 DEF runsVars, RunsTypeOK, RunTyped, JobTyped, StarterTyped, WorkerTyped
<1> QED
  BY <1>1, <1>2, <1>3, <1>4, <1>5, <1>6 DEF RunsNext

(* Type correctness of the run table, the queue, the requests and workers. *)
THEOREM RunsTyping == RunsSpec => []RunsTypeOK
  BY RunsInitTyped, RunsNextTyped, PTL DEF RunsSpec

----------------------------------------------------------------------------
(* One active run.  InsertRun is the only step that makes a run active, and  *)
(* it finds none active; no step takes a run out of a terminal status.       *)

Closes ==
    \A r \in Runs : /\ run'[r].status \in Active => IsActive(r)
                    /\ run[r].status \in Terminal => run'[r].status \in Terminal
                    /\ run[r].status # "absent" => run'[r].status # "absent"

Opens(r) ==
    /\ \A q \in Runs : ~ IsActive(q)
    /\ run[r].status = "absent"
    /\ run'[r].status = "queued"
    /\ \A q \in Runs \ {r} : run'[q] = run[q]

LEMMA ExpireCloses ==
  ASSUME ExpireStaleRuns PROVE Closes
  BY DEF ExpireStaleRuns, Closes, Silent, IsActive, Active, Terminal

LEMMA SetCloses ==
  ASSUME RunTyped, NEW r \in Runs, NEW st \in Terminal,
         SetIfRunning(r, st) \/ SetStatus(r, st) \/ UNCHANGED run
  PROVE  Closes
  BY DEF RunTyped, SetIfRunning, SetStatus, Closes, IsActive, Active, Terminal

LEMMA StarterStatus ==
  ASSUME RunsTypeOK, NEW s \in Starters, StarterNext(s)
  PROVE  Closes \/ (\E r \in Runs : Opens(r))
<1>1. CASE StartAnalysis(s)
  BY <1>1, ExpireCloses DEF StartAnalysis
<1>2. CASE InsertRun(s)
  BY <1>2 DEF InsertRun, NoActiveRun, Opens, RunsTypeOK, RunTyped
<1>3. CASE FailUnqueued(s)
  BY <1>3, SetCloses DEF FailUnqueued, RunsTypeOK, StarterTyped, Terminal
<1>4. CASE UNCHANGED run
  BY <1>4 DEF Closes, IsActive
<1> QED
  BY <1>1, <1>2, <1>3, <1>4
  DEF StarterNext, RefuseStart, Enqueue, EnqueueRejected, CrashStarter

LEMMA WorkerStatus ==
  ASSUME RunsTypeOK, NEW w \in Workers, WorkerNext(w)
  PROVE  Closes
<1>1. CASE UNCHANGED run
  BY <1>1 DEF Closes, IsActive
<1>2. CASE Claim(w)
  BY <1>2 DEF Claim, Claimable, Closes, IsActive, Active, Terminal, RunsTypeOK, RunTyped, WorkerTyped
<1>3. CASE Heartbeat(w)
  BY <1>3 DEF Heartbeat, Closes, IsActive, RunsTypeOK, RunTyped, WorkerTyped
<1>4. CASE Persist(w) \/ FailRun(w)
  <2>1. worker[w].id \in Runs
    BY <1>4 DEF Persist, FailRun, Executing, RunsTypeOK, WorkerTyped
  <2> QED
    BY <1>4, <2>1, SetCloses DEF Persist, FailRun, RunsTypeOK, Terminal
<1> QED
  BY <1>1, <1>2, <1>3, <1>4 DEF WorkerNext, TakeJob, ClaimNothing, ReadCases, CrashWorker

LEMMA RunStatus ==
  ASSUME RunsTypeOK, [RunsNext]_runsVars
  PROVE  Closes \/ (\E r \in Runs : Opens(r))
<1>1. CASE UNCHANGED run
  BY <1>1 DEF Closes, IsActive
<1>2. CASE GetLatestAnalysis
  BY <1>2, ExpireCloses DEF GetLatestAnalysis
<1>3. ASSUME NEW s \in Starters, StarterNext(s) PROVE Closes \/ (\E r \in Runs : Opens(r))
  BY <1>3, StarterStatus
<1>4. ASSUME NEW w \in Workers, WorkerNext(w) PROVE Closes
  BY <1>4, WorkerStatus
<1>5. CASE Tick
  BY <1>5 DEF Tick, Closes, IsActive, RunsTypeOK, RunTyped
<1> QED
  BY <1>1, <1>2, <1>3, <1>4, <1>5 DEF RunsNext, Stall, runsVars

(* No interleaving of requests, expiries, workers and redelivered jobs gives *)
(* a project two runs that are queued or running.                            *)
THEOREM OneActiveRunHolds == RunsSpec => []OneActiveRun
<1>1. RunsInit => OneActiveRun
  BY DEF RunsInit, OneActiveRun, IsActive, Active
<1>2. OneActiveRun /\ RunsTypeOK /\ [RunsNext]_runsVars => OneActiveRun'
  <2> SUFFICES ASSUME OneActiveRun, RunsTypeOK, [RunsNext]_runsVars,
                      NEW q \in Runs, NEW r \in Runs, IsActive(q)', IsActive(r)'
               PROVE  q = r
    BY DEF OneActiveRun
  <2>1. CASE Closes
    BY <2>1 DEF Closes, OneActiveRun, IsActive
  <2>2. ASSUME NEW x \in Runs, Opens(x) PROVE q = r
    BY <2>2 DEF Opens, IsActive
  <2>3. Closes \/ (\E x \in Runs : Opens(x))
    BY RunStatus
  <2> QED
    BY <2>1, <2>2, <2>3
<1> QED
  BY <1>1, <1>2, RunsTyping, PTL DEF RunsSpec

(* A run that is over is never queued or running again.                      *)
THEOREM NeverRevivedHolds == RunsSpec => NeverRevived
<1>1. RunsTypeOK /\ [RunsNext]_runsVars =>
        \A r \in Runs : run[r].status \in Terminal => run'[r].status \in Terminal
  <2> SUFFICES ASSUME RunsTypeOK, [RunsNext]_runsVars, NEW r \in Runs,
                      run[r].status \in Terminal
               PROVE  run'[r].status \in Terminal
    OBVIOUS
  <2>1. CASE Closes
    BY <2>1 DEF Closes
  <2>2. ASSUME NEW x \in Runs, Opens(x) PROVE run'[r].status \in Terminal
    BY <2>2 DEF Opens, Terminal
  <2>3. Closes \/ (\E x \in Runs : Opens(x))
    BY RunStatus
  <2> QED
    BY <2>1, <2>2, <2>3
<1> QED
  BY <1>1, RunsTyping, PTL DEF RunsSpec, NeverRevived

----------------------------------------------------------------------------
(* Findings written once.  Persist appends a run only while it is running,   *)
(* and leaves it completed; a run that has written is therefore over, which  *)
(* is the strengthening that makes WrittenOnce inductive.                    *)

WrittenIsOver == \A i \in DOMAIN written : run[written[i]].status \in Terminal

LEMMA WrittenSteps ==
  ASSUME RunsTypeOK, [RunsNext]_runsVars
  PROVE  \/ UNCHANGED written
         \/ \E r \in Runs : /\ run[r].status = "running"
                           /\ run'[r].status = "completed"
                           /\ written' = Append(written, r)
<1>1. ASSUME NEW w \in Workers, Persist(w), written' # written
      PROVE  \E r \in Runs : /\ run[r].status = "running"
                            /\ run'[r].status = "completed"
                            /\ written' = Append(written, r)
  BY <1>1 DEF Persist, CommitFindings, SetIfRunning, RunsTypeOK, RunTyped, WorkerTyped
<1> QED
  BY <1>1
  DEF RunsNext, GetLatestAnalysis, StarterNext, StartAnalysis, InsertRun, RefuseStart, Enqueue,
      EnqueueRejected, FailUnqueued, CrashStarter, WorkerNext, TakeJob, Claim, ClaimNothing,
      ReadCases, Heartbeat, FailRun, CrashWorker, Stall, Tick, runsVars

LEMMA WrittenStep ==
  ASSUME RunsTypeOK, WrittenIsOver, WrittenOnce, [RunsNext]_runsVars
  PROVE  WrittenIsOver' /\ WrittenOnce'
<1> USE DEF RunsTypeOK, WrittenTyped
<1>1. \A r \in Runs : run[r].status \in Terminal => run'[r].status \in Terminal
  <2>1. Closes \/ (\E x \in Runs : Opens(x))
    BY RunStatus
  <2> QED
    BY <2>1 DEF Closes, Opens, Terminal
<1>2. CASE UNCHANGED written
  BY <1>1, <1>2 DEF WrittenIsOver, WrittenOnce
<1>3. ASSUME NEW r \in Runs, run[r].status = "running", run'[r].status = "completed",
             written' = Append(written, r)
      PROVE  WrittenIsOver' /\ WrittenOnce'
  <2>1. \A i \in DOMAIN written : written[i] \in Runs /\ written[i] # r
    BY <1>3 DEF WrittenIsOver, Terminal
  <2>2. \A i \in DOMAIN written' : IF i \in DOMAIN written THEN written'[i] = written[i]
                                  ELSE i = Len(written) + 1 /\ written'[i] = r
    BY <1>3
  <2>3. WrittenIsOver'
    BY <1>1, <1>3, <2>1, <2>2 DEF WrittenIsOver, Terminal
  <2>4. WrittenOnce'
    BY <2>1, <2>2 DEF WrittenOnce
  <2> QED
    BY <2>3, <2>4
<1> QED
  BY <1>2, <1>3, WrittenSteps

(* However often a run is executed, by zombies and by redelivered jobs, its  *)
(* findings are committed at most once.                                      *)
THEOREM WrittenOnceHolds == RunsSpec => []WrittenOnce
<1>1. RunsInit => WrittenIsOver /\ WrittenOnce
  BY DEF RunsInit, WrittenIsOver, WrittenOnce
<1> QED
  BY <1>1, WrittenStep, RunsTyping, PTL DEF RunsSpec

----------------------------------------------------------------------------
(* The detailed runs implement RunRegister.  A request that enqueues holds a *)
(* run that was inserted, so failing it closes a run or changes nothing.     *)

HeldRunExists ==
    \A s \in Starters : starter[s].pc \in {"enqueue", "refused"} => run[starter[s].id].status # "absent"

LEMMA HeldRunInit == RunsInit => HeldRunExists
  BY DEF RunsInit, HeldRunExists, Idle

LEMMA HeldRunStep ==
  ASSUME RunsTypeOK, HeldRunExists, [RunsNext]_runsVars
  PROVE  HeldRunExists'
<1>1. ASSUME NEW r \in Runs, run[r].status # "absent" PROVE run'[r].status # "absent"
  <2>1. Closes \/ (\E x \in Runs : Opens(x))
    BY RunStatus
  <2> QED
    BY <1>1, <2>1 DEF Closes, Opens
<1>2. ASSUME NEW s \in Starters, StarterNext(s) PROVE HeldRunExists'
  <2>1. CASE InsertRun(s)
    BY <1>1, <2>1 DEF InsertRun, HeldRunExists, RunsTypeOK, RunTyped, StarterTyped
  <2>2. CASE EnqueueRejected(s)
    BY <1>1, <2>2 DEF EnqueueRejected, HeldRunExists, RunsTypeOK, StarterTyped
  <2>3. CASE StartAnalysis(s) \/ RefuseStart(s) \/ Enqueue(s) \/ FailUnqueued(s) \/ CrashStarter(s)
    <3>1. /\ starter'[s].pc \in {"idle", "insert"}
          /\ \A q \in Starters \ {s} : starter'[q] = starter[q]
      BY <2>3 DEF StartAnalysis, RefuseStart, Enqueue, FailUnqueued, CrashStarter, Idle,
                  RunsTypeOK, StarterTyped
    <3> QED
      BY <1>1, <3>1 DEF HeldRunExists, RunsTypeOK, StarterTyped
  <2> QED
    BY <1>2, <2>1, <2>2, <2>3 DEF StarterNext
<1>3. CASE UNCHANGED starter
  BY <1>1, <1>3 DEF HeldRunExists, RunsTypeOK, StarterTyped
<1>4. ASSUME NEW w \in Workers, WorkerNext(w) PROVE UNCHANGED starter
  BY <1>4 DEF WorkerNext, TakeJob, Claim, ClaimNothing, ReadCases, Heartbeat, Persist,
              FailRun, CrashWorker
<1> QED
  BY <1>2, <1>3, <1>4 DEF RunsNext, GetLatestAnalysis, Stall, Tick, runsVars

LEMMA HeldRunInvariant == RunsSpec => []HeldRunExists
  BY HeldRunInit, HeldRunStep, RunsTyping, PTL DEF RunsSpec

(* Steps of the abstract register, read through the mapping *)
LEMMA ExpireRefines ==
  ASSUME OneActiveRun, ExpireStaleRuns, UNCHANGED <<worker, written>>
  PROVE  [Register!RegisterNext]_(Register!registerVars)
<1> SUFFICES ASSUME NEW r \in Runs, Silent(r) PROVE Register!Expire(r)
  BY DEF ExpireStaleRuns, Register!RegisterNext, Register!registerVars, OpenRuns, OverRuns,
         Execution, IsActive
<1>1. \A q \in Runs : q # r => run'[q] = run[q]
  BY DEF OneActiveRun, ExpireStaleRuns, Silent
<1>2. run'[r].status = "failed"
  BY DEF ExpireStaleRuns
<1>3. OpenRuns' = OpenRuns \ {r} /\ OverRuns' = OverRuns \cup {r}
  BY <1>1, <1>2 DEF OpenRuns, OverRuns, IsActive, Active, Terminal
<1> QED
  BY <1>3 DEF Register!Expire, Register!CloseRun, OpenRuns, Silent, Execution

LEMMA CloseRefines ==
  ASSUME RunTyped, NEW r \in Runs, NEW st \in Terminal,
         run' = [run EXCEPT ![r] = [status |-> st, age |-> 0]]
  PROVE  OpenRuns' = OpenRuns \ {r} /\ OverRuns' = OverRuns \cup {r}
  BY DEF RunTyped, OpenRuns, OverRuns, IsActive, Active, Terminal

(* A step that changes neither a status nor the place of an execution *)
LEMMA StutterRefines ==
  ASSUME \A r \in Runs : run'[r].status = run[r].status,
         \A w \in Workers : Execution(w)' = Execution(w),
         UNCHANGED written
  PROVE  UNCHANGED Register!registerVars
  BY DEF Register!registerVars, OpenRuns, OverRuns, IsActive

LEMMA StarterRefines ==
  ASSUME RunsTypeOK, OneActiveRun, HeldRunExists, NEW s \in Starters, StarterNext(s)
  PROVE  [Register!RegisterNext]_(Register!registerVars)
<1>1. UNCHANGED <<worker, written>>
  BY DEF StarterNext, StartAnalysis, InsertRun, RefuseStart, Enqueue, EnqueueRejected,
         FailUnqueued, CrashStarter
<1>2. \A w \in Workers : Execution(w)' = Execution(w)
  BY <1>1 DEF Execution
<1>3. CASE StartAnalysis(s)
  BY <1>1, <1>3, ExpireRefines DEF StartAnalysis
<1>4. CASE InsertRun(s)
  <2>1. PICK r \in Runs : /\ run[r].status = "absent"
                         /\ run' = [run EXCEPT ![r] = [status |-> "queued", age |-> 0]]
    BY <1>4 DEF InsertRun
  <2>2. OpenRuns = {} /\ r \notin OverRuns
    BY <1>4, <2>1 DEF InsertRun, NoActiveRun, OpenRuns, OverRuns, Terminal
  <2>3. OpenRuns' = {r} /\ OverRuns' = OverRuns
    BY <2>1, <2>2 DEF RunsTypeOK, RunTyped, OpenRuns, OverRuns, IsActive, Active, Terminal
  <2>4. Register!Open(r)
    BY <1>1, <1>2, <2>2, <2>3 DEF Register!Open
  <2> QED
    BY <2>4 DEF Register!RegisterNext
<1>5. CASE FailUnqueued(s)
  <2> DEFINE r == starter[s].id
  <2>1. r \in Runs /\ run[r].status # "absent"
    BY <1>5 DEF FailUnqueued, RunsTypeOK, StarterTyped, HeldRunExists
  <2>2. OpenRuns' = OpenRuns \ {r} /\ OverRuns' = OverRuns \cup {r}
    BY <1>5, <2>1, CloseRefines DEF FailUnqueued, SetStatus, RunsTypeOK, Terminal
  <2>3. CASE r \in OpenRuns
    <3>1. Register!Expire(r)
      BY <1>1, <1>2, <2>2, <2>3 DEF Register!Expire, Register!CloseRun
    <3> QED
      BY <2>1, <3>1 DEF Register!RegisterNext
  <2>4. CASE r \notin OpenRuns
    <3>1. r \in OverRuns
      BY <2>1, <2>4 DEF OpenRuns, OverRuns, IsActive, RunsTypeOK, RunTyped
    <3> QED
      BY <1>1, <1>2, <2>2, <2>4, <3>1 DEF Register!registerVars
  <2> QED
    BY <2>3, <2>4
<1>6. CASE UNCHANGED run
  BY <1>1, <1>2, <1>6, StutterRefines
<1> QED
  BY <1>3, <1>4, <1>5, <1>6 DEF StarterNext, RefuseStart, Enqueue, EnqueueRejected, CrashStarter

(* What the return of a worker does to the executions *)
LEMMA LeaveExecution ==
  ASSUME RunsTypeOK, NEW w \in Workers, worker' = [worker EXCEPT ![w] = Idle]
  PROVE  [v \in Workers |-> Execution(v)]' =
           [[v \in Workers |-> Execution(v)] EXCEPT ![w] = [phase |-> "none", id |-> NoRun]]
  BY DEF RunsTypeOK, WorkerTyped, Execution, Idle, Executing

LEMMA WorkerRefines ==
  ASSUME RunsTypeOK, NEW w \in Workers, WorkerNext(w)
  PROVE  [Register!RegisterNext]_(Register!registerVars)
<1> DEFINE r == worker[w].id
           execs == [v \in Workers |-> Execution(v)]
<1>1. CASE TakeJob(w)
  <2>1. \A v \in Workers : Execution(v)' = Execution(v)
    BY <1>1 DEF TakeJob, Execution, Executing, RunsTypeOK, WorkerTyped
  <2> QED
    BY <1>1, <2>1, StutterRefines DEF TakeJob
<1>2. CASE Claim(w)
  <2>1. r \in Runs
    BY <1>2 DEF Claim, RunsTypeOK, WorkerTyped
  <2>2. r \in OpenRuns
    BY <1>2, <2>1 DEF Claim, Claimable, OpenRuns, IsActive, Active
  <2>3. OpenRuns' = OpenRuns /\ OverRuns' = OverRuns
    BY <1>2, <2>1, <2>2 DEF Claim, OpenRuns, OverRuns, IsActive, Active, Terminal, RunsTypeOK, RunTyped
  <2>4. execs' = [execs EXCEPT ![w] = [phase |-> "claimed", id |-> r]] /\ execs[w].phase = "none"
    BY <1>2 DEF Claim, Execution, Executing, RunsTypeOK, WorkerTyped
  <2>5. Register!Begin(w, r)
    BY <1>2, <2>2, <2>3, <2>4 DEF Register!Begin, Claim
  <2> QED
    BY <2>1, <2>5 DEF Register!RegisterNext
<1>3. CASE ReadCases(w)
  <2>1. /\ execs[w].phase = "claimed"
        /\ execs' = [execs EXCEPT ![w].phase = "read"]
    BY <1>3 DEF ReadCases, Execution, Executing, RunsTypeOK, WorkerTyped
  <2>2. OpenRuns' = OpenRuns /\ OverRuns' = OverRuns
    BY <1>3 DEF ReadCases, OpenRuns, OverRuns, IsActive
  <2>3. Register!Read(w)
    BY <1>3, <2>1, <2>2 DEF Register!Read, ReadCases
  <2> QED
    BY <2>3 DEF Register!RegisterNext
<1>4. CASE Heartbeat(w)
  <2>1. \A v \in Workers : Execution(v)' = Execution(v)
    BY <1>4 DEF Heartbeat, Execution, Executing, RunsTypeOK, WorkerTyped
  <2>2. \A q \in Runs : run'[q].status = run[q].status
    BY <1>4 DEF Heartbeat, RunsTypeOK, RunTyped, WorkerTyped
  <2> QED
    BY <1>4, <2>1, <2>2, StutterRefines DEF Heartbeat
<1>5. CASE Persist(w) \/ FailRun(w)
  <2>1. worker[w].pc \in Executing /\ r \in Runs /\ worker' = [worker EXCEPT ![w] = Idle]
    BY <1>5 DEF Persist, FailRun, Return, Executing, RunsTypeOK, WorkerTyped
  <2>2. execs' = [execs EXCEPT ![w] = [phase |-> "none", id |-> NoRun]]
    BY <2>1, LeaveExecution
  <2>3. execs[w].phase # "none" /\ execs[w].id = r
    BY <2>1 DEF Execution
  <2>4. \/ UNCHANGED <<run, written>>
        \/ /\ r \in OpenRuns /\ OpenRuns' = OpenRuns \ {r} /\ OverRuns' = OverRuns \cup {r}
           /\ UNCHANGED written \/ (Persist(w) /\ written' = Append(written, r))
    BY <1>5, <2>1, CloseRefines
    DEF Persist, CommitFindings, FailRun, SetIfRunning, RunsTypeOK, Terminal, OpenRuns, IsActive, Active
  <2>5. CASE UNCHANGED written
    <3>1. Register!Abandon(w)
      BY <2>2, <2>3, <2>4, <2>5 DEF Register!Abandon, Register!NoExec, Register!CloseRun,
         OpenRuns, OverRuns, IsActive
    <3> QED
      BY <3>1 DEF Register!RegisterNext
  <2>6. CASE /\ r \in OpenRuns /\ OpenRuns' = OpenRuns \ {r} /\ OverRuns' = OverRuns \cup {r}
             /\ Persist(w) /\ written' = Append(written, r)
    <3>1. execs[w].phase = "read"
      BY <2>6 DEF Persist, Execution, Executing
    <3>2. Register!Commit(w)
      BY <2>2, <2>3, <2>6, <3>1 DEF Register!Commit, Register!NoExec, Register!CloseRun
    <3> QED
      BY <3>2 DEF Register!RegisterNext
  <2> QED
    BY <2>4, <2>5, <2>6
<1>6. CASE CrashWorker(w) \/ ClaimNothing(w)
  <2>1. worker' = [worker EXCEPT ![w] = Idle] /\ UNCHANGED <<run, written>>
    BY <1>6 DEF CrashWorker, ClaimNothing, Return
  <2>2. execs' = [execs EXCEPT ![w] = [phase |-> "none", id |-> NoRun]]
    BY <2>1, LeaveExecution
  <2>3. OpenRuns' = OpenRuns /\ OverRuns' = OverRuns
    BY <2>1 DEF OpenRuns, OverRuns, IsActive
  <2>4. CASE execs[w].phase # "none"
    <3>1. Register!Abandon(w)
      BY <2>1, <2>2, <2>3, <2>4 DEF Register!Abandon, Register!NoExec
    <3> QED
      BY <3>1 DEF Register!RegisterNext
  <2>5. CASE execs[w].phase = "none"
    <3>1. execs[w] = [phase |-> "none", id |-> NoRun]
      BY <2>5 DEF Execution
    <3>2. execs' = execs
      BY <2>2, <3>1
    <3> QED
      BY <2>1, <2>3, <3>2 DEF Register!registerVars
  <2> QED
    BY <2>4, <2>5
<1> QED
  BY <1>1, <1>2, <1>3, <1>4, <1>5, <1>6 DEF WorkerNext

(* The queue, the requests and the workers implement the register that the   *)
(* Review Board is specified on.                                             *)
THEOREM ImplementsRegister == RunsSpec => Register!RegisterSpec
<1>1. RunsInit => Register!RegisterInit
  BY DEF RunsInit, Register!RegisterInit, Register!NoExec, OpenRuns, OverRuns, Execution,
         Idle, Executing, IsActive, Active, Terminal
<1>2. RunsTypeOK /\ OneActiveRun /\ HeldRunExists /\ [RunsNext]_runsVars
        => [Register!RegisterNext]_(Register!registerVars)
  <2> SUFFICES ASSUME RunsTypeOK, OneActiveRun, HeldRunExists, [RunsNext]_runsVars
               PROVE  [Register!RegisterNext]_(Register!registerVars)
    OBVIOUS
  <2>1. CASE GetLatestAnalysis
    BY <2>1, ExpireRefines DEF GetLatestAnalysis
  <2>2. ASSUME NEW s \in Starters, StarterNext(s)
        PROVE  [Register!RegisterNext]_(Register!registerVars)
    BY <2>2, StarterRefines
  <2>3. ASSUME NEW w \in Workers, WorkerNext(w)
        PROVE  [Register!RegisterNext]_(Register!registerVars)
    BY <2>3, WorkerRefines
  <2>4. CASE (\E r \in Runs : Stall(r)) \/ Tick \/ UNCHANGED runsVars
    <3>1. \A r \in Runs : run'[r].status = run[r].status
      BY <2>4 DEF Stall, Tick, runsVars, RunsTypeOK, RunTyped
    <3>2. \A w \in Workers : Execution(w)' = Execution(w)
      BY <2>4 DEF Stall, Tick, runsVars, Execution
    <3> QED
      BY <2>4, <3>1, <3>2, StutterRefines DEF Stall, Tick, runsVars
  <2> QED
    BY <2>1, <2>2, <2>3, <2>4 DEF RunsNext
<1> QED
  BY <1>1, <1>2, RunsTyping, OneActiveRunHolds, HeldRunInvariant, PTL
  DEF RunsSpec, Register!RegisterSpec
==============================================================================
