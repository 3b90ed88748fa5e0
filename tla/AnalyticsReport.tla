--------------------------- MODULE AnalyticsReport ----------------------------
(***************************************************************************)
(* The report of one day, posted to Basecamp: the row of                   *)
(* analytics_report_runs that claims the day, the jobs that fire it (each  *)
(* deployment colour has its own Redis, hence its own job for the day),    *)
(* and the executions of run().                                            *)
(*                                                                         *)
(* The claim is a lease without an owner: whoever releases it releases     *)
(* whatever claim there is by then.  Basecamp is external: it may store an *)
(* answer and the reply may be lost.                                       *)
(***************************************************************************)
EXTENDS Integers, FiniteSets

CONSTANTS Jobs,       \* the jobs that fire the day
          Executions, \* executions of run() that can be in flight together
          NoJob, NoExecution,
          Attempts,   \* attempts of a job
          MaxStalls   \* redeliveries of a stalled job

ASSUME ReportAssumption ==
    /\ NoJob \notin Jobs /\ NoExecution \notin Executions
    /\ Attempts \in Nat \ {0} /\ MaxStalls \in Nat
    /\ IsFiniteSet(Executions)

VARIABLES day,      \* the row of the day: state of its claim, and whether it is posted
          job,
          exec,     \* where each execution is
          answers,  \* answers Basecamp has stored for the day
          lapses    \* history: what the lease and the replies cannot account for

reportVars == <<day, job, exec, answers, lapses>>

Idle == [pc |-> "idle", job |-> NoJob]

(* The points at which an execution holds, or believes to hold, the day *)
Working == {"claimed", "answered", "release"}

ReportTypeOK ==
    /\ day \in [claim : {"none", "live", "expired"}, posted : BOOLEAN]
    /\ job \in [Jobs -> [state : {"waiting", "active", "gone"}, holder : Executions \cup {NoExecution},
                         tried : 0 .. Attempts, stalls : 0 .. MaxStalls]]
    /\ exec \in [Executions -> [pc : {"idle", "claim"} \cup Working, job : Jobs \cup {NoJob}]]
    /\ answers \in Nat
    /\ lapses \in Nat

ReportInit ==
    /\ day = [claim |-> "none", posted |-> FALSE]
    /\ job = [j \in Jobs |-> [state |-> "waiting", holder |-> NoExecution, tried |-> 0, stalls |-> 0]]
    /\ exec = [e \in Executions |-> Idle]
    /\ answers = 0
    /\ lapses = 0

At(e, pc) == exec[e].pc = pc

Move(e, pc) == exec' = [exec EXCEPT ![e].pc = pc]

Stop(e) == exec' = [exec EXCEPT ![e] = Idle]

Works(e) == exec[e].pc \in Working

NoLapse == UNCHANGED lapses

Lapse == lapses' = lapses + 1

(* e still holds the lock of its job *)
HoldsJob(e) ==
    LET j == exec[e].job IN j \in Jobs /\ job[j].state = "active" /\ job[j].holder = e

----------------------------------------------------------------------------
(* BullMQ *)

TakeJob(e) ==
    /\ At(e, "idle")
    /\ \E j \in Jobs :
         /\ job[j].state = "waiting"
         /\ job' = [job EXCEPT ![j].state = "active", ![j].holder = e]
         /\ exec' = [exec EXCEPT ![e] = [pc |-> "claim", job |-> j]]
    /\ UNCHANGED <<day, answers, lapses>>

Complete(e) ==
    IF HoldsJob(e) THEN job' = [job EXCEPT ![exec[e].job].state = "gone"] ELSE UNCHANGED job

(* A retry that does not count *)
RetryForEver(e) ==
    IF HoldsJob(e)
    THEN job' = [job EXCEPT ![exec[e].job].state = "waiting", ![exec[e].job].tried = @ + 1]
    ELSE UNCHANGED job

(* run() threw *)
Retry(e) ==
    LET j == exec[e].job IN
    IF ~ HoldsJob(e) THEN UNCHANGED job
    ELSE IF job[j].tried + 1 < Attempts
    THEN job' = [job EXCEPT ![j].state = "waiting", ![j].tried = @ + 1]
    ELSE job' = [job EXCEPT ![j].state = "gone"]

(* The lock of an active job lapsed *)
Stall(j) ==
    /\ job[j].state = "active"
    /\ \/ /\ job[j].stalls < MaxStalls
          /\ job' = [job EXCEPT ![j].state = "waiting", ![j].stalls = @ + 1]
       \/ /\ job[j].stalls = MaxStalls
          /\ job' = [job EXCEPT ![j].state = "gone"]
    /\ UNCHANGED <<day, exec, answers, lapses>>

----------------------------------------------------------------------------
(* run() *)

(* The conflict clause of the claim without its condition on claimed_at *)
ClaimableUnposted == ~ day.posted

Claimable == ~ day.posted /\ day.claim # "live"

Claim(e) ==
    /\ At(e, "claim")
    /\ Claimable
    /\ day' = [day EXCEPT !.claim = "live"]
    /\ Move(e, "claimed")
    /\ UNCHANGED <<job, answers, lapses>>

(* 'already_done': the job is completed *)
Skip(e) ==
    /\ At(e, "claim")
    /\ ~ Claimable
    /\ Stop(e)
    /\ Complete(e)
    /\ UNCHANGED <<day, answers, lapses>>

(* metrics, or a post that Basecamp did not store, throws *)
PostFails(e) ==
    /\ At(e, "claimed")
    /\ Move(e, "release")
    /\ UNCHANGED <<day, job, answers, lapses>>

PostAnswer(e) ==
    /\ At(e, "claimed")
    /\ answers' = answers + 1
    /\ \/ Move(e, "answered") /\ NoLapse
       \/ Move(e, "release") /\ Lapse      \* stored, and the reply timed out or was unusable
    /\ UNCHANGED <<day, job>>

MarkPosted(e) ==
    /\ At(e, "answered")
    /\ day' = [day EXCEPT !.posted = TRUE]
    /\ Stop(e)
    /\ Complete(e)
    /\ UNCHANGED <<answers, lapses>>

(* The UPDATE throws, applied or not *)
MarkFails(e) ==
    /\ At(e, "answered")
    /\ \/ day' = [day EXCEPT !.posted = TRUE] /\ NoLapse
       \/ UNCHANGED day /\ Lapse
    /\ Move(e, "release")
    /\ UNCHANGED <<job, answers>>

(* Release is best effort; run() throws after it *)
Release(e) ==
    /\ At(e, "release")
    /\ \/ day' = IF day.posted THEN day ELSE [day EXCEPT !.claim = "expired"]
       \/ UNCHANGED day
    /\ Stop(e)
    /\ Retry(e)
    /\ UNCHANGED <<answers, lapses>>

(* A crash between the answer and its mark loses the answer *)
Crash(e) ==
    /\ ~ At(e, "idle")
    /\ Stop(e)
    /\ IF At(e, "answered") THEN Lapse ELSE NoLapse
    /\ UNCHANGED <<day, job, answers>>

(* CLAIM_LEASE_MINUTES pass; a lapse if an execution outlives its lease *)
LeaseExpires ==
    /\ day.claim = "live"
    /\ day' = [day EXCEPT !.claim = "expired"]
    /\ IF \E e \in Executions : Works(e) THEN Lapse ELSE NoLapse
    /\ UNCHANGED <<job, exec, answers>>

ReportNext ==
    \/ \E e \in Executions :
         \/ TakeJob(e) \/ Claim(e) \/ Skip(e) \/ PostFails(e) \/ PostAnswer(e)
         \/ MarkPosted(e) \/ MarkFails(e) \/ Release(e) \/ Crash(e)
    \/ \E j \in Jobs : Stall(j)
    \/ LeaseExpires

ReportSpec == ReportInit /\ [][ReportNext]_reportVars

----------------------------------------------------------------------------
(* Properties *)

(* A day is answered once, and once more for every lapse at most: a reply    *)
(* lost after Basecamp stored the answer, a mark that failed or was cut off  *)
(* by a crash, an execution that outlived its lease.  No other order of      *)
(* claims, failures, releases of somebody else's claim, crashes, retries and *)
(* redeliveries posts a day twice.                                           *)
OneAnswerPerLapse == answers <= 1 + lapses
==============================================================================
