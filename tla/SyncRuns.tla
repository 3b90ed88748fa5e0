------------------------------ MODULE SyncRuns ------------------------------
(***************************************************************************)
(* The runs of integration-sync for one project and provider: the row of   *)
(* integration_sync_runs with its counters, the coordinator job, the jobs  *)
(* of its tickets with their attempts, the watchdog and the sweep at boot. *)
(* Every database or queue call is a step; a worker may die between two.   *)
(***************************************************************************)
EXTENDS Naturals, FiniteSets

CONSTANTS SyncRunIds,    \* ids of rows of integration_sync_runs, in the order of their INSERTs
          Issues,        \* tickets of the remote project
          Returned,      \* what the provider may return to each run
          TicketAttempts,\* attempts of a ticket job
          MaxFaults      \* bound on calls that throw, deaths of workers and boots

ASSUME SyncRunsAssumption ==
    /\ SyncRunIds \subseteq Nat /\ IsFiniteSet(Issues) /\ Returned \in [SyncRunIds -> SUBSET Issues]
    /\ TicketAttempts \in Nat \ {0} /\ MaxFaults \in Nat

VARIABLES syncRun,    \* status, total_tickets, processed + failed, failed > 0, age of updated_at
          runJob,     \* the coordinator job: where its execution is, what it found, deliveries
          ticketJob,  \* each run's ticket jobs
          attempts,   \* attemptsMade of each ticket job
          tally,      \* history: how often each ticket was counted
          starting,   \* runs inserted by requests that have not enqueued their job yet
          faults      \* calls that threw, deaths and boots so far

syncVars == <<syncRun, runJob, ticketJob, attempts, tally, starting, faults>>

InFlight(r) == syncRun[r].status \in {"queued", "running"}
Concluded(r) == syncRun[r].status \in {"succeeded", "partial"}

SyncInit ==
    /\ syncRun = [r \in SyncRunIds |-> [status |-> "absent", total |-> 0, counted |-> 0,
                                        failures |-> FALSE, stale |-> FALSE]]
    /\ runJob = [r \in SyncRunIds |-> [pc |-> "none", found |-> {}, deliveries |-> 0]]
    /\ ticketJob = [r \in SyncRunIds |-> [t \in Issues |-> "none"]]
    /\ attempts = [r \in SyncRunIds |-> [t \in Issues |-> 0]]
    /\ tally = [r \in SyncRunIds |-> [t \in Issues |-> 0]]
    /\ starting = {}
    /\ faults = 0

Fault == faults < MaxFaults /\ faults' = faults + 1

-----------------------------------------------------------------------------
(* startRun                                                                *)

(* The INSERT, under idx_integration_sync_runs_active.                     *)
InsertSyncRun(r) ==
    /\ syncRun[r].status = "absent" /\ \A o \in SyncRunIds : o < r => syncRun[o].status # "absent"
    /\ \A o \in SyncRunIds : ~InFlight(o)
    /\ syncRun' = [syncRun EXCEPT ![r].status = "queued"]
    /\ starting' = starting \cup {r}
    /\ UNCHANGED <<runJob, ticketJob, attempts, tally, faults>>

AddRunJob(r) ==
    /\ r \in starting
    /\ runJob' = [runJob EXCEPT ![r].pc = "waiting"]
    /\ starting' = starting \ {r}
    /\ UNCHANGED <<syncRun, ticketJob, attempts, tally, faults>>

(* queue.add fails, or the process dies before it: the caller is told that *)
(* a run is in flight, and the run has no job.                             *)
AddRunJobFails(r) ==
    /\ Fault
    /\ r \in starting
    /\ starting' = starting \ {r}
    /\ UNCHANGED <<syncRun, runJob, ticketJob, attempts, tally>>

-----------------------------------------------------------------------------
(* The coordinator, processRun                                             *)

(* An UPDATE of the row, which also sets updated_at.                       *)
Touch(r, row) == syncRun' = [syncRun EXCEPT ![r] = [row EXCEPT !.stale = FALSE]]

(* The index forgotten *)
MayRunAlways(r) == TRUE

(* markRunning as the index alone would let it: any status.                *)
MayRun(r) == \A o \in SyncRunIds \ {r} : ~InFlight(o)

MarkRunning(r) ==
    /\ runJob[r].pc = "waiting"
    /\ \/ /\ MayRun(r)
          /\ Touch(r, [syncRun[r] EXCEPT !.status = "running"])
          /\ runJob' = [runJob EXCEPT ![r] = [pc |-> "fetch", found |-> {}, deliveries |-> @.deliveries + 1]]
       \/ /\ ~MayRun(r)
          /\ runJob' = [runJob EXCEPT ![r] = [pc |-> "failing", found |-> {}, deliveries |-> @.deliveries + 1]]
          /\ UNCHANGED syncRun
    /\ UNCHANGED <<ticketJob, attempts, tally, starting, faults>>

(* A page: tickets are stored and their number published (setTotals).      *)
ReadPage(r) ==
    /\ runJob[r].pc = "fetch"
    /\ \E page \in (SUBSET (Returned[r] \ runJob[r].found)) \ {{}} :
         /\ runJob' = [runJob EXCEPT ![r].found = @ \cup page]
         /\ Touch(r, [syncRun[r] EXCEPT !.total = Cardinality(runJob[r].found \cup page)])
    /\ UNCHANGED <<ticketJob, attempts, tally, starting, faults>>

(* The last page was read: setTotals, and finishRun if nothing was found.  *)
Conclusion(r, failures) == IF InFlight(r) THEN (IF failures THEN "partial" ELSE "succeeded")
                           ELSE syncRun[r].status

EndOfPages(r) ==
    /\ runJob[r].pc = "fetch"
    /\ LET n == Cardinality(runJob[r].found) IN
       \/ /\ n = 0
          /\ Touch(r, [syncRun[r] EXCEPT !.total = 0,
                         !.status = Conclusion(r, syncRun[r].failures)])
          /\ runJob' = [runJob EXCEPT ![r].pc = "end"]
       \/ /\ n > 0
          /\ Touch(r, [syncRun[r] EXCEPT !.total = n])
          /\ runJob' = [runJob EXCEPT ![r].pc = "enqueue"]
    /\ UNCHANGED <<ticketJob, attempts, tally, starting, faults>>

(* enqueueTicketJobs: one transaction; a job id that exists is left alone. *)
AddTicketJobs(r) ==
    /\ runJob[r].pc = "enqueue"
    /\ ticketJob' = [ticketJob EXCEPT ![r] = [t \in Issues |->
                       IF t \in runJob[r].found /\ ticketJob[r][t] = "none" THEN "waiting" ELSE ticketJob[r][t]]]
    /\ runJob' = [runJob EXCEPT ![r].pc = "notes"]
    /\ UNCHANGED <<syncRun, attempts, tally, starting, faults>>

RunJobDone(r) ==
    /\ runJob[r].pc = "notes"
    /\ Touch(r, syncRun[r])
    /\ runJob' = [runJob EXCEPT ![r].pc = "end"]
    /\ UNCHANGED <<ticketJob, attempts, tally, starting, faults>>

(* Any call of the coordinator throws; the catch calls failRun.            *)
RunJobThrows(r) ==
    /\ Fault
    /\ runJob[r].pc \in {"waiting", "fetch", "enqueue", "notes"}
    /\ runJob' = [runJob EXCEPT ![r].pc = "failing"]
    /\ UNCHANGED <<syncRun, ticketJob, attempts, tally, starting>>

FailSyncRun(r) ==
    /\ runJob[r].pc = "failing"
    /\ runJob' = [runJob EXCEPT ![r].pc = "end"]
    /\ IF InFlight(r) THEN Touch(r, [syncRun[r] EXCEPT !.status = "failed"]) ELSE UNCHANGED syncRun
    /\ UNCHANGED <<ticketJob, attempts, tally, starting, faults>>

(* failRun throws, and again when onFailed calls it: that is swallowed.    *)
FailSyncRunThrows(r) ==
    /\ Fault
    /\ runJob[r].pc = "failing"
    /\ runJob' = [runJob EXCEPT ![r].pc = "end"]
    /\ UNCHANGED <<syncRun, ticketJob, attempts, tally, starting>>

-----------------------------------------------------------------------------
(* A ticket job, processTicket.  Before it counts the ticket it writes     *)
(* only the ticket's row and document, which SyncPass is about.            *)

(* The check off by one *)
LastOneEarly(r, n) == syncRun[r].counted + n + 1 >= syncRun[r].total

(* The UPDATE of recordTicketResult and the check on its RETURNING.        *)
LastOne(r, n) == syncRun[r].counted + n >= syncRun[r].total

RecordTicketResult(r, t, n, failed) ==
    /\ Touch(r, [syncRun[r] EXCEPT !.counted = @ + n, !.failures = @ \/ failed])
    /\ tally' = [tally EXCEPT ![r][t] = @ + n]
    /\ ticketJob' = [ticketJob EXCEPT ![r][t] = IF LastOne(r, n) THEN "finish" ELSE "done"]
    /\ UNCHANGED <<runJob, attempts, starting, faults>>

(* Mirrored, unchanged, or vanished from the table.                        *)
TicketProcessed(r, t) ==
    /\ ticketJob[r][t] = "waiting"
    /\ RecordTicketResult(r, t, 1, FALSE)

(* Over the storage limit: counted as processed and as failed.             *)
TicketRefused(r, t) ==
    /\ ticketJob[r][t] = "waiting"
    /\ RecordTicketResult(r, t, 2, TRUE)

(* finishRun, a statement of its own.                                      *)
FinishRun(r, t) ==
    /\ ticketJob[r][t] = "finish"
    /\ Touch(r, [syncRun[r] EXCEPT !.status = Conclusion(r, syncRun[r].failures)])
    /\ ticketJob' = [ticketJob EXCEPT ![r][t] = "done"]
    /\ UNCHANGED <<runJob, attempts, tally, starting, faults>>

(* The limit on attempts forgotten *)
TicketThrowsForEver(r, t) ==
    /\ Fault
    /\ ticketJob[r][t] \in {"waiting", "finish"}
    /\ attempts' = [attempts EXCEPT ![r][t] = @ + 1]
    /\ ticketJob' = [ticketJob EXCEPT ![r][t] = "waiting"]
    /\ UNCHANGED <<syncRun, runJob, tally, starting>>

(* A call throws, before or after the ticket was counted: BullMQ tries     *)
(* again, and after the last attempt onFailed is called.                   *)
TicketThrows(r, t) ==
    /\ Fault
    /\ ticketJob[r][t] \in {"waiting", "finish"}
    /\ attempts[r][t] < TicketAttempts
    /\ attempts' = [attempts EXCEPT ![r][t] = @ + 1]
    /\ ticketJob' = [ticketJob EXCEPT ![r][t] = IF attempts[r][t] + 1 < TicketAttempts
                                                THEN "waiting" ELSE "failed"]
    /\ UNCHANGED <<syncRun, runJob, tally, starting>>

OnFailed(r, t) ==
    /\ ticketJob[r][t] = "failed"
    /\ RecordTicketResult(r, t, 1, TRUE)

(* What onFailed throws is swallowed.                                      *)
OnFailedThrows(r, t) ==
    /\ Fault
    /\ ticketJob[r][t] = "failed" \/ (ticketJob[r][t] = "finish" /\ attempts[r][t] = TicketAttempts)
    /\ ticketJob' = [ticketJob EXCEPT ![r][t] = "done"]
    /\ UNCHANGED <<syncRun, runJob, attempts, tally, starting>>

-----------------------------------------------------------------------------
(* Deaths, the watchdog and the boot of a replica                          *)

(* The worker dies; its job is delivered again.  A ticket job that has not *)
(* been counted is then as if it had not begun.                            *)
RunJobRedelivered(r) ==
    /\ Fault
    /\ runJob[r].pc \in {"fetch", "enqueue", "notes", "failing"}
    /\ runJob' = [runJob EXCEPT ![r].pc = "waiting"]
    /\ UNCHANGED <<syncRun, ticketJob, attempts, tally, starting>>

TicketRedelivered(r, t) ==
    /\ Fault
    /\ ticketJob[r][t] = "finish" /\ attempts[r][t] < TicketAttempts
    /\ ticketJob' = [ticketJob EXCEPT ![r][t] = "waiting"]
    /\ UNCHANGED <<syncRun, runJob, attempts, tally, starting>>

(* failStuckRuns(maxAge): one UPDATE over all runs in flight.              *)
FailStuckRuns(S) ==
    /\ syncRun' = [r \in SyncRunIds |-> IF InFlight(r) /\ r \in S
                     THEN [syncRun[r] EXCEPT !.status = "failed", !.stale = FALSE] ELSE syncRun[r]]
    /\ UNCHANGED <<runJob, ticketJob, attempts, tally, starting>>

(* A replica boots, or the provider is disconnected: whatever its age.     *)
FailInterruptedRuns == Fault /\ FailStuckRuns(SyncRunIds)

(* The watchdog that looks only at runs whose coordinator has begun *)
FailStaleRunning == FailStuckRuns({r \in SyncRunIds : syncRun[r].stale /\ syncRun[r].status = "running"}) /\ UNCHANGED faults

FailStaleRuns == FailStuckRuns({r \in SyncRunIds : syncRun[r].stale}) /\ UNCHANGED faults

(* SYNC_RUN_STALE_MINUTES pass without a write to the row.                 *)
GoStale(r) ==
    /\ InFlight(r) /\ ~syncRun[r].stale
    /\ syncRun' = [syncRun EXCEPT ![r].stale = TRUE]
    /\ UNCHANGED <<runJob, ticketJob, attempts, tally, starting, faults>>

-----------------------------------------------------------------------------
SyncNext ==
    \/ FailInterruptedRuns \/ FailStaleRuns
    \/ \E r \in SyncRunIds :
         \/ InsertSyncRun(r) \/ AddRunJob(r) \/ AddRunJobFails(r) \/ MarkRunning(r) \/ ReadPage(r) \/ EndOfPages(r)
         \/ AddTicketJobs(r) \/ RunJobDone(r) \/ RunJobThrows(r) \/ FailSyncRun(r) \/ FailSyncRunThrows(r)
         \/ RunJobRedelivered(r) \/ GoStale(r)
         \/ \E t \in Issues :
              \/ TicketProcessed(r, t) \/ TicketRefused(r, t)
              \/ FinishRun(r, t) \/ TicketThrows(r, t) \/ OnFailed(r, t) \/ OnFailedThrows(r, t)
              \/ TicketRedelivered(r, t)

(* Time passes, and the watchdog is a scheduled job of every replica.      *)
SyncFairness == WF_syncVars(FailStaleRuns) /\ \A r \in SyncRunIds : WF_syncVars(GoStale(r))

SyncSpec == SyncInit /\ [][SyncNext]_syncVars /\ SyncFairness

-----------------------------------------------------------------------------
SyncRow == [status : {"absent", "queued", "running", "succeeded", "partial", "failed"},
            total : Nat, counted : Nat, failures : BOOLEAN, stale : BOOLEAN]

RunJob == [pc : {"none", "waiting", "fetch", "enqueue", "notes", "failing", "end"},
           found : SUBSET Issues, deliveries : Nat]

SyncTypeOK ==
    /\ syncRun \in [SyncRunIds -> SyncRow]
    /\ runJob \in [SyncRunIds -> RunJob]
    /\ ticketJob \in [SyncRunIds -> [Issues -> {"none", "waiting", "finish", "failed", "done"}]]
    /\ attempts \in [SyncRunIds -> [Issues -> 0..TicketAttempts]]
    /\ tally \in [SyncRunIds -> [Issues -> Nat]]
    /\ starting \subseteq SyncRunIds
    /\ faults \in 0..MaxFaults

(* At most one run of a project and provider is in flight, although        *)
(* markRunning also revives a run that the boot sweep or the watchdog has  *)
(* failed, when its successor may already be on its way.                   *)
OneRunInFlight == \A r, o \in SyncRunIds : InFlight(r) /\ InFlight(o) => r = o

(* A run that concludes before every ticket of it is counted, or succeeds  *)
(* with a failed ticket, has counted some ticket twice (storage refused, a *)
(* job tried or delivered again after it was counted) or had its           *)
(* coordinator delivered twice: nothing else ends a run early.             *)
ConcludedMeansSettled ==
    \A r \in SyncRunIds : Concluded(r) =>
        \/ /\ \A t \in runJob[r].found : tally[r][t] > 0
           /\ syncRun[r].failures => syncRun[r].status = "partial"
        \/ \E t \in Issues : tally[r][t] > 1
        \/ runJob[r].deliveries > 1

(* A run in flight ends, also one whose job was never stored, whose worker *)
(* died or whose last ticket was never counted: the watchdog fails it.     *)
EverySyncRunEnds == \A r \in SyncRunIds : InFlight(r) ~> ~InFlight(r)

=============================================================================
