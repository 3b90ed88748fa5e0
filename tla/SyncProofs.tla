----------------------------- MODULE SyncProofs -----------------------------
(***************************************************************************)
(* Theorems about the runs of integration-sync, for any number of runs and *)
(* tickets, any attempts and any faults.                                   *)
(***************************************************************************)
EXTENDS SyncPass, SyncRuns, TLAPS, FiniteSetTheorems, WellFoundedInduction

-----------------------------------------------------------------------------
(* SyncRuns: type correctness                                              *)

LEMMA SyncInitTyped == SyncInit => SyncTypeOK
  BY SyncRunsAssumption DEF SyncInit, SyncTypeOK, SyncRow, RunJob

LEMMA FoundFinite ==
  ASSUME SyncTypeOK, NEW r \in SyncRunIds
  PROVE  IsFiniteSet(runJob[r].found) /\ Cardinality(runJob[r].found) \in Nat
<1>1. runJob[r].found \subseteq Issues
  BY DEF SyncTypeOK, RunJob
<1> QED
  BY <1>1, SyncRunsAssumption, FS_Subset, FS_CardinalityType

LEMMA TouchTyped ==
  ASSUME SyncTypeOK, NEW r \in SyncRunIds, NEW fields \in SyncRow, Touch(r, fields)
  PROVE  syncRun' \in [SyncRunIds -> SyncRow]
  BY DEF SyncTypeOK, Touch, SyncRow

LEMMA RowTyped ==
  ASSUME SyncTypeOK, NEW r \in SyncRunIds
  PROVE  syncRun[r] \in SyncRow /\ runJob[r] \in RunJob
  BY DEF SyncTypeOK, SyncRow, RunJob

(* What startRun and the coordinator write                                  *)
LEMMA CoordinatorTyped ==
  ASSUME SyncTypeOK, NEW r \in SyncRunIds
  PROVE  /\ InsertSyncRun(r) => SyncTypeOK'
         /\ AddRunJob(r) => SyncTypeOK'
         /\ AddRunJobFails(r) => SyncTypeOK'
         /\ MarkRunning(r) => SyncTypeOK'
         /\ ReadPage(r) => SyncTypeOK'
         /\ EndOfPages(r) => SyncTypeOK'
         /\ AddTicketJobs(r) => SyncTypeOK'
         /\ RunJobDone(r) => SyncTypeOK'
         /\ RunJobThrows(r) => SyncTypeOK'
         /\ FailSyncRun(r) => SyncTypeOK'
         /\ FailSyncRunThrows(r) => SyncTypeOK'
         /\ RunJobRedelivered(r) => SyncTypeOK'
         /\ GoStale(r) => SyncTypeOK'
<1>0. syncRun[r] \in SyncRow /\ runJob[r] \in RunJob
  BY RowTyped
<1> USE SyncRunsAssumption
<1>r. ASSUME NEW fields \in SyncRow PROVE [syncRun EXCEPT ![r] = fields] \in [SyncRunIds -> SyncRow]
  BY <1>r DEF SyncTypeOK
<1>j. ASSUME NEW pc \in {"waiting", "enqueue", "notes", "failing", "end"}
      PROVE  [runJob EXCEPT ![r].pc = pc] \in [SyncRunIds -> RunJob]
  <2>1. [runJob[r] EXCEPT !.pc = pc] \in RunJob
    BY <1>0, <1>j DEF RunJob
  <2> QED
    BY <2>1 DEF SyncTypeOK
<1>f. Fault => faults' \in 0..MaxFaults
  BY DEF Fault, SyncTypeOK
<1>1. ASSUME InsertSyncRun(r) PROVE SyncTypeOK'
  <2>1. syncRun' = [syncRun EXCEPT ![r] = [syncRun[r] EXCEPT !.status = "queued"]]
    BY <1>1 DEF InsertSyncRun, SyncTypeOK
  <2>2. [syncRun[r] EXCEPT !.status = "queued"] \in SyncRow
    BY <1>0 DEF SyncRow
  <2> QED
    BY <1>1, <1>r, <2>1, <2>2 DEF InsertSyncRun, SyncTypeOK
<1>2. AddRunJob(r) => SyncTypeOK'
  BY <1>j DEF AddRunJob, SyncTypeOK
<1>3. AddRunJobFails(r) => SyncTypeOK'
  BY <1>f DEF AddRunJobFails, SyncTypeOK
<1>4. ASSUME MarkRunning(r) PROVE SyncTypeOK'
  <2>1. [syncRun[r] EXCEPT !.status = "running"] \in SyncRow
    BY <1>0 DEF SyncRow
  <2>2. syncRun' \in [SyncRunIds -> SyncRow]
    BY <1>4, <2>1, TouchTyped DEF MarkRunning, SyncTypeOK
  <2>3. runJob' \in [SyncRunIds -> RunJob]
    <3>1. \A pc \in {"fetch", "failing"} : [pc |-> pc, found |-> {}, deliveries |-> runJob[r].deliveries + 1] \in RunJob
      BY <1>0 DEF RunJob
    <3>2. \E pc \in {"fetch", "failing"} :
            runJob' = [runJob EXCEPT ![r] = [pc |-> pc, found |-> {}, deliveries |-> runJob[r].deliveries + 1]]
      BY <1>4 DEF MarkRunning, SyncTypeOK
    <3> QED
      BY <3>1, <3>2 DEF SyncTypeOK
  <2> QED
    BY <1>4, <2>2, <2>3 DEF MarkRunning, SyncTypeOK
<1>5. ASSUME ReadPage(r) PROVE SyncTypeOK'
  <2>1. PICK page \in (SUBSET (Returned[r] \ runJob[r].found)) \ {{}} :
          /\ runJob' = [runJob EXCEPT ![r].found = @ \cup page]
          /\ Touch(r, [syncRun[r] EXCEPT !.total = Cardinality(runJob[r].found \cup page)])
    BY <1>5 DEF ReadPage
  <2>2. runJob[r].found \cup page \subseteq Issues
    BY <1>0, <2>1 DEF RunJob
  <2>3. Cardinality(runJob[r].found \cup page) \in Nat
    BY <2>2, FS_Subset, FS_CardinalityType
  <2>4. [syncRun[r] EXCEPT !.total = Cardinality(runJob[r].found \cup page)] \in SyncRow
    BY <1>0, <2>3 DEF SyncRow
  <2>5. syncRun' \in [SyncRunIds -> SyncRow]
    BY <2>1, <2>4, TouchTyped
  <2>6. runJob' \in [SyncRunIds -> RunJob]
    BY <1>0, <2>1, <2>2 DEF SyncTypeOK, RunJob
  <2> QED
    BY <1>5, <2>5, <2>6 DEF ReadPage, SyncTypeOK
<1>6. ASSUME EndOfPages(r) PROVE SyncTypeOK'
  <2> DEFINE n == Cardinality(runJob[r].found)
  <2>1. n \in Nat
    BY FoundFinite
  <2>2. \A st \in {"absent", "queued", "running", "succeeded", "partial", "failed"} :
          [syncRun[r] EXCEPT !.total = 0, !.status = st] \in SyncRow
    BY <1>0 DEF SyncRow
  <2>3. Conclusion(r, syncRun[r].failures) \in {"absent", "queued", "running", "succeeded", "partial", "failed"}
    BY <1>0 DEF Conclusion, SyncRow
  <2>4. [syncRun[r] EXCEPT !.total = n] \in SyncRow
    BY <1>0, <2>1 DEF SyncRow
  <2>5. syncRun' \in [SyncRunIds -> SyncRow]
    BY <1>6, <2>2, <2>3, <2>4, TouchTyped DEF EndOfPages
  <2>6. runJob' \in [SyncRunIds -> RunJob]
    BY <1>6, <1>j DEF EndOfPages
  <2> QED
    BY <1>6, <2>5, <2>6 DEF EndOfPages, SyncTypeOK
<1>7. ASSUME AddTicketJobs(r) PROVE SyncTypeOK'
  <2>1. ticketJob' \in [SyncRunIds -> [Issues -> {"none", "waiting", "finish", "failed", "done"}]]
    BY <1>7 DEF AddTicketJobs, SyncTypeOK
  <2> QED
    BY <1>7, <1>j, <2>1 DEF AddTicketJobs, SyncTypeOK
<1>8. RunJobDone(r) => SyncTypeOK'
  BY <1>0, <1>j, TouchTyped DEF RunJobDone, SyncTypeOK
<1>9. RunJobThrows(r) => SyncTypeOK'
  BY <1>f, <1>j DEF RunJobThrows, SyncTypeOK
<1>10. ASSUME FailSyncRun(r) PROVE SyncTypeOK'
  <2>1. [syncRun[r] EXCEPT !.status = "failed"] \in SyncRow
    BY <1>0 DEF SyncRow
  <2>2. syncRun' \in [SyncRunIds -> SyncRow]
    BY <1>10, <2>1, TouchTyped DEF FailSyncRun, SyncTypeOK
  <2> QED
    BY <1>10, <1>j, <2>2 DEF FailSyncRun, SyncTypeOK
<1>11. FailSyncRunThrows(r) => SyncTypeOK'
  BY <1>f, <1>j DEF FailSyncRunThrows, SyncTypeOK
<1>12. RunJobRedelivered(r) => SyncTypeOK'
  BY <1>f, <1>j DEF RunJobRedelivered, SyncTypeOK
<1>13. ASSUME GoStale(r) PROVE SyncTypeOK'
  <2>1. syncRun' = [syncRun EXCEPT ![r] = [syncRun[r] EXCEPT !.stale = TRUE]]
    BY <1>13 DEF GoStale, SyncTypeOK
  <2>2. [syncRun[r] EXCEPT !.stale = TRUE] \in SyncRow
    BY <1>0 DEF SyncRow
  <2> QED
    BY <1>13, <1>r, <2>1, <2>2 DEF GoStale, SyncTypeOK
<1> QED
  BY <1>1, <1>2, <1>3, <1>4, <1>5, <1>6, <1>7, <1>8, <1>9, <1>10, <1>11, <1>12, <1>13

(* What a ticket job writes                                                 *)
LEMMA RecordTyped ==
  ASSUME SyncTypeOK, NEW r \in SyncRunIds, NEW t \in Issues, NEW n \in Nat, NEW failed \in BOOLEAN,
         RecordTicketResult(r, t, n, failed)
  PROVE  SyncTypeOK'
<1>1. syncRun[r] \in SyncRow /\ tally[r] \in [Issues -> Nat] /\ ticketJob[r] \in [Issues -> {"none", "waiting", "finish", "failed", "done"}]
  BY RowTyped DEF SyncTypeOK
<1>2. [syncRun[r] EXCEPT !.counted = @ + n, !.failures = @ \/ failed] \in SyncRow
  <2>1. syncRun[r].counted + n \in Nat /\ (syncRun[r].failures \/ failed) \in BOOLEAN
    BY <1>1 DEF SyncRow
  <2> QED
    BY <1>1, <2>1 DEF SyncRow
<1>3. syncRun' \in [SyncRunIds -> SyncRow]
  BY <1>2, TouchTyped DEF RecordTicketResult
<1>4. tally' \in [SyncRunIds -> [Issues -> Nat]]
  BY <1>1 DEF RecordTicketResult, SyncTypeOK
<1>5. ticketJob' \in [SyncRunIds -> [Issues -> {"none", "waiting", "finish", "failed", "done"}]]
  BY <1>1 DEF RecordTicketResult, SyncTypeOK
<1> QED
  BY <1>3, <1>4, <1>5 DEF RecordTicketResult, SyncTypeOK

LEMMA TicketTyped ==
  ASSUME SyncTypeOK, NEW r \in SyncRunIds, NEW t \in Issues
  PROVE  /\ TicketProcessed(r, t) \/ TicketRefused(r, t) \/ OnFailed(r, t) => SyncTypeOK'
         /\ FinishRun(r, t) => SyncTypeOK'
         /\ TicketThrows(r, t) => SyncTypeOK'
         /\ OnFailedThrows(r, t) => SyncTypeOK'
         /\ TicketRedelivered(r, t) => SyncTypeOK'
<1> USE SyncRunsAssumption
<1>0. syncRun[r] \in SyncRow
  BY RowTyped
<1>1. TicketProcessed(r, t) \/ TicketRefused(r, t) \/ OnFailed(r, t) => SyncTypeOK'
  BY RecordTyped DEF TicketProcessed, TicketRefused, OnFailed
<1>2. ASSUME FinishRun(r, t) PROVE SyncTypeOK'
  <2>1. [syncRun[r] EXCEPT !.status = Conclusion(r, syncRun[r].failures)] \in SyncRow
    <3>1. Conclusion(r, syncRun[r].failures) \in {"absent", "queued", "running", "succeeded", "partial", "failed"}
      BY <1>0 DEF Conclusion, SyncRow
    <3> QED
      BY <1>0, <3>1 DEF SyncRow
  <2>2. syncRun' \in [SyncRunIds -> SyncRow]
    BY <1>2, <2>1, TouchTyped DEF FinishRun
  <2>3. ticketJob' \in [SyncRunIds -> [Issues -> {"none", "waiting", "finish", "failed", "done"}]]
    BY <1>2 DEF FinishRun, SyncTypeOK
  <2> QED
    BY <1>2, <2>2, <2>3 DEF FinishRun, SyncTypeOK
<1>3. ASSUME TicketThrows(r, t) PROVE SyncTypeOK'
  <2>1. attempts[r] \in [Issues -> 0..TicketAttempts] /\ attempts[r][t] + 1 \in 0..TicketAttempts
    BY <1>3 DEF TicketThrows, SyncTypeOK
  <2>2. attempts' \in [SyncRunIds -> [Issues -> 0..TicketAttempts]]
    BY <1>3, <2>1 DEF TicketThrows, SyncTypeOK
  <2>3. ticketJob' \in [SyncRunIds -> [Issues -> {"none", "waiting", "finish", "failed", "done"}]]
    BY <1>3 DEF TicketThrows, SyncTypeOK
  <2>4. faults' \in 0..MaxFaults
    BY <1>3 DEF TicketThrows, Fault, SyncTypeOK
  <2> QED
    BY <1>3, <2>2, <2>3, <2>4 DEF TicketThrows, SyncTypeOK
<1>4. OnFailedThrows(r, t) => SyncTypeOK'
  BY DEF OnFailedThrows, Fault, SyncTypeOK
<1>5. TicketRedelivered(r, t) => SyncTypeOK'
  BY DEF TicketRedelivered, Fault, SyncTypeOK
<1> QED
  BY <1>1, <1>2, <1>3, <1>4, <1>5

LEMMA StuckTyped ==
  ASSUME SyncTypeOK
  PROVE  (FailInterruptedRuns => SyncTypeOK') /\ (FailStaleRuns => SyncTypeOK')
<1>1. ASSUME NEW S, FailStuckRuns(S), faults' \in 0..MaxFaults PROVE SyncTypeOK'
  <2>1. \A r \in SyncRunIds : [syncRun[r] EXCEPT !.status = "failed", !.stale = FALSE] \in SyncRow /\ syncRun[r] \in SyncRow
    BY RowTyped DEF SyncRow
  <2>2. syncRun' \in [SyncRunIds -> SyncRow]
    BY <1>1, <2>1 DEF FailStuckRuns
  <2> QED
    BY <1>1, <2>2 DEF FailStuckRuns, SyncTypeOK
<1> QED
  BY <1>1, SyncRunsAssumption DEF FailInterruptedRuns, FailStaleRuns, Fault, SyncTypeOK

LEMMA SyncStepTyped == SyncTypeOK /\ [SyncNext]_syncVars => SyncTypeOK'
<1> SUFFICES ASSUME SyncTypeOK, [SyncNext]_syncVars PROVE SyncTypeOK'
  OBVIOUS
<1>1. CASE UNCHANGED syncVars
  BY <1>1 DEF syncVars, SyncTypeOK
<1> QED
  BY <1>1, CoordinatorTyped, TicketTyped, StuckTyped DEF SyncNext

(* The rows, the jobs and the counters of integration-sync keep their      *)
(* types; attempts and faults stay within their bounds.                    *)
THEOREM SyncTyping == SyncSpec => []SyncTypeOK
<1>1. SyncInit => SyncTypeOK
  BY SyncInitTyped
<1>2. SyncTypeOK /\ [SyncNext]_syncVars => SyncTypeOK'
  BY SyncStepTyped
<1> QED
  BY <1>1, <1>2, PTL DEF SyncSpec

-----------------------------------------------------------------------------
(* What an UPDATE of the row leaves behind                                     *)

Others(r) == \A o \in SyncRunIds \ {r} : syncRun'[o] = syncRun[o]

LEMMA TouchFacts ==
  ASSUME SyncTypeOK, NEW r \in SyncRunIds, NEW fields \in SyncRow, Touch(r, fields)
  PROVE  /\ Others(r)
         /\ syncRun'[r].status = fields.status /\ syncRun'[r].total = fields.total
         /\ syncRun'[r].counted = fields.counted /\ syncRun'[r].failures = fields.failures
<1>1. syncRun' = [syncRun EXCEPT ![r] = [fields EXCEPT !.stale = FALSE]]
  BY DEF Touch
<1>2. Others(r) /\ syncRun'[r] = [fields EXCEPT !.stale = FALSE]
  BY <1>1 DEF SyncTypeOK, Others
<1> QED
  BY <1>2 DEF SyncRow

LEMMA ConclusionTyped ==
  ASSUME SyncTypeOK, NEW r \in SyncRunIds
  PROVE  Conclusion(r, syncRun[r].failures) \in {"absent", "queued", "running", "succeeded", "partial", "failed"}
  BY RowTyped DEF Conclusion, SyncRow

LEMMA EndOfPagesFacts ==
  ASSUME SyncTypeOK, NEW r \in SyncRunIds, EndOfPages(r)
  PROVE  /\ Others(r) /\ syncRun'[r].counted = syncRun[r].counted /\ syncRun'[r].failures = syncRun[r].failures
         /\ syncRun'[r].total = Cardinality(runJob[r].found)
         /\ \/ /\ runJob[r].found = {} /\ runJob' = [runJob EXCEPT ![r].pc = "end"]
               /\ syncRun'[r].status = Conclusion(r, syncRun[r].failures)
            \/ /\ runJob' = [runJob EXCEPT ![r].pc = "enqueue"]
               /\ syncRun'[r].status = syncRun[r].status
         /\ syncRun'[r].status \in {syncRun[r].status, Conclusion(r, syncRun[r].failures)}
<1> DEFINE n == Cardinality(runJob[r].found)
           done == [syncRun[r] EXCEPT !.total = 0, !.status = Conclusion(r, syncRun[r].failures)]
           more == [syncRun[r] EXCEPT !.total = n]
<1>1. n \in Nat /\ (n = 0 => runJob[r].found = {})
  BY FoundFinite, FS_EmptySet
<1>2. done \in SyncRow /\ more \in SyncRow
  BY <1>1, RowTyped, ConclusionTyped DEF SyncRow
<1>3. CASE n = 0 /\ Touch(r, done) /\ runJob' = [runJob EXCEPT ![r].pc = "end"]
  <2>1. done.status = Conclusion(r, syncRun[r].failures) /\ done.total = 0
        /\ done.counted = syncRun[r].counted /\ done.failures = syncRun[r].failures
    BY RowTyped DEF SyncRow
  <2> QED
    BY <1>1, <1>2, <1>3, <2>1, TouchFacts
<1>4. CASE n > 0 /\ Touch(r, more) /\ runJob' = [runJob EXCEPT ![r].pc = "enqueue"]
  <2>1. more.status = syncRun[r].status /\ more.total = n
        /\ more.counted = syncRun[r].counted /\ more.failures = syncRun[r].failures
    BY RowTyped DEF SyncRow
  <2> QED
    BY <1>2, <1>4, <2>1, TouchFacts
<1> QED
  BY <1>3, <1>4 DEF EndOfPages

-----------------------------------------------------------------------------
(* One run in flight.  Only the INSERT and markRunning put a run in flight, *)
(* each when no other is.                                                   *)

LEMMA StatusSteps ==
  ASSUME SyncTypeOK, [SyncNext]_syncVars
  PROVE  \/ \A r \in SyncRunIds : InFlight(r)' => InFlight(r)
         \/ \E r \in SyncRunIds : /\ \A o \in SyncRunIds \ {r} : ~InFlight(o)
                                  /\ \A o \in SyncRunIds \ {r} : syncRun'[o] = syncRun[o]
<1> DEFINE Goal == \/ \A o \in SyncRunIds : InFlight(o)' => InFlight(o)
                   \/ \E r \in SyncRunIds : /\ \A o \in SyncRunIds \ {r} : ~InFlight(o)
                                            /\ \A o \in SyncRunIds \ {r} : syncRun'[o] = syncRun[o]
<1>0. \A r \in SyncRunIds : syncRun[r] \in SyncRow
  BY RowTyped
<1>t. ASSUME NEW r \in SyncRunIds, NEW fields, Touch(r, fields), fields \in SyncRow,
             fields.status \in {"queued", "running"} => InFlight(r)
      PROVE  Goal
  <2>1. /\ \A o \in SyncRunIds \ {r} : syncRun'[o] = syncRun[o]
        /\ syncRun'[r].status = fields.status
    BY <1>t DEF Touch, SyncTypeOK, SyncRow
  <2> QED
    BY <1>t, <2>1 DEF InFlight
<1>k. ASSUME UNCHANGED syncRun PROVE Goal
  BY <1>k DEF InFlight
<1>1. ASSUME UNCHANGED syncVars PROVE Goal
  BY <1>1, <1>k DEF syncVars
<1>2. ASSUME NEW r \in SyncRunIds, InsertSyncRun(r) PROVE Goal
  BY <1>2 DEF InsertSyncRun, SyncTypeOK
<1>3. ASSUME NEW r \in SyncRunIds, MarkRunning(r) PROVE Goal
  BY <1>3, <1>k DEF MarkRunning, MayRun, Touch, SyncTypeOK
<1>4. ASSUME NEW r \in SyncRunIds,
             AddRunJob(r) \/ AddRunJobFails(r) \/ AddTicketJobs(r) \/ RunJobThrows(r)
             \/ FailSyncRunThrows(r) \/ RunJobRedelivered(r)
      PROVE  Goal
  BY <1>4, <1>k DEF AddRunJob, AddRunJobFails, AddTicketJobs, RunJobThrows, FailSyncRunThrows, RunJobRedelivered
<1>5. ASSUME NEW r \in SyncRunIds, ReadPage(r) PROVE Goal
  <2>1. PICK page \in SUBSET Issues : Touch(r, [syncRun[r] EXCEPT !.total = Cardinality(runJob[r].found \cup page)])
    BY <1>5, SyncRunsAssumption DEF ReadPage
  <2>2. \A o \in SyncRunIds \ {r} : syncRun'[o] = syncRun[o]
    BY <2>1 DEF Touch, SyncTypeOK
  <2>3. syncRun'[r].status = syncRun[r].status
    BY <1>0, <2>1 DEF Touch, SyncTypeOK, SyncRow
  <2> QED
    BY <2>2, <2>3 DEF InFlight
<1>6. ASSUME NEW r \in SyncRunIds, EndOfPages(r) PROVE Goal
  <2>1. \A o \in SyncRunIds \ {r} : syncRun'[o] = syncRun[o]
    BY <1>6, EndOfPagesFacts DEF Others
  <2>2. syncRun'[r].status \in {syncRun[r].status, Conclusion(r, syncRun[r].failures)}
    BY <1>6, EndOfPagesFacts
  <2> QED
    BY <2>1, <2>2 DEF InFlight, Conclusion
<1>7. ASSUME NEW r \in SyncRunIds, RunJobDone(r) PROVE Goal
  BY <1>0, <1>7, <1>t DEF RunJobDone, InFlight
<1>8. ASSUME NEW r \in SyncRunIds, FailSyncRun(r) PROVE Goal
  <2>1. [syncRun[r] EXCEPT !.status = "failed"] \in SyncRow /\ [syncRun[r] EXCEPT !.status = "failed"].status = "failed"
    BY <1>0 DEF SyncRow
  <2> QED
    BY <1>8, <1>k, <1>t, <2>1, Zenon DEF FailSyncRun
<1>9. ASSUME NEW r \in SyncRunIds, GoStale(r) PROVE Goal
  BY <1>0, <1>9 DEF GoStale, InFlight, SyncTypeOK, SyncRow
<1>10. ASSUME NEW r \in SyncRunIds, NEW t \in Issues, NEW n \in Nat, NEW failed \in BOOLEAN,
              RecordTicketResult(r, t, n, failed)
       PROVE  Goal
  <2>1. /\ \A o \in SyncRunIds \ {r} : syncRun'[o] = syncRun[o]
        /\ syncRun'[r].status = syncRun[r].status
    BY <1>0, <1>10 DEF RecordTicketResult, Touch, SyncTypeOK, SyncRow
  <2> QED
    BY <2>1 DEF InFlight
<1>11. ASSUME NEW r \in SyncRunIds, NEW t \in Issues, TicketProcessed(r, t) \/ TicketRefused(r, t) \/ OnFailed(r, t)
       PROVE  Goal
  BY <1>10, <1>11 DEF TicketProcessed, TicketRefused, OnFailed
<1>12. ASSUME NEW r \in SyncRunIds, NEW t \in Issues, FinishRun(r, t) PROVE Goal
  <2>1. /\ \A o \in SyncRunIds \ {r} : syncRun'[o] = syncRun[o]
        /\ syncRun'[r].status = Conclusion(r, syncRun[r].failures)
    BY <1>0, <1>12 DEF FinishRun, Touch, SyncTypeOK, SyncRow
  <2> QED
    BY <2>1 DEF InFlight, Conclusion
<1>13. ASSUME NEW r \in SyncRunIds, NEW t \in Issues,
              TicketThrows(r, t) \/ OnFailedThrows(r, t) \/ TicketRedelivered(r, t)
       PROVE  Goal
  BY <1>13, <1>k DEF TicketThrows, OnFailedThrows, TicketRedelivered
<1>14. ASSUME NEW S, FailStuckRuns(S) PROVE Goal
  BY <1>0, <1>14 DEF FailStuckRuns, InFlight, SyncRow
<1> QED
  BY <1>1, <1>2, <1>3, <1>4, <1>5, <1>6, <1>7, <1>8, <1>9, <1>11, <1>12, <1>13, <1>14
     DEF SyncNext, FailInterruptedRuns, FailStaleRuns

(* At most one run of a project and provider is in flight, although        *)
(* markRunning takes a run in any status (startRun, markRunning, V72).     *)
THEOREM OneRunInFlightHolds == SyncSpec => []OneRunInFlight
<1>1. SyncInit => OneRunInFlight
  BY DEF SyncInit, OneRunInFlight, InFlight
<1>2. SyncTypeOK /\ OneRunInFlight /\ [SyncNext]_syncVars => OneRunInFlight'
  <2> SUFFICES ASSUME SyncTypeOK, OneRunInFlight, [SyncNext]_syncVars,
                      NEW r \in SyncRunIds, NEW o \in SyncRunIds, InFlight(r)', InFlight(o)'
               PROVE  r = o
    BY DEF OneRunInFlight
  <2>1. CASE \A x \in SyncRunIds : InFlight(x)' => InFlight(x)
    BY <2>1 DEF OneRunInFlight
  <2>2. ASSUME NEW x \in SyncRunIds, \A y \in SyncRunIds \ {x} : ~InFlight(y),
               \A y \in SyncRunIds \ {x} : syncRun'[y] = syncRun[y]
        PROVE  r = o
    BY <2>2 DEF InFlight
  <2> QED
    BY <2>1, <2>2, StatusSteps
<1> QED
  BY <1>1, <1>2, SyncTyping, PTL DEF SyncSpec

-----------------------------------------------------------------------------
(* Runs that conclude                                                       *)

CountedTickets(r) == {t \in Issues : tally[r][t] > 0}
CountedOnce(r) == \A t \in Issues : tally[r][t] <= 1
OneDelivery(r) == runJob[r].deliveries <= 1
InWalk(r) == runJob[r].pc \in {"fetch", "enqueue"}
TotalIsFound(r) == syncRun[r].total = Cardinality(runJob[r].found)
AllCounted(r) == runJob[r].found \subseteq CountedTickets(r)

(* As long as no ticket is counted twice, the counters count the tickets.  *)
CountersAgree(r) == CountedOnce(r) => syncRun[r].counted = Cardinality(CountedTickets(r))

(* Only tickets with a job are counted, and no run has jobs or an end      *)
(* before its coordinator was delivered.                                   *)
JobsBehindCounts(r) ==
    /\ \A t \in CountedTickets(r) : ticketJob[r][t] # "none"
    /\ runJob[r].deliveries = 0 => ~InWalk(r) /\ ~Concluded(r) /\ \A t \in Issues : ticketJob[r][t] = "none"

(* When the jobs of the tickets are made, or the run has concluded, the    *)
(* walk is over and the total is what it found.                            *)
WalkBehindJobs(r) ==
    /\ runJob[r].pc = "enqueue" => TotalIsFound(r)
    /\ OneDelivery(r) => \A t \in Issues : ticketJob[r][t] # "none" => t \in runJob[r].found /\ ~InWalk(r) /\ TotalIsFound(r)
    /\ OneDelivery(r) /\ Concluded(r) => ~InWalk(r)

(* Who is about to finish the run, and who has, found all tickets counted. *)
EndBehindCounts(r) ==
    OneDelivery(r) /\ CountedOnce(r) =>
        /\ (\E t \in Issues : ticketJob[r][t] = "finish") => AllCounted(r)
        /\ Concluded(r) => AllCounted(r) /\ (syncRun[r].failures => syncRun[r].status = "partial")

RunInv(r) == CountersAgree(r) /\ JobsBehindCounts(r) /\ WalkBehindJobs(r) /\ EndBehindCounts(r)

SettleInv == \A r \in SyncRunIds : RunInv(r)

LEMMA SettleInitInv == SyncInit => SettleInv
<1> SUFFICES ASSUME SyncInit, NEW r \in SyncRunIds PROVE RunInv(r)
  BY DEF SettleInv
<1>1. CountedTickets(r) = {}
  BY DEF SyncInit, CountedTickets
<1>2. CountersAgree(r)
  BY <1>1, FS_EmptySet DEF SyncInit, CountersAgree
<1>3. JobsBehindCounts(r) /\ WalkBehindJobs(r) /\ EndBehindCounts(r)
  BY <1>1 DEF SyncInit, JobsBehindCounts, WalkBehindJobs, EndBehindCounts, Concluded, InWalk
<1> QED
  BY <1>2, <1>3 DEF RunInv

(* A run whose rows and jobs a step leaves alone.                           *)
LEMMA RunLeftAlone ==
  ASSUME NEW r \in SyncRunIds, RunInv(r), syncRun'[r] = syncRun[r], runJob'[r] = runJob[r],
         ticketJob'[r] = ticketJob[r], tally'[r] = tally[r]
  PROVE  RunInv(r)'
<1>1. CountedTickets(r)' = CountedTickets(r)
  BY DEF CountedTickets
<1>2. CountersAgree(r)'
  BY <1>1 DEF RunInv, CountersAgree, CountedOnce
<1>3. JobsBehindCounts(r)'
  BY <1>1 DEF RunInv, JobsBehindCounts, InWalk, Concluded
<1>4. WalkBehindJobs(r)'
  BY DEF RunInv, WalkBehindJobs, InWalk, Concluded, OneDelivery, TotalIsFound
<1>5. EndBehindCounts(r)'
  BY <1>1 DEF RunInv, EndBehindCounts, Concluded, OneDelivery, CountedOnce, AllCounted
<1> QED
  BY <1>2, <1>3, <1>4, <1>5 DEF RunInv

(* A step that leaves the counts and the failures alone: what it may do to *)
(* the rest.                                                               *)
LEMMA CountsLeftAlone ==
  ASSUME NEW r \in SyncRunIds, RunInv(r), tally'[r] = tally[r],
         syncRun'[r].counted = syncRun[r].counted, JobsBehindCounts(r)', WalkBehindJobs(r)', EndBehindCounts(r)'
  PROVE  RunInv(r)'
<1>1. CountedTickets(r)' = CountedTickets(r)
  BY DEF CountedTickets
<1> QED
  BY <1>1 DEF RunInv, CountersAgree, CountedOnce

(* The steps of startRun and of the coordinator, for the run they are of.   *)
LEMMA QuietCoordinatorSettles ==
  ASSUME SyncTypeOK, NEW r \in SyncRunIds, RunInv(r), ticketJob' = ticketJob, tally' = tally,
         syncRun'[r] = syncRun[r] \/ (/\ syncRun'[r].counted = syncRun[r].counted /\ syncRun'[r].total = syncRun[r].total
                                      /\ syncRun'[r].failures = syncRun[r].failures
                                      /\ syncRun'[r].status = syncRun[r].status \/ ~Concluded(r)'),
         runJob'[r].found = runJob[r].found, runJob'[r].deliveries = runJob[r].deliveries,
         runJob'[r].pc = runJob[r].pc \/ runJob'[r].pc \in {"waiting", "notes", "failing", "end"}
  PROVE  RunInv(r)'
<1>1. CountedTickets(r)' = CountedTickets(r)
  BY DEF CountedTickets
<1>2. Concluded(r)' => Concluded(r) /\ syncRun'[r].status = syncRun[r].status
  BY DEF Concluded
<1>3. InWalk(r)' => InWalk(r)
  BY DEF InWalk
<1>4. JobsBehindCounts(r)'
  BY <1>1, <1>2, <1>3 DEF RunInv, JobsBehindCounts
<1>5. WalkBehindJobs(r)'
  BY <1>2, <1>3 DEF RunInv, WalkBehindJobs, OneDelivery, TotalIsFound
<1>6. EndBehindCounts(r)'
  BY <1>1, <1>2 DEF RunInv, EndBehindCounts, OneDelivery, CountedOnce, AllCounted
<1> QED
  BY <1>4, <1>5, <1>6, CountsLeftAlone

LEMMA QuietCoordinator ==
  ASSUME SyncTypeOK, NEW r \in SyncRunIds, RunInv(r)
  PROVE  /\ InsertSyncRun(r) => RunInv(r)'
         /\ AddRunJob(r) => RunInv(r)'
         /\ AddRunJobFails(r) => RunInv(r)'
         /\ RunJobDone(r) => RunInv(r)'
         /\ RunJobThrows(r) => RunInv(r)'
         /\ FailSyncRun(r) => RunInv(r)'
         /\ FailSyncRunThrows(r) => RunInv(r)'
         /\ RunJobRedelivered(r) => RunInv(r)'
         /\ GoStale(r) => RunInv(r)'
<1>0. syncRun[r] \in SyncRow /\ runJob[r] \in RunJob
  BY RowTyped
<1>j. ASSUME NEW pc, runJob' = [runJob EXCEPT ![r].pc = pc]
      PROVE  runJob'[r].found = runJob[r].found /\ runJob'[r].deliveries = runJob[r].deliveries /\ runJob'[r].pc = pc
  BY <1>0, <1>j DEF SyncTypeOK, RunJob
<1>1. ASSUME InsertSyncRun(r) PROVE RunInv(r)'
  <2>1. syncRun'[r] = [syncRun[r] EXCEPT !.status = "queued"]
    BY <1>1 DEF InsertSyncRun, SyncTypeOK
  <2>2. /\ syncRun'[r].counted = syncRun[r].counted /\ syncRun'[r].total = syncRun[r].total
        /\ syncRun'[r].failures = syncRun[r].failures /\ ~Concluded(r)'
    BY <1>0, <2>1 DEF SyncRow, Concluded
  <2> QED
    BY <1>1, <2>2, QuietCoordinatorSettles DEF InsertSyncRun
<1>2. ASSUME AddRunJob(r) PROVE RunInv(r)'
  BY <1>2, <1>j, QuietCoordinatorSettles DEF AddRunJob
<1>3. ASSUME AddRunJobFails(r) PROVE RunInv(r)'
  BY <1>3, QuietCoordinatorSettles DEF AddRunJobFails
<1>4. ASSUME RunJobDone(r) PROVE RunInv(r)'
  <2>1. Touch(r, syncRun[r]) /\ runJob' = [runJob EXCEPT ![r].pc = "end"] /\ ticketJob' = ticketJob /\ tally' = tally
    BY <1>4 DEF RunJobDone
  <2> QED
    BY <1>0, <1>j, <2>1, TouchFacts, QuietCoordinatorSettles
<1>5. ASSUME RunJobThrows(r) PROVE RunInv(r)'
  BY <1>5, <1>j, QuietCoordinatorSettles DEF RunJobThrows
<1>6. ASSUME FailSyncRun(r) PROVE RunInv(r)'
  <2>1. runJob' = [runJob EXCEPT ![r].pc = "end"] /\ ticketJob' = ticketJob /\ tally' = tally
    BY <1>6 DEF FailSyncRun
  <2>2. CASE syncRun' = syncRun
    BY <1>j, <2>1, <2>2, QuietCoordinatorSettles
  <2>3. CASE Touch(r, [syncRun[r] EXCEPT !.status = "failed"])
    <3> DEFINE fields == [syncRun[r] EXCEPT !.status = "failed"]
    <3>1. fields \in SyncRow /\ fields.status = "failed" /\ fields.counted = syncRun[r].counted
          /\ fields.total = syncRun[r].total /\ fields.failures = syncRun[r].failures
      BY <1>0 DEF SyncRow
    <3>2. /\ syncRun'[r].counted = syncRun[r].counted /\ syncRun'[r].total = syncRun[r].total
          /\ syncRun'[r].failures = syncRun[r].failures /\ ~Concluded(r)'
      BY <2>3, <3>1, TouchFacts DEF Concluded
    <3> QED
      BY <1>j, <2>1, <3>2, QuietCoordinatorSettles
  <2> QED
    BY <1>6, <2>2, <2>3 DEF FailSyncRun
<1>7. ASSUME FailSyncRunThrows(r) PROVE RunInv(r)'
  BY <1>7, <1>j, QuietCoordinatorSettles DEF FailSyncRunThrows
<1>8. ASSUME RunJobRedelivered(r) PROVE RunInv(r)'
  BY <1>8, <1>j, QuietCoordinatorSettles DEF RunJobRedelivered
<1>9. ASSUME GoStale(r) PROVE RunInv(r)'
  <2>1. syncRun'[r] = [syncRun[r] EXCEPT !.stale = TRUE]
    BY <1>9 DEF GoStale, SyncTypeOK
  <2>2. /\ syncRun'[r].counted = syncRun[r].counted /\ syncRun'[r].total = syncRun[r].total
        /\ syncRun'[r].failures = syncRun[r].failures /\ syncRun'[r].status = syncRun[r].status
    BY <1>0, <2>1 DEF SyncRow
  <2> QED
    BY <1>9, <2>2, QuietCoordinatorSettles DEF GoStale
<1> QED
  BY <1>1, <1>2, <1>3, <1>4, <1>5, <1>6, <1>7, <1>8, <1>9

(* markRunning, the walk over the pages and the jobs it makes.              *)
LEMMA WalkSettles ==
  ASSUME SyncTypeOK, NEW r \in SyncRunIds, RunInv(r)
  PROVE  /\ MarkRunning(r) => RunInv(r)'
         /\ ReadPage(r) => RunInv(r)'
         /\ EndOfPages(r) => RunInv(r)'
         /\ AddTicketJobs(r) => RunInv(r)'
<1>0. syncRun[r] \in SyncRow /\ runJob[r] \in RunJob
  BY RowTyped
<1>1. ASSUME MarkRunning(r) PROVE RunInv(r)'
  <2>1. ticketJob' = ticketJob /\ tally' = tally
    BY <1>1 DEF MarkRunning
  <2>2. runJob'[r].deliveries = runJob[r].deliveries + 1 /\ runJob'[r].pc \in {"fetch", "failing"}
    BY <1>1 DEF MarkRunning, SyncTypeOK
  <2>3. syncRun'[r].counted = syncRun[r].counted /\ (Concluded(r)' => Concluded(r))
    <3>1. [syncRun[r] EXCEPT !.status = "running"] \in SyncRow
      BY <1>0 DEF SyncRow
    <3>2. [syncRun[r] EXCEPT !.status = "running"].status = "running"
          /\ [syncRun[r] EXCEPT !.status = "running"].counted = syncRun[r].counted
      BY <1>0 DEF SyncRow
    <3>3. CASE Touch(r, [syncRun[r] EXCEPT !.status = "running"])
      <4>1. syncRun'[r].status = "running" /\ syncRun'[r].counted = syncRun[r].counted
        BY <3>1, <3>2, <3>3, TouchFacts
      <4> QED
        BY <4>1 DEF Concluded
    <3>4. CASE syncRun' = syncRun
      BY <3>4 DEF Concluded
    <3> QED
      BY <1>1, <3>3, <3>4 DEF MarkRunning
  <2>4. runJob[r].deliveries \in Nat
    BY <1>0 DEF RunJob
  <2>5. JobsBehindCounts(r)'
    BY <2>1, <2>2, <2>4 DEF RunInv, JobsBehindCounts, CountedTickets
  <2>6. OneDelivery(r)' => /\ ~Concluded(r)' /\ \A t \in Issues : ticketJob'[r][t] = "none"
    BY <2>1, <2>2, <2>3, <2>4 DEF RunInv, JobsBehindCounts, OneDelivery
  <2>7. WalkBehindJobs(r)' /\ EndBehindCounts(r)'
    BY <2>2, <2>6 DEF WalkBehindJobs, EndBehindCounts
  <2> QED
    BY <2>1, <2>3, <2>5, <2>7, CountsLeftAlone
<1>2. ASSUME ReadPage(r) PROVE RunInv(r)'
  <2>1. PICK page \in (SUBSET (Returned[r] \ runJob[r].found)) \ {{}} :
          /\ runJob' = [runJob EXCEPT ![r].found = @ \cup page]
          /\ Touch(r, [syncRun[r] EXCEPT !.total = Cardinality(runJob[r].found \cup page)])
    BY <1>2 DEF ReadPage
  <2> DEFINE fields == [syncRun[r] EXCEPT !.total = Cardinality(runJob[r].found \cup page)]
  <2>2. Cardinality(runJob[r].found \cup page) \in Nat
    BY <1>0, <2>1, FS_Subset, FS_CardinalityType, SyncRunsAssumption DEF RunJob
  <2>3. fields \in SyncRow /\ fields.status = syncRun[r].status /\ fields.counted = syncRun[r].counted
    BY <1>0, <2>2 DEF SyncRow
  <2>4. syncRun'[r].status = syncRun[r].status /\ syncRun'[r].counted = syncRun[r].counted
    BY <2>1, <2>3, TouchFacts
  <2>5. runJob[r].pc = "fetch" /\ runJob'[r].pc = "fetch" /\ runJob'[r].deliveries = runJob[r].deliveries
    BY <1>0, <1>2, <2>1 DEF ReadPage, SyncTypeOK, RunJob
  <2>6. ticketJob' = ticketJob /\ tally' = tally
    BY <1>2 DEF ReadPage
  <2>7. InWalk(r) /\ (Concluded(r)' <=> Concluded(r)) /\ (OneDelivery(r)' <=> OneDelivery(r)) /\ CountedTickets(r)' = CountedTickets(r)
    BY <2>4, <2>5, <2>6 DEF InWalk, Concluded, OneDelivery, CountedTickets
  <2>8. JobsBehindCounts(r)'
    BY <2>5, <2>6, <2>7 DEF RunInv, JobsBehindCounts
  <2>9. OneDelivery(r)' => /\ ~Concluded(r)' /\ \A t \in Issues : ticketJob'[r][t] = "none"
    BY <2>6, <2>7 DEF RunInv, WalkBehindJobs
  <2>10. WalkBehindJobs(r)' /\ EndBehindCounts(r)'
    BY <2>5, <2>9 DEF WalkBehindJobs, EndBehindCounts
  <2> QED
    BY <2>4, <2>6, <2>8, <2>10, CountsLeftAlone
<1>3. ASSUME EndOfPages(r) PROVE RunInv(r)'
  <2>1. ticketJob' = ticketJob /\ tally' = tally /\ runJob[r].pc = "fetch"
    BY <1>3 DEF EndOfPages
  <2>2. /\ syncRun'[r].counted = syncRun[r].counted /\ syncRun'[r].failures = syncRun[r].failures
        /\ syncRun'[r].total = Cardinality(runJob[r].found)
        /\ \/ /\ runJob[r].found = {} /\ runJob' = [runJob EXCEPT ![r].pc = "end"]
              /\ syncRun'[r].status = Conclusion(r, syncRun[r].failures)
           \/ /\ runJob' = [runJob EXCEPT ![r].pc = "enqueue"]
              /\ syncRun'[r].status = syncRun[r].status
    BY <1>3, EndOfPagesFacts
  <2>3. /\ runJob'[r].found = runJob[r].found /\ runJob'[r].deliveries = runJob[r].deliveries
        /\ \/ runJob'[r].pc = "end" /\ runJob[r].found = {} /\ syncRun'[r].status = Conclusion(r, syncRun[r].failures)
           \/ runJob'[r].pc = "enqueue" /\ syncRun'[r].status = syncRun[r].status
    BY <1>0, <2>2 DEF SyncTypeOK, RunJob
  <2>4. InWalk(r) /\ (OneDelivery(r)' <=> OneDelivery(r)) /\ CountedTickets(r)' = CountedTickets(r) /\ TotalIsFound(r)'
    BY <2>1, <2>2, <2>3 DEF InWalk, OneDelivery, CountedTickets, TotalIsFound
  <2>5. runJob[r].deliveries # 0
    BY <2>4 DEF RunInv, JobsBehindCounts
  <2>6. JobsBehindCounts(r)'
    BY <2>1, <2>3, <2>4, <2>5 DEF RunInv, JobsBehindCounts
  <2>7. OneDelivery(r)' => /\ ~Concluded(r) /\ \A t \in Issues : ticketJob'[r][t] = "none"
    BY <2>1, <2>4 DEF RunInv, WalkBehindJobs
  <2>8. OneDelivery(r)' /\ Concluded(r)' =>
          /\ runJob'[r].pc = "end" /\ runJob'[r].found = {} /\ (syncRun'[r].failures => syncRun'[r].status = "partial")
    BY <2>2, <2>3, <2>7 DEF Concluded, Conclusion, InFlight
  <2>9. WalkBehindJobs(r)'
    BY <2>4, <2>7, <2>8 DEF WalkBehindJobs, InWalk
  <2>10. EndBehindCounts(r)'
    BY <2>7, <2>8 DEF EndBehindCounts, AllCounted
  <2> QED
    BY <2>1, <2>2, <2>6, <2>9, <2>10, CountsLeftAlone
<1>4. ASSUME AddTicketJobs(r) PROVE RunInv(r)'
  <2>1. /\ runJob[r].pc = "enqueue" /\ syncRun' = syncRun /\ tally' = tally
        /\ runJob'[r].pc = "notes" /\ runJob'[r].found = runJob[r].found /\ runJob'[r].deliveries = runJob[r].deliveries
    BY <1>0, <1>4 DEF AddTicketJobs, SyncTypeOK, RunJob
  <2>2. \A t \in Issues : ticketJob'[r][t] = IF t \in runJob[r].found /\ ticketJob[r][t] = "none" THEN "waiting" ELSE ticketJob[r][t]
    BY <1>4 DEF AddTicketJobs, SyncTypeOK
  <2>3. /\ InWalk(r) /\ ~InWalk(r)' /\ (OneDelivery(r)' <=> OneDelivery(r)) /\ (Concluded(r)' <=> Concluded(r))
        /\ CountedTickets(r)' = CountedTickets(r) /\ (TotalIsFound(r)' <=> TotalIsFound(r))
    BY <2>1 DEF InWalk, OneDelivery, CountedTickets, TotalIsFound, Concluded
  <2>4. JobsBehindCounts(r)'
    <3>1. \A t \in CountedTickets(r) : t \in Issues /\ ticketJob[r][t] # "none"
      BY DEF RunInv, JobsBehindCounts, CountedTickets
    <3>2. runJob[r].deliveries # 0
      BY <2>3 DEF RunInv, JobsBehindCounts
    <3> QED
      BY <2>1, <2>2, <2>3, <3>1, <3>2 DEF JobsBehindCounts
  <2>5. TotalIsFound(r)'
    BY <2>1, <2>3 DEF RunInv, WalkBehindJobs
  <2>6. OneDelivery(r) => ~Concluded(r) /\ \A t \in Issues : ticketJob[r][t] = "none"
    BY <2>3 DEF RunInv, WalkBehindJobs
  <2>7. OneDelivery(r) => \A t \in Issues : ticketJob'[r][t] # "none" => t \in runJob'[r].found /\ ticketJob'[r][t] = "waiting"
    BY <2>1, <2>2, <2>6
  <2>8. WalkBehindJobs(r)'
    BY <2>1, <2>3, <2>5, <2>7 DEF WalkBehindJobs
  <2>9. EndBehindCounts(r)'
    BY <2>3, <2>6, <2>7 DEF EndBehindCounts
  <2> QED
    BY <2>1, <2>4, <2>8, <2>9, CountsLeftAlone
<1> QED
  BY <1>1, <1>2, <1>3, <1>4

(* The tickets the counters stand for, once one more is counted.            *)
LEMMA OneMoreCounted ==
  ASSUME SyncTypeOK, NEW r \in SyncRunIds, RunInv(r), NEW t \in Issues, NEW n \in {1, 2}, NEW failed \in BOOLEAN,
         RecordTicketResult(r, t, n, failed), CountedOnce(r)'
  PROVE  /\ CountedOnce(r) /\ n = 1 /\ t \notin CountedTickets(r)
         /\ CountedTickets(r)' = CountedTickets(r) \cup {t}
         /\ IsFiniteSet(CountedTickets(r)')
         /\ Cardinality(CountedTickets(r)') = syncRun[r].counted + 1
<1>1. tally[r] \in [Issues -> Nat]
  BY DEF SyncTypeOK
<1>2. \A u \in Issues : tally'[r][u] = IF u = t THEN tally[r][t] + n ELSE tally[r][u]
  BY <1>1 DEF RecordTicketResult, SyncTypeOK
<1>3. tally[r][t] = 0 /\ n = 1
  BY <1>1, <1>2 DEF CountedOnce
<1>4. CountedOnce(r)
  BY <1>1, <1>2, <1>3 DEF CountedOnce
<1>5. t \notin CountedTickets(r) /\ CountedTickets(r)' = CountedTickets(r) \cup {t}
  BY <1>1, <1>2, <1>3 DEF CountedTickets
<1>6. IsFiniteSet(CountedTickets(r))
  <2>1. CountedTickets(r) \subseteq Issues
    BY DEF CountedTickets
  <2> QED
    BY <2>1, FS_Subset, SyncRunsAssumption
<1>7. IsFiniteSet(CountedTickets(r) \cup {t}) /\ Cardinality(CountedTickets(r) \cup {t}) = Cardinality(CountedTickets(r)) + 1
  BY <1>5, <1>6, FS_AddElement
<1> QED
  BY <1>3, <1>4, <1>5, <1>7 DEF RunInv, CountersAgree

LEMMA RecordSettles ==
  ASSUME SyncTypeOK, NEW r \in SyncRunIds, RunInv(r), NEW t \in Issues, NEW n \in {1, 2}, NEW failed \in BOOLEAN,
         ticketJob[r][t] \in {"waiting", "failed"}, RecordTicketResult(r, t, n, failed)
  PROVE  RunInv(r)'
<1> DEFINE fields == [syncRun[r] EXCEPT !.counted = @ + n, !.failures = @ \/ failed]
<1>0. syncRun[r] \in SyncRow /\ runJob[r] \in RunJob
  BY RowTyped
<1>1. fields \in SyncRow /\ fields.status = syncRun[r].status /\ fields.total = syncRun[r].total /\ fields.counted = syncRun[r].counted + n
  <2>1. syncRun[r].counted + n \in Nat /\ (syncRun[r].failures \/ failed) \in BOOLEAN
    BY <1>0 DEF SyncRow
  <2> QED
    BY <1>0, <2>1 DEF SyncRow
<1>2. syncRun'[r].status = syncRun[r].status /\ syncRun'[r].total = syncRun[r].total /\ syncRun'[r].counted = syncRun[r].counted + n
  BY <1>1, TouchFacts DEF RecordTicketResult
<1>3. runJob' = runJob
  BY DEF RecordTicketResult
<1>4. \A u \in Issues : ticketJob'[r][u] = IF u = t THEN (IF LastOne(r, n) THEN "finish" ELSE "done") ELSE ticketJob[r][u]
  BY DEF RecordTicketResult, SyncTypeOK
<1>5. /\ (Concluded(r)' <=> Concluded(r)) /\ (InWalk(r)' <=> InWalk(r)) /\ (OneDelivery(r)' <=> OneDelivery(r))
      /\ (TotalIsFound(r)' <=> TotalIsFound(r))
  BY <1>2, <1>3 DEF Concluded, InWalk, OneDelivery, TotalIsFound
<1>6. \A u \in Issues : ticketJob'[r][u] = "none" <=> ticketJob[r][u] = "none"
  BY <1>4
<1>7. CountersAgree(r)'
  BY <1>2, OneMoreCounted DEF CountersAgree
<1>8. JobsBehindCounts(r)'
  <2>1. \A u \in CountedTickets(r)' : u \in Issues /\ (u = t \/ u \in CountedTickets(r))
    BY DEF CountedTickets, RecordTicketResult, SyncTypeOK
  <2>2. \A u \in CountedTickets(r)' : ticketJob'[r][u] # "none"
    BY <1>6, <2>1 DEF RunInv, JobsBehindCounts
  <2> QED
    BY <1>3, <1>5, <1>6, <2>2 DEF RunInv, JobsBehindCounts
<1>9. WalkBehindJobs(r)'
  BY <1>3, <1>5, <1>6 DEF RunInv, WalkBehindJobs
<1>10. EndBehindCounts(r)'
  <2> SUFFICES ASSUME OneDelivery(r), CountedOnce(r)'
               PROVE  /\ (\E u \in Issues : ticketJob'[r][u] = "finish") => AllCounted(r)'
                      /\ ~Concluded(r)
    BY <1>5 DEF EndBehindCounts
  <2>1. /\ CountedOnce(r) /\ n = 1 /\ t \notin CountedTickets(r) /\ CountedTickets(r)' = CountedTickets(r) \cup {t}
        /\ IsFiniteSet(CountedTickets(r)') /\ Cardinality(CountedTickets(r)') = syncRun[r].counted + 1
    BY OneMoreCounted
  <2>2. t \in runJob[r].found /\ TotalIsFound(r)
    BY DEF RunInv, WalkBehindJobs
  <2>3. ~AllCounted(r)
    BY <2>1, <2>2 DEF AllCounted
  <2>4. ~Concluded(r) /\ \A u \in Issues : ticketJob[r][u] # "finish"
    BY <2>1, <2>3 DEF RunInv, EndBehindCounts
  <2>5. ASSUME NEW u \in Issues, ticketJob'[r][u] = "finish" PROVE AllCounted(r)'
    <3>1. LastOne(r, n)
      BY <1>4, <2>4, <2>5
    <3>2. CountedTickets(r)' \subseteq runJob[r].found
      <4>1. CountedTickets(r) \subseteq runJob[r].found
        <5>1. \A v \in CountedTickets(r) : v \in Issues /\ ticketJob[r][v] # "none"
          BY DEF RunInv, JobsBehindCounts, CountedTickets
        <5> QED
          BY <5>1 DEF RunInv, WalkBehindJobs
      <4> QED
        BY <2>1, <2>2, <4>1
    <3>3. IsFiniteSet(runJob[r].found) /\ Cardinality(runJob[r].found) \in Nat
      BY FoundFinite
    <3>4. Cardinality(CountedTickets(r)') >= Cardinality(runJob[r].found) /\ Cardinality(CountedTickets(r)') \in Nat
      BY <1>0, <2>1, <2>2, <3>1, FS_CardinalityType DEF LastOne, TotalIsFound, SyncRow
    <3>5. CountedTickets(r)' = runJob[r].found
      BY <3>2, <3>3, <3>4, FS_Subset
    <3> QED
      BY <1>3, <3>5 DEF AllCounted
  <2> QED
    BY <2>4, <2>5
<1> QED
  BY <1>7, <1>8, <1>9, <1>10 DEF RunInv

(* The other steps of a ticket job.                                         *)
LEMMA TicketSettles ==
  ASSUME SyncTypeOK, NEW r \in SyncRunIds, RunInv(r), NEW t \in Issues
  PROVE  /\ FinishRun(r, t) => RunInv(r)'
         /\ TicketThrows(r, t) \/ OnFailedThrows(r, t) \/ TicketRedelivered(r, t) => RunInv(r)'
<1>0. syncRun[r] \in SyncRow
  BY RowTyped
<1>1. ASSUME FinishRun(r, t) PROVE RunInv(r)'
  <2> DEFINE fields == [syncRun[r] EXCEPT !.status = Conclusion(r, syncRun[r].failures)]
  <2>1. fields \in SyncRow /\ fields.status = Conclusion(r, syncRun[r].failures) /\ fields.total = syncRun[r].total
        /\ fields.counted = syncRun[r].counted /\ fields.failures = syncRun[r].failures
    BY <1>0, ConclusionTyped DEF SyncRow
  <2>2. /\ syncRun'[r].status = Conclusion(r, syncRun[r].failures) /\ syncRun'[r].total = syncRun[r].total
        /\ syncRun'[r].counted = syncRun[r].counted /\ syncRun'[r].failures = syncRun[r].failures
    BY <1>1, <2>1, TouchFacts DEF FinishRun
  <2>3. runJob' = runJob /\ tally' = tally /\ ticketJob[r][t] = "finish"
    BY <1>1 DEF FinishRun
  <2>4. \A u \in Issues : ticketJob'[r][u] = IF u = t THEN "done" ELSE ticketJob[r][u]
    BY <1>1 DEF FinishRun, SyncTypeOK
  <2>5. /\ (InWalk(r)' <=> InWalk(r)) /\ (OneDelivery(r)' <=> OneDelivery(r)) /\ (TotalIsFound(r)' <=> TotalIsFound(r))
        /\ CountedTickets(r)' = CountedTickets(r) /\ (CountedOnce(r)' <=> CountedOnce(r))
    BY <2>2, <2>3 DEF InWalk, OneDelivery, TotalIsFound, CountedTickets, CountedOnce
  <2>6. runJob[r].deliveries # 0
    BY <2>3 DEF RunInv, JobsBehindCounts
  <2>7. JobsBehindCounts(r)'
    <3>1. \A u \in CountedTickets(r) : u \in Issues /\ ticketJob[r][u] # "none"
      BY DEF RunInv, JobsBehindCounts, CountedTickets
    <3> QED
      BY <2>3, <2>4, <2>5, <2>6, <3>1 DEF JobsBehindCounts
  <2>8. OneDelivery(r) => ~InWalk(r)
    BY <2>3 DEF RunInv, WalkBehindJobs
  <2>9. WalkBehindJobs(r)'
    BY <2>3, <2>4, <2>5, <2>8 DEF RunInv, WalkBehindJobs
  <2>10. EndBehindCounts(r)'
    <3> SUFFICES ASSUME OneDelivery(r), CountedOnce(r)
                 PROVE  AllCounted(r)' /\ (Concluded(r)' /\ syncRun'[r].failures => syncRun'[r].status = "partial")
      BY <2>5 DEF EndBehindCounts
    <3>1. AllCounted(r) /\ (Concluded(r) => (syncRun[r].failures => syncRun[r].status = "partial"))
      BY <2>3 DEF RunInv, EndBehindCounts
    <3> QED
      BY <2>2, <2>3, <2>5, <3>1 DEF AllCounted, Concluded, Conclusion
  <2> QED
    BY <2>2, <2>3, <2>7, <2>9, <2>10, CountsLeftAlone
<1>2. ASSUME TicketThrows(r, t) \/ OnFailedThrows(r, t) \/ TicketRedelivered(r, t) PROVE RunInv(r)'
  <2>1. syncRun' = syncRun /\ runJob' = runJob /\ tally' = tally
    BY <1>2 DEF TicketThrows, OnFailedThrows, TicketRedelivered
  <2>2. ticketJob[r][t] # "none" /\ \E j \in {"waiting", "failed", "done"} :
          \A u \in Issues : ticketJob'[r][u] = IF u = t THEN j ELSE ticketJob[r][u]
    <3>1. ticketJob[r][t] \in {"waiting", "finish", "failed"} /\ \E j \in {"waiting", "failed", "done"} :
            ticketJob' = [ticketJob EXCEPT ![r][t] = j]
      BY <1>2, Zenon DEF TicketThrows, OnFailedThrows, TicketRedelivered
    <3> QED
      BY <3>1 DEF SyncTypeOK
  <2>3. /\ (InWalk(r)' <=> InWalk(r)) /\ (OneDelivery(r)' <=> OneDelivery(r)) /\ (TotalIsFound(r)' <=> TotalIsFound(r))
        /\ CountedTickets(r)' = CountedTickets(r) /\ (CountedOnce(r)' <=> CountedOnce(r)) /\ (Concluded(r)' <=> Concluded(r))
        /\ (AllCounted(r)' <=> AllCounted(r))
    BY <2>1 DEF InWalk, OneDelivery, TotalIsFound, CountedTickets, CountedOnce, Concluded, AllCounted
  <2>4. \A u \in Issues : /\ ticketJob'[r][u] = "none" <=> ticketJob[r][u] = "none"
                          /\ ticketJob'[r][u] = "finish" => ticketJob[r][u] = "finish"
    BY <2>2
  <2>5. \A u \in CountedTickets(r) : u \in Issues
    BY DEF CountedTickets
  <2>6. JobsBehindCounts(r)'
    BY <2>1, <2>3, <2>4, <2>5 DEF RunInv, JobsBehindCounts
  <2>7. WalkBehindJobs(r)'
    BY <2>1, <2>3, <2>4 DEF RunInv, WalkBehindJobs
  <2>8. EndBehindCounts(r)'
    BY <2>1, <2>3, <2>4 DEF RunInv, EndBehindCounts
  <2> QED
    BY <2>1, <2>6, <2>7, <2>8, CountsLeftAlone
<1> QED
  BY <1>1, <1>2

(* The watchdog and the sweep at boot only fail runs in flight.             *)
LEMMA StuckSettles ==
  ASSUME SyncTypeOK, NEW S, FailStuckRuns(S), NEW r \in SyncRunIds, RunInv(r)
  PROVE  RunInv(r)'
<1>0. syncRun[r] \in SyncRow
  BY RowTyped
<1>1. syncRun'[r] = IF InFlight(r) /\ r \in S THEN [syncRun[r] EXCEPT !.status = "failed", !.stale = FALSE] ELSE syncRun[r]
  BY DEF FailStuckRuns
<1>2. CASE syncRun'[r] = syncRun[r]
  BY <1>2, QuietCoordinatorSettles DEF FailStuckRuns
<1>3. CASE syncRun'[r] = [syncRun[r] EXCEPT !.status = "failed", !.stale = FALSE]
  <2>1. /\ syncRun'[r].counted = syncRun[r].counted /\ syncRun'[r].total = syncRun[r].total
        /\ syncRun'[r].failures = syncRun[r].failures /\ ~Concluded(r)'
    BY <1>0, <1>3 DEF SyncRow, Concluded
  <2> QED
    BY <2>1, QuietCoordinatorSettles DEF FailStuckRuns
<1> QED
  BY <1>1, <1>2, <1>3

(* What a step of one run leaves alone.                                     *)
LEMMA OtherRunsAlone ==
  ASSUME SyncTypeOK, NEW r \in SyncRunIds, NEW o \in SyncRunIds \ {r},
         \/ InsertSyncRun(r) \/ AddRunJob(r) \/ AddRunJobFails(r) \/ MarkRunning(r) \/ ReadPage(r) \/ EndOfPages(r)
         \/ AddTicketJobs(r) \/ RunJobDone(r) \/ RunJobThrows(r) \/ FailSyncRun(r) \/ FailSyncRunThrows(r)
         \/ RunJobRedelivered(r) \/ GoStale(r)
         \/ \E t \in Issues :
              \/ TicketProcessed(r, t) \/ TicketRefused(r, t)
              \/ FinishRun(r, t) \/ TicketThrows(r, t) \/ OnFailed(r, t) \/ OnFailedThrows(r, t)
              \/ TicketRedelivered(r, t)
  PROVE  syncRun'[o] = syncRun[o] /\ runJob'[o] = runJob[o] /\ ticketJob'[o] = ticketJob[o] /\ tally'[o] = tally[o]
<1>t. \A fields : Touch(r, fields) => syncRun'[o] = syncRun[o]
  BY DEF Touch, SyncTypeOK
<1> USE <1>t DEF SyncTypeOK
<1>1. CASE InsertSyncRun(r) \/ AddRunJob(r) \/ AddRunJobFails(r) \/ AddTicketJobs(r) \/ GoStale(r)
  BY <1>1 DEF InsertSyncRun, AddRunJob, AddRunJobFails, AddTicketJobs, GoStale
<1>2. CASE MarkRunning(r)
  BY <1>2 DEF MarkRunning
<1>3. CASE ReadPage(r)
  BY <1>3 DEF ReadPage
<1>4. CASE EndOfPages(r)
  BY <1>4 DEF EndOfPages
<1>5. CASE RunJobDone(r) \/ FailSyncRun(r)
  BY <1>5 DEF RunJobDone, FailSyncRun
<1>6. CASE RunJobThrows(r) \/ FailSyncRunThrows(r) \/ RunJobRedelivered(r)
  BY <1>6 DEF RunJobThrows, FailSyncRunThrows, RunJobRedelivered
<1>7. ASSUME NEW t \in Issues, NEW n, NEW failed, RecordTicketResult(r, t, n, failed)
      PROVE  syncRun'[o] = syncRun[o] /\ runJob'[o] = runJob[o] /\ ticketJob'[o] = ticketJob[o] /\ tally'[o] = tally[o]
  BY <1>7 DEF RecordTicketResult
<1>8. CASE \E t \in Issues : TicketProcessed(r, t) \/ TicketRefused(r, t) \/ OnFailed(r, t)
  BY <1>7, <1>8 DEF TicketProcessed, TicketRefused, OnFailed
<1>9. CASE \E t \in Issues : FinishRun(r, t) \/ TicketThrows(r, t) \/ OnFailedThrows(r, t) \/ TicketRedelivered(r, t)
  BY <1>9 DEF FinishRun, TicketThrows, OnFailedThrows, TicketRedelivered
<1> QED
  BY <1>1, <1>2, <1>3, <1>4, <1>5, <1>6, <1>8, <1>9

LEMMA SettleStep == SyncTypeOK /\ SettleInv /\ [SyncNext]_syncVars => SettleInv'
<1> SUFFICES ASSUME SyncTypeOK, SettleInv, [SyncNext]_syncVars, NEW o \in SyncRunIds PROVE RunInv(o)'
  BY DEF SettleInv
<1>0. RunInv(o)
  BY DEF SettleInv
<1>1. CASE UNCHANGED syncVars
  BY <1>0, <1>1, RunLeftAlone DEF syncVars
<1>2. CASE FailInterruptedRuns \/ FailStaleRuns
  BY <1>0, <1>2, StuckSettles DEF FailInterruptedRuns, FailStaleRuns
<1> DEFINE CoordinatorStep(r) ==
             \/ InsertSyncRun(r) \/ AddRunJob(r) \/ AddRunJobFails(r) \/ MarkRunning(r) \/ ReadPage(r) \/ EndOfPages(r)
             \/ AddTicketJobs(r) \/ RunJobDone(r) \/ RunJobThrows(r) \/ FailSyncRun(r) \/ FailSyncRunThrows(r)
             \/ RunJobRedelivered(r) \/ GoStale(r)
           TicketStep(r, t) ==
             \/ TicketProcessed(r, t) \/ TicketRefused(r, t)
             \/ FinishRun(r, t) \/ TicketThrows(r, t) \/ OnFailed(r, t) \/ OnFailedThrows(r, t)
             \/ TicketRedelivered(r, t)
<1>3. ASSUME NEW r \in SyncRunIds \ {o}, CoordinatorStep(r) \/ \E t \in Issues : TicketStep(r, t) PROVE RunInv(o)'
  <2>1. syncRun'[o] = syncRun[o] /\ runJob'[o] = runJob[o] /\ ticketJob'[o] = ticketJob[o] /\ tally'[o] = tally[o]
    BY <1>3, OtherRunsAlone
  <2> QED
    BY <1>0, <2>1, RunLeftAlone
<1>4. CoordinatorStep(o) => RunInv(o)'
  BY <1>0, QuietCoordinator, WalkSettles
<1>5. ASSUME NEW t \in Issues, TicketStep(o, t) PROVE RunInv(o)'
  <2>1. TicketProcessed(o, t) \/ TicketRefused(o, t) \/ OnFailed(o, t) => RunInv(o)'
    BY <1>0, RecordSettles DEF TicketProcessed, TicketRefused, OnFailed
  <2> QED
    BY <1>0, <1>5, <2>1, TicketSettles
<1> QED
  BY <1>1, <1>2, <1>3, <1>4, <1>5 DEF SyncNext

(* A run of integration-sync concludes only when every ticket it found is   *)
(* counted and its failures show, unless a ticket was counted twice or the  *)
(* coordinator ran twice (recordTicketResult, finishRun).                   *)
THEOREM ConcludedMeansSettledHolds == SyncSpec => []ConcludedMeansSettled
<1>1. SyncTypeOK /\ SettleInv => ConcludedMeansSettled
  <2> SUFFICES ASSUME SyncTypeOK, SettleInv, NEW r \in SyncRunIds, Concluded(r)
               PROVE  \/ /\ \A t \in runJob[r].found : tally[r][t] > 0
                         /\ syncRun[r].failures => syncRun[r].status = "partial"
                      \/ \E t \in Issues : tally[r][t] > 1
                      \/ runJob[r].deliveries > 1
    BY DEF ConcludedMeansSettled
  <2>1. runJob[r].deliveries \in Nat /\ tally[r] \in [Issues -> Nat]
    BY RowTyped DEF SyncTypeOK, RunJob
  <2>2. OneDelivery(r) /\ CountedOnce(r) => AllCounted(r) /\ (syncRun[r].failures => syncRun[r].status = "partial")
    BY DEF SettleInv, RunInv, EndBehindCounts
  <2> QED
    BY <2>1, <2>2 DEF OneDelivery, CountedOnce, AllCounted, CountedTickets
<1> QED
  BY <1>1, SettleInitInv, SettleStep, SyncTyping, PTL DEF SyncSpec

-----------------------------------------------------------------------------
(* SyncPass: the invariant                                                   *)

PassRow == [status : {"absent", "active", "succeeded", "failed"}, created : Nat, window : Nat, since : Nat,
            truncated : BOOLEAN]
Found == [ticket : Tickets, updated : Nat]
WalkPc == {"idle", "waiting", "walk", "ready", "notes", "end"}
Walk == [pc : WalkPc, pos : Nat, page : SUBSET Found, queued : SUBSET Tickets,
         skipped : Nat, capped : BOOLEAN]

JobState == {"none", "waiting", "building", "settled"}

PassTyped ==
    /\ now \in Nat /\ remote \in [Tickets -> Nat] /\ indexed \in [Tickets -> Nat]
    /\ row \in [Tickets -> [updated : Nat, synced : Nat]] /\ doc \in [Tickets -> Nat]
    /\ run \in [Runs -> PassRow] /\ coord \in [Runs -> Walk]
    /\ job \in [Runs -> [Tickets -> JobState]] /\ held \in [Runs -> [Tickets -> Nat]]
    /\ asked \in [Starters -> [pc : {"idle", "insert"}, window : Nat, since : Nat]]

(* Nothing is known of a ticket before it happens, a search shows an edit    *)
(* in time, and no pass starts in the future.                                *)
InTime ==
    /\ \A t \in Tickets : remote[t] <= now /\ row[t].updated <= remote[t] /\ indexed[t] <= remote[t]
    /\ \A t \in Tickets : indexed[t] # remote[t] => now <= remote[t] + Lag
    /\ \A r \in Runs : \A e \in coord[r].page : e.updated <= remote[e.ticket]
    /\ \A r \in Runs : run[r].window <= now /\ run[r].since <= now
    /\ \A s \in Starters : asked[s].window <= now /\ asked[s].since <= now

Stale(t) == row[t].updated # remote[t] /\ t \notin excused

(* Every stale ticket was edited since x.                                    *)
Reached(x) == \A t \in Tickets : Stale(t) => remote[t] >= x

(* What was edited before the window of a run, less the buffer, is fresh.    *)
Covered(r) == \A t \in Tickets : Stale(t) => remote[t] + Buffer >= run[r].window

SinceReached ==
    /\ \A s \in Starters : Reached(asked[s].since)
    /\ \A r \in Runs : Reached(run[r].since)

(* What a walk has behind it is fresh, or on the page it is about to store.  *)
WalkedFresh(r) ==
    coord[r].pc = "walk" /\ ~coord[r].capped =>
      \A t \in Tickets : Stale(t) =>
        \/ remote[t] + Buffer >= run[r].window \/ remote[t] < coord[r].pos
        \/ \E e \in coord[r].page : e.ticket = t /\ e.updated = remote[t]

(* So a run that has walked to the end leaves its window covered.            *)
Done(r) ==
    /\ ~run[r].truncated
    /\ Completed(r) \/ coord[r].pc = "ready" \/ \E t \in Tickets : job[r][t] # "none"

DoneCovered(r) == Done(r) => Covered(r)

(* A run that does not exist has done nothing.                               *)
AbsentIdle(r) == run[r].status = "absent" => coord[r].pc = "idle" /\ \A t \in Tickets : job[r][t] = "none"

PassInv ==
    /\ PassTyped /\ InTime /\ SinceReached
    /\ \A r \in Runs : WalkedFresh(r) /\ DoneCovered(r) /\ AbsentIdle(r)

LEMMA PassInit == Init => PassInv
<1> SUFFICES ASSUME Init PROVE PassInv
  OBVIOUS
<1>1. now \in Nat
  BY SyncPassAssumption, FS_CardinalityType DEF Init
<1>2. \A t \in Tickets : remote[t] \in 1..now /\ indexed[t] = remote[t] /\ row[t].updated = 0
  BY DEF Init
<1>3. /\ \A r \in Runs : /\ run[r] = [status |-> "absent", created |-> 0, window |-> 0, since |-> 0, truncated |-> FALSE]
                         /\ coord[r] = NewWalk /\ \A t \in Tickets : job[r][t] = "none"
      /\ \A s \in Starters : asked[s] = Nothing
  BY DEF Init
<1>4. PassTyped
  <2>1. remote \in [Tickets -> Nat] /\ indexed \in [Tickets -> Nat]
    BY <1>1, <1>2 DEF Init
  <2>2. run \in [Runs -> PassRow] /\ coord \in [Runs -> Walk]
    BY DEF Init, PassRow, Walk, WalkPc, NewWalk
  <2>3. /\ row \in [Tickets -> [updated : Nat, synced : Nat]] /\ doc \in [Tickets -> Nat]
        /\ asked \in [Starters -> [pc : {"idle", "insert"}, window : Nat, since : Nat]]
        /\ job \in [Runs -> [Tickets -> JobState]] /\ held \in [Runs -> [Tickets -> Nat]]
    BY DEF Init, Nothing, JobState
  <2> QED
    BY <1>1, <2>1, <2>2, <2>3 DEF PassTyped
<1>5. InTime
  BY <1>1, <1>2, <1>3 DEF InTime, NewWalk, Nothing
<1>6. SinceReached
  BY <1>1, <1>2, <1>3 DEF SinceReached, Reached, Nothing
<1>7. \A r \in Runs : WalkedFresh(r) /\ DoneCovered(r) /\ AbsentIdle(r)
  BY <1>3 DEF WalkedFresh, DoneCovered, Done, AbsentIdle, Completed, NewWalk
<1> QED
  BY <1>4, <1>5, <1>6, <1>7 DEF PassInv

LEMMA Greatest ==
  ASSUME NEW n \in Nat, NEW S \in SUBSET (0..n), S # {}
  PROVE  \E w \in S : \A v \in S : v <= w
<1>1. PICK R : R = OpToRel(<, Nat)
  BY Zenon
<1>2. \A x, y \in Nat : x < y => <<x, y>> \in R
  BY <1>1 DEF OpToRel
<1>3. IsWellFoundedOn(R, Nat)
  BY <1>1, NatLessThanWellFounded, Zenon
<1>4. PICK T : T = {n - v : v \in S}
  OBVIOUS
<1>5. T \subseteq Nat /\ T # {}
  <2>1. \A v \in S : v \in 0..n /\ n - v \in Nat
    OBVIOUS
  <2> QED
    BY <1>4, <2>1
<1>6. PICK x \in T : \A y \in T : ~(<<y, x>> \in R)
  BY <1>3, <1>5, WFMin
<1>7. PICK w \in S : x = n - w
  BY <1>4, <1>6
<1>8. ASSUME NEW v \in S PROVE v <= w
  <2>1. n - v \in T /\ n - v \in Nat /\ n - w \in Nat
    BY <1>4
  <2>2. ~(n - v < n - w)
    BY <1>2, <1>6, <1>7, <2>1
  <2> QED
    BY <2>2
<1> QED
  BY <1>8

(* The cursor is the window of a run that has covered it.                    *)
LEMMA NightlyReached ==
  ASSUME PassInv
  PROVE  NightlySince \in Nat /\ NightlySince <= now /\ Reached(NightlySince)
<1>0. PassTyped /\ InTime /\ \A r \in Runs : DoneCovered(r)
  BY DEF PassInv
<1>1. PICK ends : ends = {run[r].window : r \in {x \in Runs : Completed(x) /\ ~run[x].truncated}}
  OBVIOUS
<1>2. Cursor = IF ends = {} THEN 0 ELSE CHOOSE w \in ends : \A v \in ends : v <= w
  BY <1>1 DEF Cursor
<1>3. ends \in SUBSET (0..now) /\ now \in Nat
  <2>1. \A r \in Runs : run[r].window \in 0..now
    BY <1>0 DEF PassTyped, PassRow, InTime
  <2> QED
    BY <1>0, <1>1, <2>1 DEF PassTyped
<1>r. \A t \in Tickets : remote[t] \in Nat
  BY <1>0 DEF PassTyped
<1>4. CASE ends = {}
  <2>1. NightlySince = 0
    BY <1>2, <1>4, SyncPassAssumption DEF NightlySince
  <2> QED
    BY <1>3, <1>r, <2>1 DEF Reached
<1>5. CASE ends # {}
  <2>1. \E w \in ends : \A v \in ends : v <= w
    BY <1>3, <1>5, Greatest
  <2>2. Cursor \in ends
    BY <1>2, <1>5, <2>1
  <2>3. PICK r \in Runs : Completed(r) /\ ~run[r].truncated /\ run[r].window = Cursor
    BY <1>1, <2>2
  <2>4. Covered(r)
    BY <1>0, <2>3 DEF DoneCovered, Done
  <2>5. Cursor \in Nat /\ Cursor <= now
    BY <1>3, <2>2
  <2>6. NightlySince \in Nat /\ NightlySince <= now
    BY <1>3, <2>5, SyncPassAssumption DEF NightlySince
  <2>7. Reached(NightlySince)
    BY <1>r, <2>3, <2>4, <2>5, SyncPassAssumption DEF Reached, Covered, NightlySince
  <2> QED
    BY <2>6, <2>7
<1> QED
  BY <1>4, <1>5

LEMMA ReachKept == PassInv => RowsWithinReach
  BY NightlyReached DEF RowsWithinReach, WithinReach, Reached, Stale

-----------------------------------------------------------------------------
(* SyncPass: what the steps write                                            *)

(* Nobody makes a ticket stale but by editing it.                            *)
NoneStaler == \A t \in Tickets : Stale(t)' => (Stale(t) /\ remote'[t] = remote[t]) \/ remote'[t] > now

(* What is left to show of a step                                            *)
KeepsReach ==
    /\ \A s \in Starters : asked'[s].since <= now /\ Reached(asked'[s].since)
    /\ \A r \in Runs : run'[r].since <= now /\ Reached(run'[r].since)
KeepsWalk(r) == run'[r].window = run[r].window /\ coord'[r] = coord[r]
KeepsDone(r) == run'[r].window = run[r].window /\ (Done(r)' => Done(r) \/ Covered(r))

LEMMA StepKeeps ==
  ASSUME PassInv, PassTyped', InTime', NoneStaler, KeepsReach,
         \A r \in Runs :
           /\ KeepsWalk(r) \/ WalkedFresh(r)'
           /\ KeepsDone(r) \/ DoneCovered(r)'
           /\ AbsentIdle(r)'
  PROVE  PassInv'
<1>0. PassTyped /\ InTime /\ SinceReached /\ \A r \in Runs : WalkedFresh(r) /\ DoneCovered(r)
  BY DEF PassInv
<1>1. ASSUME NEW t \in Tickets, NEW x \in Nat, Stale(t)', x <= now, Reached(x) PROVE remote'[t] >= x
  <2>1. remote'[t] \in Nat /\ now \in Nat
    BY <1>0 DEF PassTyped
  <2>2. CASE remote'[t] > now
    BY <1>1, <2>1, <2>2
  <2>3. CASE Stale(t) /\ remote'[t] = remote[t]
    BY <1>1, <2>3 DEF Reached
  <2> QED
    BY <1>1, <2>2, <2>3 DEF NoneStaler
<1>2. SinceReached'
  <2>1. \A s \in Starters : asked'[s].since \in Nat
    BY DEF PassTyped
  <2>2. \A r \in Runs : run'[r].since \in Nat
    BY DEF PassTyped, PassRow
  <2> QED
    BY <1>1, <2>1, <2>2 DEF SinceReached, KeepsReach, Reached
<1>3. ASSUME NEW r \in Runs, KeepsWalk(r) PROVE WalkedFresh(r)'
  <2>1. SUFFICES ASSUME coord'[r].pc = "walk", ~coord'[r].capped, NEW t \in Tickets, Stale(t)'
                 PROVE  \/ remote'[t] + Buffer >= run'[r].window \/ remote'[t] < coord'[r].pos
                        \/ \E e \in coord'[r].page : e.ticket = t /\ e.updated = remote'[t]
    BY DEF WalkedFresh
  <2>2. remote'[t] \in Nat /\ now \in Nat /\ run[r].window \in Nat /\ run[r].window <= now /\ Buffer \in Nat
    BY <1>0, SyncPassAssumption DEF PassTyped, PassRow, InTime
  <2>3. CASE remote'[t] > now
    BY <1>3, <2>2, <2>3 DEF KeepsWalk
  <2>4. CASE Stale(t) /\ remote'[t] = remote[t]
    BY <1>0, <1>3, <2>1, <2>4 DEF WalkedFresh, KeepsWalk
  <2> QED
    BY <2>1, <2>3, <2>4 DEF NoneStaler
<1>4. ASSUME NEW r \in Runs, KeepsDone(r) PROVE DoneCovered(r)'
  <2>1. SUFFICES ASSUME Done(r)', NEW t \in Tickets, Stale(t)' PROVE remote'[t] + Buffer >= run'[r].window
    BY DEF DoneCovered, Covered
  <2>2. Covered(r) /\ run'[r].window = run[r].window
    BY <1>0, <1>4, <2>1 DEF KeepsDone, DoneCovered
  <2>3. remote'[t] \in Nat /\ now \in Nat /\ run[r].window \in Nat /\ run[r].window <= now /\ Buffer \in Nat
    BY <1>0, SyncPassAssumption DEF PassTyped, PassRow, InTime
  <2>4. CASE remote'[t] > now
    BY <2>2, <2>3, <2>4
  <2>5. CASE Stale(t) /\ remote'[t] = remote[t]
    BY <2>2, <2>5 DEF Covered
  <2> QED
    BY <2>1, <2>4, <2>5 DEF NoneStaler
<1> QED
  BY <1>2, <1>3, <1>4 DEF PassInv

(* The steps of one run                                                      *)
LEMMA OneRun ==
  ASSUME PassInv, PassTyped', NoneStaler, NEW r \in Runs, UNCHANGED <<now, remote, indexed, asked>>,
         \A o \in Runs \ {r} : run'[o] = run[o] /\ coord'[o] = coord[o] /\ job'[o] = job[o],
         run'[r].window = run[r].window, run'[r].since = run[r].since,
         \A t \in Tickets : row'[t].updated <= remote[t],
         \A e \in coord'[r].page : e.updated <= remote[e.ticket],
         KeepsWalk(r) \/ WalkedFresh(r)', KeepsDone(r) \/ DoneCovered(r)', AbsentIdle(r)'
  PROVE  PassInv'
<1>0. PassTyped /\ InTime /\ SinceReached /\ \A o \in Runs : AbsentIdle(o)
  BY DEF PassInv
<1>1. ASSUME NEW o \in Runs PROVE run'[o].window = run[o].window /\ run'[o].since = run[o].since
  BY <1>1
<1>2. ASSUME NEW o \in Runs, NEW e \in coord'[o].page PROVE e.updated <= remote[e.ticket]
  BY <1>0 DEF InTime
<1>3. InTime'
  BY <1>0, <1>1, <1>2 DEF InTime
<1>4. KeepsReach
  BY <1>0, <1>1 DEF KeepsReach, InTime, SinceReached
<1>5. ASSUME NEW o \in Runs
      PROVE  (KeepsWalk(o) \/ WalkedFresh(o)') /\ (KeepsDone(o) \/ DoneCovered(o)') /\ AbsentIdle(o)'
  <2>1. CASE o = r
    BY <2>1
  <2>2. CASE o # r
    <3>1. run'[o] = run[o] /\ coord'[o] = coord[o] /\ job'[o] = job[o] /\ AbsentIdle(o)
      BY <1>0, <2>2
    <3> QED
      BY <3>1 DEF KeepsWalk, KeepsDone, Done, Completed, AbsentIdle
  <2> QED
    BY <2>1, <2>2
<1> QED
  BY <1>3, <1>4, <1>5, StepKeeps

LEMMA StatusWritten ==
  ASSUME NEW p \in PassRow, NEW st \in {"absent", "active", "succeeded", "failed"},
         NEW q, q = [p EXCEPT !.status = st]
  PROVE  /\ q \in PassRow /\ q.status = st /\ q.window = p.window /\ q.since = p.since
         /\ q.truncated = p.truncated
  BY DEF PassRow

LEMMA WalkWritten ==
  ASSUME NEW v \in Walk, NEW pc \in WalkPc,
         NEW w, w = [v EXCEPT !.pc = pc]
  PROVE  w \in Walk /\ w.pc = pc /\ w.page = v.page
  BY DEF Walk

LEMMA WalkReset ==
  ASSUME NEW pc \in WalkPc, NEW w, w = [NewWalk EXCEPT !.pc = pc]
  PROVE  w \in Walk /\ w.pc = pc /\ w.page = {}
  BY DEF NewWalk, Walk, WalkPc

LEMMA WalkBegun ==
  ASSUME NEW p \in Nat, NEW w, w = [NewWalk EXCEPT !.pc = "walk", !.pos = p]
  PROVE  w \in Walk /\ w.pc = "walk" /\ w.pos = p /\ w.page = {}
  BY DEF NewWalk, Walk, WalkPc

(* The coordinator's steps that neither walk nor store                       *)
LEMMA CoordRests ==
  ASSUME PassInv, NEW r \in Runs, UNCHANGED <<now, remote, indexed, row, docVars, job, asked, excused>>,
         run[r].status # "absent",
         NEW w \in Walk, coord' = [coord EXCEPT ![r] = w], w.pc \notin {"walk", "ready"} \/ w = coord[r],
         \A e \in w.page : e \in coord[r].page,
         NEW st \in {"active", "failed", run[r].status}, run' = [run EXCEPT ![r].status = st]
  PROVE  PassInv'
<1>0. PassTyped /\ InTime
  BY DEF PassInv
<1>1. /\ run' \in [Runs -> PassRow] /\ \A o \in Runs \ {r} : run'[o] = run[o]
      /\ run'[r].window = run[r].window /\ run'[r].since = run[r].since /\ run'[r].status = st
      /\ run'[r].truncated = run[r].truncated
  <2>1. run[r] \in PassRow /\ st \in {"absent", "active", "succeeded", "failed"}
    BY <1>0 DEF PassTyped, PassRow
  <2>2. PICK q : q = [run[r] EXCEPT !.status = st]
    OBVIOUS
  <2>3. run' = [run EXCEPT ![r] = q]
    BY <1>0, <2>2 DEF PassTyped
  <2>4. /\ q \in PassRow /\ q.status = st /\ q.window = run[r].window /\ q.since = run[r].since
        /\ q.truncated = run[r].truncated
    BY <2>1, <2>2, StatusWritten
  <2> QED
    BY <1>0, <2>3, <2>4 DEF PassTyped
<1>2. coord' \in [Runs -> Walk] /\ coord'[r] = w /\ \A o \in Runs \ {r} : coord'[o] = coord[o]
  BY <1>0 DEF PassTyped
<1>3. PassTyped'
  BY <1>0, <1>1, <1>2 DEF PassTyped, docVars
<1>4. NoneStaler /\ (KeepsWalk(r) \/ WalkedFresh(r)') /\ KeepsDone(r) /\ AbsentIdle(r)'
  BY <1>1, <1>2 DEF NoneStaler, Stale, KeepsWalk, WalkedFresh, KeepsDone, Done, Completed, AbsentIdle
<1>5. /\ \A t \in Tickets : row'[t].updated <= remote[t]
      /\ \A e \in coord'[r].page : e.updated <= remote[e.ticket]
  BY <1>0, <1>2 DEF InTime
<1> QED
  BY <1>1, <1>2, <1>3, <1>4, <1>5, OneRun

LEMMA CoordRestsSteps ==
  ASSUME PassInv, NEW r \in Runs,
         BeginRefused(r) \/ WriteNotes(r) \/ WalkFails(r) \/ Redeliver(r) \/ FailRun(r)
  PROVE  PassInv'
<1>0. PassTyped /\ AbsentIdle(r)
  BY DEF PassInv
<1>1. coord[r] \in Walk /\ run[r] \in PassRow /\ run[r].status \in {"absent", "active", "succeeded", "failed"}
  BY <1>0 DEF PassTyped, PassRow
<1>2. run = [run EXCEPT ![r].status = run[r].status] /\ coord = [coord EXCEPT ![r] = coord[r]]
  BY <1>0, <1>1 DEF PassTyped, PassRow
<1>3. CASE BeginRefused(r) \/ WriteNotes(r)
  <2>1. /\ coord' = [coord EXCEPT ![r].pc = "end"] /\ coord[r].pc \in {"waiting", "notes"}
        /\ UNCHANGED <<now, remote, indexed, row, docVars, run, job, asked, excused>>
    BY <1>3 DEF BeginRefused, WriteNotes
  <2>2. PICK w : w = [coord[r] EXCEPT !.pc = "end"]
    OBVIOUS
  <2>3. coord' = [coord EXCEPT ![r] = w]
    BY <1>0, <2>1, <2>2 DEF PassTyped
  <2>4. w \in Walk /\ w.pc = "end" /\ w.page = coord[r].page
    BY <1>1, <2>2, WalkWritten DEF WalkPc
  <2>5. run[r].status # "absent"
    BY <1>0, <2>1 DEF AbsentIdle
  <2>6. run' = [run EXCEPT ![r].status = run[r].status]
    BY <1>2, <2>1
  <2> QED
    BY <2>1, <2>3, <2>4, <2>5, <2>6, CoordRests
<1>4. CASE WalkFails(r) \/ Redeliver(r)
  <2>1. /\ UNCHANGED <<now, remote, indexed, row, docVars, job, asked, excused>>
        /\ coord[r].pc \in {"walk", "ready", "notes"}
    BY <1>4 DEF WalkFails, Redeliver
  <2>2. PICK w : /\ w \in Walk /\ w.pc \in {"end", "waiting"} /\ w.page = {}
                 /\ coord' = [coord EXCEPT ![r] = w]
    <3>1. PICK pc \in {"end", "waiting"} : coord' = [coord EXCEPT ![r] = [NewWalk EXCEPT !.pc = pc]]
      BY <1>4 DEF WalkFails, Redeliver
    <3>2. PICK w : w = [NewWalk EXCEPT !.pc = pc]
      OBVIOUS
    <3> QED
      BY <3>1, <3>2, WalkReset DEF WalkPc
  <2>3. PICK st \in {"active", "failed", run[r].status} : run' = [run EXCEPT ![r].status = st]
    <3>1. CASE WalkFails(r)
      BY <3>1 DEF WalkFails
    <3>2. CASE Redeliver(r)
      BY <1>2, <3>2 DEF Redeliver
    <3> QED
      BY <1>4, <3>1, <3>2
  <2>4. run[r].status # "absent"
    BY <1>0, <2>1 DEF AbsentIdle
  <2> QED
    BY <2>1, <2>2, <2>3, <2>4, CoordRests
<1>5. CASE FailRun(r)
  <2>1. /\ run' = [run EXCEPT ![r].status = "failed"] /\ run[r].status # "absent"
        /\ UNCHANGED <<now, remote, indexed, row, docVars, job, asked, excused, coord>>
    BY <1>5 DEF FailRun, Active
  <2> QED
    BY <1>1, <1>2, <2>1, CoordRests
<1> QED
  BY <1>3, <1>4, <1>5

(* The walk                                                                  *)
LEMMA BeginWalkStep ==
  ASSUME PassInv, NEW r \in Runs, BeginWalk(r)
  PROVE  PassInv'
<1>0. PassTyped /\ InTime /\ AbsentIdle(r)
  BY DEF PassInv
<1>1. /\ UNCHANGED <<now, remote, indexed, row, docVars, job, asked, excused>> /\ run[r].status # "absent"
      /\ run' = [run EXCEPT ![r].status = "active"]
      /\ coord' = [coord EXCEPT ![r] = [NewWalk EXCEPT !.pc = "walk", !.pos = now + 1]]
  BY <1>0 DEF BeginWalk, AbsentIdle
<1>2. PICK q : q = [run[r] EXCEPT !.status = "active"]
  OBVIOUS
<1>3. run' = [run EXCEPT ![r] = q] /\ run[r] \in PassRow
  BY <1>0, <1>1, <1>2 DEF PassTyped
<1>4. /\ q \in PassRow /\ q.status = "active" /\ q.window = run[r].window /\ q.since = run[r].since
      /\ q.truncated = run[r].truncated
  BY <1>2, <1>3, StatusWritten
<1>5. run' \in [Runs -> PassRow] /\ run'[r] = q /\ \A o \in Runs \ {r} : run'[o] = run[o]
  BY <1>0, <1>3, <1>4 DEF PassTyped
<1>6. PICK w : w = [NewWalk EXCEPT !.pc = "walk", !.pos = now + 1]
  OBVIOUS
<1>7. w \in Walk /\ w.pc = "walk" /\ w.pos = now + 1 /\ w.page = {}
  <2>1. PICK p \in Nat : p = now + 1
    BY <1>0 DEF PassTyped
  <2> QED
    BY <1>6, <2>1, WalkBegun
<1>8. coord' \in [Runs -> Walk] /\ coord'[r] = w /\ \A o \in Runs \ {r} : coord'[o] = coord[o]
  BY <1>0, <1>1, <1>6, <1>7 DEF PassTyped
<1>9. PassTyped'
  BY <1>0, <1>1, <1>5, <1>8 DEF PassTyped, docVars
<1>10. \A t \in Tickets : row[t].updated <= remote[t] /\ remote[t] < now + 1
  BY <1>0 DEF InTime, PassTyped
<1>11. NoneStaler /\ WalkedFresh(r)' /\ KeepsDone(r) /\ AbsentIdle(r)'
  BY <1>1, <1>4, <1>5, <1>7, <1>8, <1>10
     DEF NoneStaler, Stale, WalkedFresh, KeepsDone, Done, Completed, AbsentIdle
<1> QED
  BY <1>1, <1>4, <1>5, <1>7, <1>8, <1>9, <1>10, <1>11, OneRun

(* What a walk still has to find of a stale ticket the provider returns in   *)
(* the state it has.                                                         *)
LEMMA StillAhead ==
  ASSUME PassInv, NEW r \in Runs, NEW t \in Tickets, Stale(t), coord[r].pc = "walk", ~coord[r].capped,
         coord[r].page = {}
  PROVE  remote[t] + Buffer >= run[r].window \/ (indexed[t] = remote[t] /\ t \in Ahead(r))
<1>0. PassTyped /\ InTime /\ SinceReached /\ WalkedFresh(r)
  BY DEF PassInv
<1>1. /\ remote[t] \in Nat /\ indexed[t] \in Nat /\ now \in Nat /\ Buffer \in Nat /\ Lag \in Nat /\ Lag <= Buffer
      /\ run[r].window \in Nat /\ run[r].window <= now
  BY <1>0, SyncPassAssumption DEF PassTyped, PassRow, InTime
<1>2. SUFFICES ASSUME ~(remote[t] + Buffer >= run[r].window) PROVE indexed[t] = remote[t] /\ t \in Ahead(r)
  OBVIOUS
<1>3. remote[t] < coord[r].pos
  BY <1>0, <1>2 DEF WalkedFresh
<1>4. indexed[t] = remote[t]
  BY <1>0, <1>1, <1>2 DEF InTime
<1>5. run[r].since <= remote[t]
  BY <1>0, <1>1 DEF SinceReached, Reached, PassTyped, PassRow
<1> QED
  BY <1>3, <1>4, <1>5 DEF Ahead

LEMMA WalkStep ==
  ASSUME PassInv, NEW r \in Runs, coord[r].pc = "walk", UNCHANGED <<now, remote, indexed, docVars, run, job, asked>>,
         NEW w \in Walk, coord' = [coord EXCEPT ![r] = w], w.pc = "walk",
         row' \in [Tickets -> [updated : Nat, synced : Nat]],
         \A t \in Tickets : row'[t].updated <= remote[t],
         \A e \in w.page : e.updated <= remote[e.ticket],
         NoneStaler,
         ~w.capped => \A t \in Tickets : Stale(t)' =>
             \/ remote[t] + Buffer >= run[r].window \/ remote[t] < w.pos
             \/ \E e \in w.page : e.ticket = t /\ e.updated = remote[t]
  PROVE  PassInv'
<1>0. PassTyped /\ AbsentIdle(r)
  BY DEF PassInv
<1>1. coord' \in [Runs -> Walk] /\ coord'[r] = w /\ \A o \in Runs \ {r} : coord'[o] = coord[o]
  BY <1>0 DEF PassTyped
<1>2. PassTyped'
  BY <1>0, <1>1 DEF PassTyped, docVars
<1>3. WalkedFresh(r)'
  BY <1>1 DEF WalkedFresh
<1>4. KeepsDone(r) /\ AbsentIdle(r)'
  BY <1>0, <1>1 DEF KeepsDone, Done, Completed, AbsentIdle
<1> QED
  BY <1>1, <1>2, <1>3, <1>4, OneRun

LEMMA FetchPageStep ==
  ASSUME PassInv, NEW r \in Runs, FetchPage(r)
  PROVE  PassInv'
<1>0. PassTyped /\ InTime /\ WalkedFresh(r) /\ coord[r] \in Walk
  BY DEF PassInv, PassTyped
<1>1. /\ UNCHANGED <<now, remote, indexed, row, docVars, run, job, asked, excused>>
      /\ coord[r].pc = "walk" /\ coord[r].page = {} /\ ~coord[r].capped
  BY DEF FetchPage
<1>2. PICK P \in SUBSET Ahead(r), last \in Ahead(r) :
         /\ last \in P /\ \A t \in P, u \in Ahead(r) \ P : indexed[u] < indexed[t]
         /\ coord' = [coord EXCEPT ![r].pos = indexed[last],
                         ![r].page = {[ticket |-> t, updated |-> indexed[t]] : t \in {u \in P : ~SyncedInPass(r, u)}}]
  <2>1. PICK P \in SUBSET Ahead(r) :
           /\ \A t \in P, u \in Ahead(r) \ P : indexed[u] < indexed[t]
           /\ \E last \in P : coord' = [coord EXCEPT ![r].pos = indexed[last],
                         ![r].page = {[ticket |-> t, updated |-> indexed[t]] : t \in {u \in P : ~SyncedInPass(r, u)}}]
    BY Zenon DEF FetchPage
  <2> QED
    BY <2>1, Zenon
<1>3. PICK page : page = {[ticket |-> t, updated |-> indexed[t]] : t \in {u \in P : ~SyncedInPass(r, u)}}
  OBVIOUS
<1>4. P \subseteq Tickets /\ \A t \in Tickets : indexed[t] \in Nat
  BY <1>0 DEF Ahead, PassTyped
<1>5. page \subseteq Found /\ \A e \in page : e.updated = indexed[e.ticket] /\ e.ticket \in Tickets
  BY <1>3, <1>4 DEF Found
<1>6. ASSUME NEW t \in P, ~SyncedInPass(r, t) PROVE \E e \in page : e.ticket = t /\ e.updated = indexed[t]
  <2>1. [ticket |-> t, updated |-> indexed[t]] \in page
    BY <1>3, <1>6
  <2> QED
    BY <2>1
<1>7. PICK w : w = [coord[r] EXCEPT !.pos = indexed[last], !.page = page]
  OBVIOUS
<1>8. coord' = [coord EXCEPT ![r] = w]
  BY <1>0, <1>2, <1>3, <1>7 DEF PassTyped
<1>9. w \in Walk /\ w.pc = "walk" /\ w.pos = indexed[last] /\ w.page = page
  BY <1>0, <1>1, <1>2, <1>4, <1>5, <1>7 DEF Walk
<1>10. /\ \A t \in Tickets : row'[t].updated <= remote[t]
       /\ \A e \in w.page : e.updated <= remote[e.ticket]
       /\ row' \in [Tickets -> [updated : Nat, synced : Nat]]
  BY <1>0, <1>1, <1>5, <1>9 DEF InTime, PassTyped
<1>11. NoneStaler
  BY <1>1 DEF NoneStaler, Stale
<1>12. ASSUME NEW t \in Tickets, Stale(t)'
       PROVE  \/ remote[t] + Buffer >= run[r].window \/ remote[t] < w.pos
              \/ \E e \in w.page : e.ticket = t /\ e.updated = remote[t]
  <2>1. Stale(t)
    BY <1>1, <1>12 DEF Stale
  <2>2. CASE remote[t] + Buffer >= run[r].window
    BY <2>2
  <2>3. CASE indexed[t] = remote[t] /\ t \in P
    <3>1. ~SyncedInPass(r, t)
      BY <2>1, <2>3 DEF SyncedInPass, Stale
    <3> QED
      BY <1>6, <1>9, <2>3, <3>1
  <2>4. CASE indexed[t] = remote[t] /\ t \in Ahead(r) \ P
    BY <1>2, <1>9, <2>4
  <2> QED
    BY <1>1, <2>1, <2>2, <2>3, <2>4, StillAhead
<1> QED
  BY <1>1, <1>8, <1>9, <1>10, <1>11, <1>12, WalkStep

LEMMA HitCapStep ==
  ASSUME PassInv, NEW r \in Runs, HitCap(r)
  PROVE  PassInv'
<1>0. PassTyped /\ InTime /\ coord[r] \in Walk
  BY DEF PassInv, PassTyped
<1>1. /\ UNCHANGED <<now, remote, indexed, row, docVars, run, job, asked, excused>> /\ coord[r].pc = "walk"
      /\ coord' = [coord EXCEPT ![r].page = {}, ![r].capped = TRUE]
  BY DEF HitCap
<1>2. PICK b \in BOOLEAN : b = TRUE
  OBVIOUS
<1>3. PICK w : w = [coord[r] EXCEPT !.page = {}, !.capped = b]
  OBVIOUS
<1>4. coord' = [coord EXCEPT ![r] = w]
  <2>1. coord' = [coord EXCEPT ![r].page = {}, ![r].capped = b]
    BY <1>1, <1>2, Zenon
  <2> QED
    BY <1>0, <1>3, <2>1 DEF PassTyped
<1>5. w \in Walk /\ w.pc = "walk" /\ w.page = {} /\ w.capped = b
  BY <1>0, <1>1, <1>3 DEF Walk
<1>6. w.capped
  BY <1>2, <1>5, Zenon
<1>7. NoneStaler
  BY <1>1 DEF NoneStaler, Stale
<1>8. /\ \A t \in Tickets : row'[t].updated <= remote[t]
      /\ row' \in [Tickets -> [updated : Nat, synced : Nat]]
  BY <1>0, <1>1 DEF InTime, PassTyped
<1> QED
  BY <1>1, <1>4, <1>5, <1>6, <1>7, <1>8, WalkStep

(* A page that is older than the row it is written over excuses the ticket.  *)
LEMMA UpsertStep ==
  ASSUME PassInv, NEW r \in Runs, Upsert(r)
  PROVE  PassInv'
<1>0. PassTyped /\ InTime /\ WalkedFresh(r) /\ coord[r] \in Walk
  BY DEF PassInv, PassTyped
<1>1. UNCHANGED <<now, remote, indexed, docVars, run, job, asked>> /\ coord[r].pc = "walk"
  BY DEF Upsert
<1>2. PICK e \in coord[r].page :
         /\ row' = [row EXCEPT ![e.ticket] = [updated |-> e.updated, synced |-> now]]
         /\ coord' = [coord EXCEPT ![r].page = coord[r].page \ {e}, ![r].queued = coord[r].queued \cup {e.ticket}]
         /\ IF e.updated < row[e.ticket].updated THEN GiveUp(e.ticket, row[e.ticket].updated) ELSE excused' = excused
  BY DEF Upsert
<1>3. /\ e \in Found /\ e.ticket \in Tickets /\ e.updated \in Nat /\ e.updated <= remote[e.ticket]
      /\ row[e.ticket].updated \in Nat /\ remote[e.ticket] \in Nat /\ row[e.ticket].updated <= remote[e.ticket]
  BY <1>0 DEF InTime, PassTyped, Walk, Found
<1>4. /\ row' \in [Tickets -> [updated : Nat, synced : Nat]] /\ row'[e.ticket].updated = e.updated
      /\ \A t \in Tickets \ {e.ticket} : row'[t] = row[t]
  BY <1>0, <1>2, <1>3 DEF PassTyped
<1>5. \A t \in Tickets : row'[t].updated <= remote[t]
  BY <1>0, <1>3, <1>4 DEF InTime
<1>6. PICK w : w = [coord[r] EXCEPT !.page = coord[r].page \ {e}, !.queued = coord[r].queued \cup {e.ticket}]
  OBVIOUS
<1>7. coord' = [coord EXCEPT ![r] = w]
  BY <1>0, <1>2, <1>6 DEF PassTyped
<1>8. /\ w \in Walk /\ w.pc = "walk" /\ w.pos = coord[r].pos /\ w.page = coord[r].page \ {e}
      /\ w.capped = coord[r].capped
  BY <1>0, <1>1, <1>3, <1>6 DEF Walk
<1>9. \A f \in w.page : f.updated <= remote[f.ticket]
  BY <1>0, <1>8 DEF InTime
<1>10. excused \subseteq excused' /\ (e.updated < row[e.ticket].updated /\ row[e.ticket].updated = remote[e.ticket]
                                     => e.ticket \in excused')
  BY <1>2 DEF GiveUp
<1>11. ASSUME NEW t \in Tickets, Stale(t)' PROVE Stale(t) /\ (t = e.ticket => e.updated # remote[t])
  <2>1. t \notin excused /\ row'[t].updated # remote[t]
    BY <1>1, <1>10, <1>11 DEF Stale
  <2>2. CASE t = e.ticket
    <3>1. e.updated # remote[t] /\ e.updated < remote[t]
      BY <1>3, <1>4, <2>1, <2>2
    <3>2. row[t].updated # remote[t]
      BY <1>10, <1>11, <2>2, <3>1 DEF Stale
    <3> QED
      BY <2>1, <3>1, <3>2 DEF Stale
  <2>3. CASE t # e.ticket
    BY <1>4, <2>1, <2>3 DEF Stale
  <2> QED
    BY <2>2, <2>3
<1>12. NoneStaler
  BY <1>1, <1>11 DEF NoneStaler
<1>13. ASSUME ~w.capped, NEW t \in Tickets, Stale(t)'
       PROVE  \/ remote[t] + Buffer >= run[r].window \/ remote[t] < w.pos
              \/ \E f \in w.page : f.ticket = t /\ f.updated = remote[t]
  <2>1. \/ remote[t] + Buffer >= run[r].window \/ remote[t] < w.pos
        \/ \E f \in coord[r].page : f.ticket = t /\ f.updated = remote[t]
    BY <1>0, <1>1, <1>8, <1>11, <1>13 DEF WalkedFresh
  <2> QED
    BY <1>8, <1>11, <1>13, <2>1
<1> QED
  BY <1>1, <1>4, <1>5, <1>7, <1>8, <1>9, <1>12, <1>13, WalkStep

LEMMA SkipTicketStep ==
  ASSUME PassInv, NEW r \in Runs, SkipTicket(r)
  PROVE  PassInv'
<1>0. PassTyped /\ InTime /\ WalkedFresh(r) /\ coord[r] \in Walk
  BY DEF PassInv, PassTyped
<1>1. UNCHANGED <<now, remote, indexed, row, docVars, run, job, asked>> /\ coord[r].pc = "walk"
  BY DEF SkipTicket
<1>2. PICK e \in coord[r].page :
         /\ GiveUp(e.ticket, e.updated)
         /\ coord' = [coord EXCEPT ![r].page = coord[r].page \ {e}, ![r].skipped = coord[r].skipped + 1]
  BY DEF SkipTicket
<1>n. PICK n \in Nat : n = coord[r].skipped + 1
  BY <1>0 DEF Walk
<1>3. PICK w : w = [coord[r] EXCEPT !.page = coord[r].page \ {e}, !.skipped = n]
  OBVIOUS
<1>4. coord' = [coord EXCEPT ![r] = w]
  BY <1>0, <1>2, <1>n, <1>3 DEF PassTyped
<1>5. /\ w \in Walk /\ w.pc = "walk" /\ w.pos = coord[r].pos /\ w.page = coord[r].page \ {e}
      /\ w.capped = coord[r].capped
  BY <1>0, <1>1, <1>3 DEF Walk
<1>6. /\ \A t \in Tickets : row'[t].updated <= remote[t]
      /\ \A f \in w.page : f.updated <= remote[f.ticket]
      /\ row' \in [Tickets -> [updated : Nat, synced : Nat]]
  BY <1>0, <1>1, <1>5 DEF InTime, PassTyped
<1>7. excused \subseteq excused' /\ (e.updated = remote[e.ticket] => e.ticket \in excused')
  BY <1>2 DEF GiveUp
<1>8. ASSUME NEW t \in Tickets, Stale(t)' PROVE Stale(t) /\ (t = e.ticket => e.updated # remote[t])
  <2>1. t \notin excused' /\ row[t].updated # remote[t]
    BY <1>1, <1>8 DEF Stale
  <2> QED
    BY <1>7, <2>1 DEF Stale
<1>9. NoneStaler
  BY <1>1, <1>8 DEF NoneStaler
<1>10. ASSUME ~w.capped, NEW t \in Tickets, Stale(t)'
       PROVE  \/ remote[t] + Buffer >= run[r].window \/ remote[t] < w.pos
              \/ \E f \in w.page : f.ticket = t /\ f.updated = remote[t]
  <2>1. \/ remote[t] + Buffer >= run[r].window \/ remote[t] < w.pos
        \/ \E f \in coord[r].page : f.ticket = t /\ f.updated = remote[t]
    BY <1>0, <1>1, <1>5, <1>8, <1>10 DEF WalkedFresh
  <2> QED
    BY <1>5, <1>8, <1>10, <2>1
<1> QED
  BY <1>1, <1>4, <1>5, <1>6, <1>9, <1>10, WalkStep

(* The flag of the cap is written before any job is made, so that a run not  *)
(* flagged has walked over all there was.                                    *)
LEMMA MarkTruncatedStep ==
  ASSUME PassInv, NEW r \in Runs, MarkTruncated(r)
  PROVE  PassInv'
<1>0. PassTyped /\ InTime /\ AbsentIdle(r)
  BY DEF PassInv
<1>1. /\ UNCHANGED <<now, remote, indexed, row, docVars, job, asked, excused>>
      /\ coord[r].pc = "walk" /\ coord[r].page = {} /\ (coord[r].capped \/ Ahead(r) = {})
      /\ run[r].status # "absent" /\ coord' = [coord EXCEPT ![r].pc = "ready"]
  BY <1>0 DEF MarkTruncated, AbsentIdle
<1>2. PICK b \in BOOLEAN : b = (run[r].truncated \/ coord[r].capped)
  OBVIOUS
<1>3. run[r] \in PassRow /\ coord[r] \in Walk
  BY <1>0 DEF PassTyped
<1>4. PICK q : q = [run[r] EXCEPT !.truncated = b]
  OBVIOUS
<1>5. run' = [run EXCEPT ![r] = q]
  <2>1. run' = [run EXCEPT ![r].truncated = b]
    <3>1. run' = [run EXCEPT ![r].truncated = (run[r].truncated \/ coord[r].capped)]
      BY <1>0 DEF MarkTruncated, PassTyped
    <3> QED
      BY <1>2, <3>1, Zenon
  <2> QED
    BY <1>0, <1>4, <2>1 DEF PassTyped
<1>6. /\ q \in PassRow /\ q.status = run[r].status /\ q.window = run[r].window /\ q.since = run[r].since
      /\ q.truncated = b
  BY <1>3, <1>4 DEF PassRow
<1>7. run' \in [Runs -> PassRow] /\ run'[r] = q /\ \A o \in Runs \ {r} : run'[o] = run[o]
  BY <1>0, <1>5, <1>6 DEF PassTyped
<1>8. PICK w : w = [coord[r] EXCEPT !.pc = "ready"]
  OBVIOUS
<1>9. w \in Walk /\ w.pc = "ready" /\ w.page = {}
  BY <1>1, <1>3, <1>8, WalkWritten DEF WalkPc
<1>10. coord' \in [Runs -> Walk] /\ coord'[r] = w /\ \A o \in Runs \ {r} : coord'[o] = coord[o]
  BY <1>0, <1>1, <1>8, <1>9 DEF PassTyped
<1>11. PassTyped'
  BY <1>0, <1>1, <1>7, <1>10 DEF PassTyped, docVars
<1>12. ASSUME ~coord[r].capped PROVE Covered(r)
  BY <1>1, <1>12, StillAhead DEF Covered
<1>13. KeepsDone(r)
  <2>1. ASSUME Done(r)' PROVE Covered(r)
    <3>1. ~run'[r].truncated
      BY <2>1 DEF Done
    <3>2. ~b
      BY <1>6, <1>7, <3>1, Zenon
    <3> QED
      BY <1>2, <1>12, <3>2, Zenon
  <2> QED
    BY <1>6, <1>7, <2>1 DEF KeepsDone
<1>14. NoneStaler /\ WalkedFresh(r)' /\ AbsentIdle(r)'
  BY <1>1, <1>6, <1>7, <1>9, <1>10 DEF NoneStaler, Stale, WalkedFresh, AbsentIdle
<1>15. \A t \in Tickets : row'[t].updated <= remote[t]
  BY <1>0, <1>1 DEF InTime
<1> QED
  BY <1>1, <1>6, <1>7, <1>9, <1>10, <1>11, <1>13, <1>14, <1>15, OneRun

LEMMA EndWalkStep ==
  ASSUME PassInv, NEW r \in Runs, EndWalk(r)
  PROVE  PassInv'
<1>0. PassTyped /\ InTime /\ AbsentIdle(r)
  BY DEF PassInv
<1>1. /\ UNCHANGED <<now, remote, indexed, row, docVars, asked, excused>>
      /\ coord[r].pc = "ready" /\ run[r].status # "absent"
  BY <1>0 DEF EndWalk, AbsentIdle
<1>3. run[r] \in PassRow /\ run[r].status \in {"absent", "active", "succeeded", "failed"}
  BY <1>0 DEF PassTyped, PassRow
<1>4. PICK st : st = IF coord[r].queued = {} /\ Active(r) THEN "succeeded" ELSE run[r].status
  OBVIOUS
<1>5. st \in {"absent", "active", "succeeded", "failed"} /\ st # "absent"
  BY <1>1, <1>3, <1>4
<1>6. PICK q : q = [run[r] EXCEPT !.status = st]
  OBVIOUS
<1>7. run' = [run EXCEPT ![r] = q]
  BY <1>0, <1>4, <1>6 DEF EndWalk, PassTyped
<1>8. /\ q \in PassRow /\ q.status = st /\ q.window = run[r].window /\ q.since = run[r].since
      /\ q.truncated = run[r].truncated
  BY <1>3, <1>5, <1>6, StatusWritten
<1>9. run' \in [Runs -> PassRow] /\ run'[r] = q /\ \A o \in Runs \ {r} : run'[o] = run[o]
  BY <1>0, <1>7, <1>8 DEF PassTyped
<1>10. PICK pc \in {"end", "notes"} : coord' = [coord EXCEPT ![r] = [NewWalk EXCEPT !.pc = pc]]
  BY DEF EndWalk
<1>11. PICK w : w = [NewWalk EXCEPT !.pc = pc]
  OBVIOUS
<1>12. w \in Walk /\ w.pc \in {"end", "notes"} /\ w.page = {}
  BY <1>11, WalkReset DEF WalkPc
<1>13. coord' \in [Runs -> Walk] /\ coord'[r] = w /\ \A o \in Runs \ {r} : coord'[o] = coord[o]
  BY <1>0, <1>10, <1>11, <1>12 DEF PassTyped
<1>14. /\ job' \in [Runs -> [Tickets -> JobState]]
       /\ \A o \in Runs \ {r} : job'[o] = job[o]
  BY <1>0 DEF PassTyped, EndWalk, JobState
<1>15. PassTyped'
  BY <1>0, <1>1, <1>9, <1>13, <1>14 DEF PassTyped, docVars
<1>17. KeepsDone(r)
  BY <1>1, <1>8, <1>9 DEF KeepsDone, Done
<1>18. NoneStaler /\ WalkedFresh(r)' /\ AbsentIdle(r)'
  BY <1>1, <1>5, <1>8, <1>9, <1>12, <1>13 DEF NoneStaler, Stale, WalkedFresh, AbsentIdle
<1>19. \A t \in Tickets : row'[t].updated <= remote[t]
  BY <1>0, <1>1 DEF InTime
<1> QED
  BY <1>1, <1>8, <1>9, <1>12, <1>13, <1>14, <1>15, <1>17, <1>18, <1>19, OneRun

(* The ticket jobs.  A run they complete has walked to its end before.       *)
LEMMA JobSteps ==
  ASSUME PassInv, NEW r \in Runs, NEW t \in Tickets, WriteDocument(r, t) \/ TicketFails(r, t)
  PROVE  PassInv'
<1>0. PassTyped /\ InTime /\ AbsentIdle(r)
  BY DEF PassInv
<1>1. /\ UNCHANGED <<now, remote, indexed, row, coord, asked>> /\ excused \subseteq excused'
      /\ job[r][t] # "none" /\ job' = [job EXCEPT ![r][t] = "settled"]
      /\ run[r].status # "absent"
  BY <1>0 DEF WriteDocument, UpsertDocument, TicketFails, Settle, GiveUp, AbsentIdle
<1>2. doc' \in [Tickets -> Nat] /\ held' \in [Runs -> [Tickets -> Nat]]
  <2>1. doc' = doc \/ doc' = [doc EXCEPT ![t] = held[r][t]]
    BY DEF WriteDocument, UpsertDocument, TicketFails
  <2>2. held' = [held EXCEPT ![r][t] = 0] /\ held[r][t] \in Nat
    BY <1>0 DEF WriteDocument, UpsertDocument, TicketFails, Settle, PassTyped
  <2> QED
    BY <1>0, <2>1, <2>2 DEF PassTyped
<1>3. PICK st : /\ st = "succeeded" \/ st = run[r].status
                /\ run' = [run EXCEPT ![r].status = st]
  BY DEF WriteDocument, UpsertDocument, TicketFails, Settle
<1>4. run[r] \in PassRow /\ run[r].status \in {"absent", "active", "succeeded", "failed"}
  BY <1>0 DEF PassTyped, PassRow
<1>5. PICK q : q = [run[r] EXCEPT !.status = st]
  OBVIOUS
<1>6. run' = [run EXCEPT ![r] = q]
  BY <1>0, <1>3, <1>5 DEF PassTyped
<1>7. /\ q \in PassRow /\ q.status = st /\ q.window = run[r].window /\ q.since = run[r].since
      /\ q.truncated = run[r].truncated
  BY <1>3, <1>4, <1>5, StatusWritten
<1>8. run' \in [Runs -> PassRow] /\ run'[r] = q /\ \A o \in Runs \ {r} : run'[o] = run[o]
  BY <1>0, <1>6, <1>7 DEF PassTyped
<1>9. /\ job' \in [Runs -> [Tickets -> JobState]]
      /\ \A o \in Runs \ {r} : job'[o] = job[o]
  BY <1>0, <1>1 DEF PassTyped, JobState
<1>10. PassTyped'
  BY <1>0, <1>1, <1>2, <1>8, <1>9 DEF PassTyped
<1>11. KeepsDone(r)
  BY <1>1, <1>7, <1>8 DEF KeepsDone, Done
<1>12. NoneStaler
  BY <1>1 DEF NoneStaler, Stale
<1>13. KeepsWalk(r) /\ AbsentIdle(r)'
  BY <1>1, <1>3, <1>7, <1>8 DEF KeepsWalk, AbsentIdle
<1>14. /\ \A u \in Tickets : row'[u].updated <= remote[u]
       /\ \A e \in coord'[r].page : e.updated <= remote[e.ticket]
  BY <1>0, <1>1 DEF InTime
<1> QED
  BY <1>1, <1>7, <1>8, <1>9, <1>10, <1>11, <1>12, <1>13, <1>14, OneRun

(* A ticket job that reads its row, or is to read it again                   *)
LEMMA ReadSteps ==
  ASSUME PassInv, NEW r \in Runs, NEW t \in Tickets, ReadRow(r, t) \/ Retry(r, t)
  PROVE  PassInv'
<1>0. PassTyped /\ InTime /\ AbsentIdle(r)
  BY DEF PassInv
<1>1. /\ UNCHANGED <<now, remote, indexed, row, run, coord, asked, excused>> /\ job[r][t] # "none"
      /\ doc' = doc \/ doc' = [doc EXCEPT ![t] = held[r][t]]
      /\ run[r].status # "absent"
  BY <1>0 DEF ReadRow, Retry, UpsertDocument, AbsentIdle
<1>2. PICK st \in {"waiting", "building"}, n \in Nat :
        job' = [job EXCEPT ![r][t] = st] /\ held' = [held EXCEPT ![r][t] = n]
  <2>1. row[t].updated \in Nat
    BY <1>0 DEF PassTyped
  <2> QED
    BY <2>1 DEF ReadRow, Retry
<1>3. /\ job' \in [Runs -> [Tickets -> JobState]] /\ held' \in [Runs -> [Tickets -> Nat]]
      /\ \A o \in Runs \ {r} : job'[o] = job[o]
  BY <1>0, <1>2 DEF PassTyped, JobState
<1>4. PassTyped'
  <2>1. doc' \in [Tickets -> Nat]
    BY <1>0, <1>1 DEF PassTyped
  <2> QED
    BY <1>0, <1>1, <1>3, <2>1 DEF PassTyped
<1>5. NoneStaler /\ KeepsWalk(r) /\ KeepsDone(r) /\ AbsentIdle(r)'
  BY <1>1 DEF NoneStaler, Stale, KeepsWalk, KeepsDone, Done, Completed, AbsentIdle
<1>6. /\ \A u \in Tickets : row'[u].updated <= remote[u]
      /\ \A e \in coord'[r].page : e.updated <= remote[e.ticket]
  BY <1>0, <1>1 DEF InTime
<1> QED
  BY <1>1, <1>3, <1>4, <1>5, <1>6, OneRun

(* The steps that touch no more than the provider                            *)
LEMMA ProviderSteps ==
  ASSUME PassTyped, InTime, NEW t \in Tickets, Edit(t) \/ Index(t)
  PROVE  PassTyped' /\ InTime' /\ NoneStaler /\ UNCHANGED <<run, coord, job, asked>>
<1>1. CASE Edit(t)
  <2>1. /\ now' = now + 1 /\ remote' = [remote EXCEPT ![t] = now + 1] /\ excused' = excused \ {t}
        /\ UNCHANGED <<indexed, row, doc, held, run, coord, job, asked>>
        /\ \A u \in Tickets : indexed[u] # remote[u] => now < remote[u] + Lag
    BY <1>1 DEF Edit, Advance, IndexInTime
  <2>2. remote'[t] = now + 1 /\ \A u \in Tickets \ {t} : remote'[u] = remote[u]
    BY <2>1 DEF PassTyped
  <2>3. PassTyped'
    BY <2>1 DEF PassTyped
  <2>4. NoneStaler
    BY <2>1, <2>2 DEF NoneStaler, Stale, PassTyped
  <2>5. ASSUME NEW u \in Tickets
        PROVE  /\ remote'[u] <= now + 1 /\ row[u].updated <= remote'[u] /\ indexed[u] <= remote'[u]
               /\ remote[u] <= remote'[u] /\ (indexed[u] # remote'[u] => now + 1 <= remote'[u] + Lag)
    <3>1. row[u].updated \in Nat /\ remote[u] \in Nat /\ indexed[u] \in Nat /\ now \in Nat /\ Lag \in Nat
      BY SyncPassAssumption DEF PassTyped
    <3>2. remote[u] <= now /\ row[u].updated <= remote[u] /\ indexed[u] <= remote[u]
      BY DEF InTime
    <3>3. CASE u = t
      BY <2>2, <3>1, <3>2, <3>3
    <3>4. CASE u # t
      BY <2>1, <2>2, <3>1, <3>2, <3>4
    <3> QED
      BY <3>3, <3>4
  <2>6. ASSUME NEW r \in Runs, NEW e \in coord[r].page PROVE e.updated <= remote'[e.ticket]
    <3>1. e \in Found /\ e.updated <= remote[e.ticket]
      BY DEF PassTyped, Walk, InTime
    <3>2. e.ticket \in Tickets /\ e.updated \in Nat /\ remote[e.ticket] \in Nat /\ remote'[e.ticket] \in Nat
      BY <2>3, <3>1 DEF Found, PassTyped
    <3> QED
      BY <2>5, <3>1, <3>2
  <2>7. /\ \A r \in Runs : run[r].window <= now + 1 /\ run[r].since <= now + 1
        /\ \A s \in Starters : asked[s].window <= now + 1 /\ asked[s].since <= now + 1
    BY DEF PassTyped, PassRow, InTime
  <2>8. InTime'
    BY <2>1, <2>5, <2>6, <2>7 DEF InTime
  <2> QED
    BY <2>1, <2>3, <2>4, <2>8
<1>2. CASE Index(t)
  <2>1. /\ indexed' = [indexed EXCEPT ![t] = remote[t]]
        /\ UNCHANGED <<now, remote, row, docVars, run, coord, job, asked, excused>>
    BY <1>2 DEF Index
  <2>2. PassTyped'
    BY <2>1 DEF PassTyped, docVars
  <2>3. NoneStaler
    BY <2>1 DEF NoneStaler, Stale
  <2>4. InTime'
    BY <2>1 DEF InTime, PassTyped
  <2> QED
    BY <2>1, <2>2, <2>3, <2>4
<1> QED
  BY <1>1, <1>2

(* The reads of startRun, and its INSERT                                     *)
LEMMA ReadPriorStep ==
  ASSUME PassInv, NEW s \in Starters, NEW since \in {0, NightlySince}, ReadPrior(s, since)
  PROVE  /\ PassTyped' /\ InTime' /\ NoneStaler /\ UNCHANGED <<now, run, coord, job>>
         /\ \A x \in Starters : Reached(asked'[x].since)
<1>0. PassTyped /\ InTime /\ SinceReached
  BY DEF PassInv
<1>1. UNCHANGED <<now, remote, indexed, row, docVars, run, coord, job, deaths, excused, cutoff>>
  BY DEF ReadPrior
<1>2. since \in Nat /\ since <= now /\ Reached(since)
  BY <1>0, NightlyReached DEF Reached, PassTyped
<1>3. PICK w, x : /\ w \in Nat /\ w <= now /\ x \in Nat /\ x <= now /\ Reached(x)
                  /\ asked' = [asked EXCEPT ![s] = [pc |-> "insert", window |-> w, since |-> x]]
  <2>1. CASE \E r \in Runs : asked' = [asked EXCEPT ![s] = [pc |-> "insert", window |-> run[r].window, since |-> run[r].since]]
    <3>1. PICK r \in Runs : asked' = [asked EXCEPT ![s] = [pc |-> "insert", window |-> run[r].window, since |-> run[r].since]]
      BY <2>1
    <3>2. run[r].window \in Nat /\ run[r].window <= now /\ run[r].since \in Nat /\ run[r].since <= now /\ Reached(run[r].since)
      BY <1>0 DEF PassTyped, PassRow, InTime, SinceReached
    <3> QED
      BY <3>1, <3>2
  <2>2. CASE asked' = [asked EXCEPT ![s] = [pc |-> "insert", window |-> 0, since |-> since]]
    <3>1. 0 \in Nat /\ 0 <= now
      BY <1>0 DEF PassTyped
    <3> QED
      BY <1>2, <2>2, <3>1, Zenon
  <2> QED
    BY <2>1, <2>2 DEF ReadPrior
<1>4. PassTyped'
  BY <1>0, <1>1, <1>3 DEF PassTyped, docVars
<1>5. /\ asked'[s].window = w /\ asked'[s].since = x
      /\ \A o \in Starters \ {s} : asked'[o] = asked[o]
  BY <1>0, <1>3 DEF PassTyped
<1>6. InTime'
  BY <1>0, <1>1, <1>3, <1>5 DEF InTime
<1>7. \A o \in Starters : Reached(asked'[o].since)
  BY <1>0, <1>3, <1>5 DEF SinceReached
<1>8. NoneStaler
  BY <1>1 DEF NoneStaler, Stale
<1> QED
  BY <1>1, <1>4, <1>6, <1>7, <1>8

(* The steps of the provider and of the requests                             *)
LEMMA RunsStay ==
  ASSUME PassInv, PassTyped', InTime', NoneStaler, UNCHANGED <<run, coord, job>>,
         \A s \in Starters : asked'[s].since <= now /\ Reached(asked'[s].since)
  PROVE  PassInv'
<1>1. KeepsReach
  BY DEF PassInv, KeepsReach, InTime, SinceReached
<1>2. \A r \in Runs : KeepsWalk(r) /\ KeepsDone(r) /\ AbsentIdle(r)'
  BY DEF PassInv, KeepsWalk, KeepsDone, Done, Completed, AbsentIdle
<1> QED
  BY <1>1, <1>2, StepKeeps

LEMMA RequestSteps ==
  ASSUME PassInv, NEW s \in Starters,
         AlreadyRunning(s) \/ \E since \in {0, NightlySince} : ReadPrior(s, since)
  PROVE  PassInv'
<1>0. PassTyped /\ InTime /\ SinceReached
  BY DEF PassInv
<1>1. CASE AlreadyRunning(s)
  <2>1. /\ UNCHANGED <<now, remote, indexed, row, docVars, run, coord, job, excused>>
        /\ asked' = [asked EXCEPT ![s] = Nothing]
    BY <1>1 DEF AlreadyRunning
  <2>2. /\ asked' \in [Starters -> [pc : {"idle", "insert"}, window : Nat, since : Nat]]
        /\ asked'[s].window = 0 /\ asked'[s].since = 0
        /\ \A o \in Starters \ {s} : asked'[o] = asked[o]
    BY <1>0, <2>1 DEF PassTyped, Nothing
  <2>3. 0 <= now /\ Reached(0)
    BY <1>0 DEF PassTyped, Reached
  <2>4. PassTyped' /\ InTime'
    BY <1>0, <2>1, <2>2, <2>3 DEF PassTyped, InTime, docVars
  <2>5. NoneStaler
    BY <2>1 DEF NoneStaler, Stale
  <2>6. \A o \in Starters : asked'[o].since <= now /\ Reached(asked'[o].since)
    BY <1>0, <2>2, <2>3 DEF InTime, SinceReached
  <2> QED
    BY <2>1, <2>4, <2>5, <2>6, RunsStay
<1>2. ASSUME NEW since \in {0, NightlySince}, ReadPrior(s, since) PROVE PassInv'
  <2>1. /\ PassTyped' /\ InTime' /\ NoneStaler /\ UNCHANGED <<now, run, coord, job>>
        /\ \A x \in Starters : Reached(asked'[x].since)
    BY <1>2, ReadPriorStep
  <2>2. \A x \in Starters : asked'[x].since <= now
    BY <2>1 DEF InTime
  <2> QED
    BY <2>1, <2>2, RunsStay
<1> QED
  BY <1>1, <1>2

LEMMA EditSteps ==
  ASSUME PassInv, NEW t \in Tickets, Edit(t) \/ Index(t)
  PROVE  PassInv'
<1>1. PassTyped' /\ InTime' /\ NoneStaler /\ UNCHANGED <<run, coord, job, asked>>
  BY ProviderSteps DEF PassInv
<1>2. \A s \in Starters : asked'[s].since <= now /\ Reached(asked'[s].since)
  BY <1>1 DEF PassInv, InTime, SinceReached
<1> QED
  BY <1>1, <1>2, RunsStay

(* A resumed pass keeps its window and its since; a new one starts now.      *)
LEMMA InsertRunStep ==
  ASSUME PassInv, NEW s \in Starters, NEW r \in Runs, InsertRun(s, r)
  PROVE  PassInv'
<1>0. PassTyped /\ InTime /\ SinceReached /\ AbsentIdle(r)
  BY DEF PassInv
<1>1. /\ now' = now + 1 /\ UNCHANGED <<remote, indexed, row, docVars, job, excused>>
      /\ run[r].status = "absent" /\ coord' = [coord EXCEPT ![r].pc = "waiting"]
      /\ asked' = [asked EXCEPT ![s] = Nothing]
      /\ \A t \in Tickets : indexed[t] # remote[t] => now < remote[t] + Lag
  BY DEF InsertRun, Advance, IndexInTime
<1>2. asked[s].window \in Nat /\ asked[s].window <= now /\ asked[s].since \in Nat /\ asked[s].since <= now /\ now \in Nat
  BY <1>0 DEF PassTyped, InTime
<1>3. PICK w \in Nat : w <= now + 1 /\ w = IF asked[s].window = 0 THEN now + 1 ELSE asked[s].window
  BY <1>2
<1>4. PICK q : q = [status |-> "active", created |-> now + 1, window |-> w, since |-> asked[s].since, truncated |-> FALSE]
  OBVIOUS
<1>5. run' = [run EXCEPT ![r] = q]
  BY <1>1, <1>3, <1>4 DEF InsertRun
<1>6. q \in PassRow /\ q.status = "active" /\ q.window = w /\ q.since = asked[s].since
  BY <1>2, <1>3, <1>4 DEF PassRow
<1>7. run' \in [Runs -> PassRow] /\ run'[r] = q /\ \A o \in Runs \ {r} : run'[o] = run[o]
  BY <1>0, <1>5, <1>6 DEF PassTyped
<1>8. PICK v : v = [coord[r] EXCEPT !.pc = "waiting"]
  OBVIOUS
<1>9. coord' = [coord EXCEPT ![r] = v]
  BY <1>0, <1>1, <1>8 DEF PassTyped
<1>10. v \in Walk /\ v.pc = "waiting" /\ v.page = coord[r].page
  BY <1>0, <1>8, WalkWritten DEF PassTyped, WalkPc
<1>11. coord' \in [Runs -> Walk] /\ coord'[r] = v /\ \A o \in Runs \ {r} : coord'[o] = coord[o]
  BY <1>0, <1>9, <1>10 DEF PassTyped
<1>12. /\ asked' \in [Starters -> [pc : {"idle", "insert"}, window : Nat, since : Nat]]
       /\ asked'[s].window = 0 /\ asked'[s].since = 0
       /\ \A o \in Starters \ {s} : asked'[o] = asked[o]
  BY <1>0, <1>1 DEF PassTyped, Nothing
<1>13. PassTyped'
  BY <1>0, <1>1, <1>2, <1>7, <1>11, <1>12 DEF PassTyped, docVars
<1>14. InTime'
  <2>1. \A t \in Tickets :
          /\ remote[t] <= now + 1 /\ row[t].updated <= remote[t] /\ indexed[t] <= remote[t]
          /\ indexed[t] # remote[t] => now + 1 <= remote[t] + Lag
    BY <1>0, <1>1, SyncPassAssumption DEF InTime, PassTyped
  <2>2. \A o \in Runs : \A e \in coord'[o].page : e.updated <= remote[e.ticket]
    BY <1>0, <1>10, <1>11 DEF InTime
  <2>3. \A o \in Runs : run'[o].window <= now + 1 /\ run'[o].since <= now + 1
    <3>1. \A o \in Runs : run[o].window \in Nat /\ run[o].since \in Nat /\ run[o].window <= now /\ run[o].since <= now
      BY <1>0 DEF InTime, PassTyped, PassRow
    <3> QED
      BY <1>2, <1>3, <1>6, <1>7, <3>1
  <2>4. \A o \in Starters : asked'[o].window <= now + 1 /\ asked'[o].since <= now + 1
    BY <1>0, <1>2, <1>12 DEF InTime, PassTyped
  <2> QED
    BY <1>1, <2>1, <2>2, <2>3, <2>4 DEF InTime
<1>15. NoneStaler
  BY <1>1 DEF NoneStaler, Stale
<1>16. KeepsReach
  <2>1. 0 <= now /\ Reached(0)
    BY <1>0 DEF PassTyped, Reached
  <2>2. \A o \in Starters : asked'[o].since <= now /\ Reached(asked'[o].since)
    BY <1>0, <1>12, <2>1 DEF InTime, SinceReached
  <2>3. \A o \in Runs : run'[o].since <= now /\ Reached(run'[o].since)
    BY <1>0, <1>2, <1>6, <1>7 DEF InTime, SinceReached
  <2> QED
    BY <2>2, <2>3 DEF KeepsReach
<1>17. ASSUME NEW o \in Runs
       PROVE  (KeepsWalk(o) \/ WalkedFresh(o)') /\ (KeepsDone(o) \/ DoneCovered(o)') /\ AbsentIdle(o)'
  <2>1. CASE o = r
    <3>1. /\ run'[r].status = "active" /\ coord'[r].pc = "waiting"
          /\ \A t \in Tickets : job'[r][t] = "none"
      BY <1>0, <1>1, <1>6, <1>7, <1>10, <1>11 DEF AbsentIdle
    <3> QED
      BY <2>1, <3>1 DEF WalkedFresh, DoneCovered, Done, Completed, AbsentIdle
  <2>2. CASE o # r
    <3>1. run'[o] = run[o] /\ coord'[o] = coord[o] /\ job'[o] = job[o] /\ AbsentIdle(o)
      BY <1>1, <1>7, <1>11, <2>2 DEF PassInv
    <3> QED
      BY <3>1 DEF KeepsWalk, KeepsDone, Done, Completed, AbsentIdle
  <2> QED
    BY <2>1, <2>2
<1> QED
  BY <1>13, <1>14, <1>15, <1>16, <1>17, StepKeeps

LEMMA PassKept == PassInv /\ [Next]_vars => PassInv'
<1> SUFFICES ASSUME PassInv, [Next]_vars PROVE PassInv'
  OBVIOUS
<1>1. ASSUME NEW t \in Tickets, Edit(t) \/ Index(t) PROVE PassInv'
  BY <1>1, EditSteps
<1>2. ASSUME NEW s \in Starters,
             AlreadyRunning(s) \/ \E since \in {0, NightlySince} : ReadPrior(s, since)
      PROVE  PassInv'
  BY <1>2, RequestSteps
<1>3. ASSUME NEW s \in Starters, NEW r \in Runs, InsertRun(s, r) PROVE PassInv'
  BY <1>3, InsertRunStep
<1>4. ASSUME NEW r \in Runs,
             \/ BeginWalk(r) \/ FetchPage(r) \/ HitCap(r) \/ Upsert(r) \/ SkipTicket(r)
             \/ MarkTruncated(r) \/ EndWalk(r)
      PROVE  PassInv'
  BY <1>4, BeginWalkStep, FetchPageStep, HitCapStep, UpsertStep, SkipTicketStep, MarkTruncatedStep, EndWalkStep
<1>5. ASSUME NEW r \in Runs, BeginRefused(r) \/ WriteNotes(r) \/ WalkFails(r) \/ Redeliver(r) \/ FailRun(r)
      PROVE  PassInv'
  BY <1>5, CoordRestsSteps
<1>6. ASSUME NEW r \in Runs, NEW t \in Tickets,
             ReadRow(r, t) \/ WriteDocument(r, t) \/ Retry(r, t) \/ TicketFails(r, t)
      PROVE  PassInv'
  BY <1>6, JobSteps, ReadSteps
<1>7. CASE UNCHANGED vars
  BY <1>7 DEF vars, PassInv, PassTyped, InTime, SinceReached, Reached, Stale, WalkedFresh, DoneCovered,
              Done, Covered, Completed, AbsentIdle
<1> QED
  BY <1>1, <1>2, <1>3, <1>4, <1>5, <1>6, <1>7 DEF Next

(* The cursor getLastSuccessfulRunStart gives the nightly sync never steps   *)
(* over an edit whose row is out of date, however many tickets, runs and     *)
(* requests there are and whatever Cap, PageSize, Lag and Buffer >= Lag are: *)
(* syncedInPass skips only what the pass has stored, and a run counts as     *)
(* completed and not truncated only after a walk that met neither the cap    *)
(* nor a page it has not stored.                                             *)
THEOREM RowsWithinReachHolds == Spec => []RowsWithinReach
<1>1. Spec => []PassInv
  BY PassInit, PassKept, PTL DEF Spec
<1> QED
  BY <1>1, ReachKept, PTL

-----------------------------------------------------------------------------
(* SyncPass: the documents                                                   *)

(* A stored ticket whose document is out of date is to be written.           *)
DocToCome(t) ==
    row[t].updated = remote[t] /\ doc[t] # remote[t] =>
        t \in excused \/ t \in cutoff \/ t \in outdated \/ Pending(t)

(* Only a walk has tickets without jobs.                                     *)
QueueWalks(r) == coord[r].pc \notin {"walk", "ready"} => coord[r].queued = {}

DocsInv == (\A t \in Tickets : DocToCome(t)) /\ \A r \in Runs : QueueWalks(r)

LEMMA DocsInit == Init => DocsInv
  BY PassInit DEF Init, DocsInv, DocToCome, QueueWalks, NewWalk, PassInv, PassTyped

(* A step that changes no row, document or provider, and gives up nothing    *)
(* but what it forgets                                                       *)
LEMMA DocsFrame ==
  ASSUME DocsInv, UNCHANGED <<remote, row, doc, outdated>>, excused \subseteq excused', cutoff \subseteq cutoff',
         \A t \in Tickets : Pending(t) /\ row[t].updated = remote[t] => Pending(t)' \/ t \in excused' \/ t \in cutoff'
  PROVE  \A t \in Tickets : DocToCome(t)'
  BY DEF DocsInv, DocToCome

LEMMA CoordOf ==
  ASSUME PassTyped, NEW r \in Runs, NEW w, coord' = [coord EXCEPT ![r] = w]
  PROVE  coord'[r] = w /\ \A o \in Runs \ {r} : coord'[o] = coord[o]
  BY DEF PassTyped

(* The steps that keep queues and jobs                                       *)
LEMMA QuietSteps ==
  ASSUME PassInv, DocsInv, NEW r \in Runs,
         BeginWalk(r) \/ BeginRefused(r) \/ FetchPage(r) \/ HitCap(r) \/ SkipTicket(r) \/ MarkTruncated(r)
           \/ WriteNotes(r) \/ FailRun(r) \/ \E s \in Starters : InsertRun(s, r)
  PROVE  DocsInv'
<1>0. PassTyped /\ QueueWalks(r) /\ AbsentIdle(r) /\ coord[r] \in Walk
  BY DEF PassInv, PassTyped, DocsInv
<1>1. UNCHANGED <<remote, row, docVars, job>> /\ excused \subseteq excused' /\ cutoff \subseteq cutoff'
  BY DEF BeginWalk, BeginRefused, FetchPage, HitCap, SkipTicket, MarkTruncated, WriteNotes, FailRun, InsertRun, GiveUp
<1>2. /\ coord'[r].queued = coord[r].queued /\ (coord'[r].pc \notin {"walk", "ready"} => coord[r].pc \notin {"walk", "ready"})
      /\ \A o \in Runs \ {r} : coord'[o] = coord[o]
  <2>1. CASE BeginWalk(r)
    <3>1. PICK w : w = [NewWalk EXCEPT !.pc = "walk", !.pos = now + 1]
      OBVIOUS
    <3>2. coord' = [coord EXCEPT ![r] = w] /\ coord[r].pc = "waiting"
      BY <2>1, <3>1 DEF BeginWalk
    <3>3. w.queued = {}
      BY <3>1 DEF NewWalk
    <3> QED
      BY <1>0, <3>2, <3>3, CoordOf DEF QueueWalks
  <2>2. ASSUME NEW pc \in {"end", "waiting", "ready"}, coord' = [coord EXCEPT ![r].pc = pc]
        PROVE  /\ coord'[r].queued = coord[r].queued /\ coord'[r].pc = pc
               /\ \A o \in Runs \ {r} : coord'[o] = coord[o]
    BY <1>0, <2>2 DEF PassTyped, Walk
  <2>3. CASE BeginRefused(r) \/ WriteNotes(r) \/ \E s \in Starters : InsertRun(s, r)
    BY <1>0, <2>2, <2>3 DEF BeginRefused, WriteNotes, InsertRun, AbsentIdle
  <2>4. CASE FailRun(r)
    BY <2>4 DEF FailRun
  <2>5. CASE FetchPage(r)
    <3>1. PICK pos, page : coord' = [coord EXCEPT ![r].pos = pos, ![r].page = page]
      BY <2>5, Zenon DEF FetchPage
    <3> QED
      BY <1>0, <3>1 DEF PassTyped, Walk
  <2>6. CASE HitCap(r)
    <3>1. PICK page, capped : coord' = [coord EXCEPT ![r].page = page, ![r].capped = capped]
      BY <2>6, Zenon DEF HitCap
    <3> QED
      BY <1>0, <3>1 DEF PassTyped, Walk
  <2>7. CASE SkipTicket(r)
    <3>1. PICK page, skipped : coord' = [coord EXCEPT ![r].page = page, ![r].skipped = skipped]
      BY <2>7, Zenon DEF SkipTicket
    <3> QED
      BY <1>0, <3>1 DEF PassTyped, Walk
  <2>8. CASE MarkTruncated(r)
    BY <2>2, <2>8 DEF MarkTruncated
  <2> QED
    BY <2>1, <2>3, <2>4, <2>5, <2>6, <2>7, <2>8
<1>3. \A t \in Tickets : Pending(t) => Pending(t)'
  BY <1>1, <1>2 DEF Pending, docVars
<1>4. \A o \in Runs : QueueWalks(o)'
  BY <1>2 DEF DocsInv, QueueWalks
<1> QED
  BY <1>1, <1>3, <1>4, DocsFrame DEF DocsInv, docVars

(* A new edit is shown by no row.                                            *)
LEMMA EditDocs ==
  ASSUME PassInv, DocsInv, NEW t \in Tickets, Edit(t)
  PROVE  DocsInv'
<1>1. /\ remote' = [remote EXCEPT ![t] = now + 1] /\ UNCHANGED <<row, doc, coord, job, held>>
      /\ excused' = excused \ {t} /\ cutoff' = cutoff \ {t} /\ outdated' = outdated \ {t}
  BY DEF Edit
<1>2. /\ remote'[t] = now + 1 /\ \A u \in Tickets \ {t} : remote'[u] = remote[u]
      /\ row[t].updated \in Nat /\ row[t].updated <= remote[t] /\ remote[t] <= now /\ remote[t] \in Nat /\ now \in Nat
  BY <1>1 DEF PassInv, PassTyped, InTime
<1>3. ASSUME NEW u \in Tickets PROVE DocToCome(u)'
  <2>1. CASE u = t
    <3>1. row'[u].updated # remote'[u]
      BY <1>1, <1>2, <2>1
    <3> QED
      BY <3>1 DEF DocToCome
  <2>2. CASE u # t
    <3>1. /\ row'[u] = row[u] /\ doc'[u] = doc[u] /\ remote'[u] = remote[u] /\ (Pending(u)' <=> Pending(u))
          /\ (u \in excused => u \in excused') /\ (u \in cutoff => u \in cutoff')
          /\ (u \in outdated => u \in outdated')
      BY <1>1, <1>2, <2>2 DEF Pending
    <3> QED
      BY <3>1 DEF DocsInv, DocToCome
  <2> QED
    BY <2>1, <2>2
<1>4. \A r \in Runs : QueueWalks(r)'
  BY <1>1 DEF DocsInv, QueueWalks
<1> QED
  BY <1>3, <1>4 DEF DocsInv

(* What is stored is queued.                                                 *)
LEMMA UpsertDocs ==
  ASSUME PassInv, DocsInv, NEW r \in Runs, Upsert(r)
  PROVE  DocsInv'
<1>0. PassTyped /\ coord[r] \in Walk
  BY DEF PassInv, PassTyped
<1>1. UNCHANGED <<remote, doc, held, outdated, job, cutoff>> /\ excused \subseteq excused' /\ coord[r].pc = "walk"
  BY DEF Upsert, GiveUp, docVars
<1>2. PICK e \in coord[r].page :
         /\ row' = [row EXCEPT ![e.ticket] = [updated |-> e.updated, synced |-> now]]
         /\ coord' = [coord EXCEPT ![r].page = coord[r].page \ {e}, ![r].queued = coord[r].queued \cup {e.ticket}]
  BY DEF Upsert
<1>3. /\ coord'[r].queued = coord[r].queued \cup {e.ticket} /\ coord'[r].pc = "walk"
      /\ \A o \in Runs \ {r} : coord'[o] = coord[o]
  BY <1>0, <1>1, <1>2 DEF PassTyped, Walk
<1>4. \A t \in Tickets : Pending(t) => Pending(t)'
  BY <1>1, <1>3 DEF Pending
<1>5. ASSUME NEW t \in Tickets PROVE DocToCome(t)'
  <2>1. CASE t = e.ticket
    BY <1>3, <2>1 DEF DocToCome, Pending
  <2>2. CASE t # e.ticket
    <3>1. row'[t] = row[t]
      BY <1>0, <1>2, <2>2 DEF PassTyped
    <3> QED
      BY <1>1, <1>4, <3>1 DEF DocsInv, DocToCome
  <2> QED
    BY <2>1, <2>2
<1>6. \A o \in Runs : QueueWalks(o)'
  BY <1>3 DEF DocsInv, QueueWalks
<1> QED
  BY <1>5, <1>6 DEF DocsInv

(* The end of a walk, orderly or not: the queue becomes jobs, or is cut off. *)
LEMMA QueueGiven ==
  ASSUME PassInv, DocsInv, NEW r \in Runs, EndWalk(r) \/ WalkFails(r) \/ Redeliver(r)
  PROVE  DocsInv'
<1>0. PassTyped
  BY DEF PassInv
<1>1. UNCHANGED <<remote, row, doc, held, outdated, excused>> /\ cutoff \subseteq cutoff'
  BY DEF EndWalk, WalkFails, Redeliver, CutOff, docVars
<1>2. PICK pc : coord' = [coord EXCEPT ![r] = [NewWalk EXCEPT !.pc = pc]] /\ pc \notin {"walk", "ready"}
  BY DEF EndWalk, WalkFails, Redeliver
<1>3. coord'[r].queued = {} /\ \A o \in Runs \ {r} : coord'[o] = coord[o]
  BY <1>0, <1>2 DEF PassTyped, NewWalk
<1>4. \A o \in Runs, t \in Tickets : job[o][t] # "none" => job'[o][t] = job[o][t]
  BY <1>0 DEF EndWalk, WalkFails, Redeliver, PassTyped
<1>5. ASSUME NEW t \in Tickets, t \in coord[r].queued, row[t].updated = remote[t]
      PROVE  \/ job'[r][t] = "waiting"
             \/ t \in cutoff'
             \/ job'[r][t] = "building" /\ held[r][t] = remote[t]
  <2>1. CASE EndWalk(r)
    <3>1. job[r][t] \in {"none", "waiting", "building", "settled"}
      BY <1>0 DEF PassTyped, JobState
    <3>2. job[r][t] = "none" => job'[r][t] = "waiting"
      BY <1>0, <1>5, <2>1 DEF EndWalk, PassTyped
    <3>3. HasRead(r, t) => t \in cutoff'
      BY <1>5, <2>1 DEF EndWalk, CutOff
    <3> QED
      BY <1>4, <1>5, <3>1, <3>2, <3>3 DEF HasRead
  <2>2. CASE WalkFails(r) \/ Redeliver(r)
    BY <1>5, <2>2 DEF WalkFails, Redeliver, CutOff
  <2> QED
    BY <2>1, <2>2
<1>6. ASSUME NEW t \in Tickets, Pending(t), row[t].updated = remote[t]
      PROVE  Pending(t)' \/ t \in excused' \/ t \in cutoff'
  <2>1. PICK o \in Runs :
          \/ job[o][t] = "waiting"
          \/ job[o][t] = "building" /\ held[o][t] = remote[t]
          \/ t \in coord[o].queued
    BY <1>6 DEF Pending
  <2>2. CASE job[o][t] = "waiting" \/ (job[o][t] = "building" /\ held[o][t] = remote[t])
    BY <1>1, <1>4, <2>2 DEF Pending
  <2>3. CASE t \in coord[o].queued /\ o # r
    BY <1>3, <2>3 DEF Pending
  <2>4. CASE t \in coord[o].queued /\ o = r
    BY <1>1, <1>5, <1>6, <2>4 DEF Pending
  <2> QED
    BY <2>1, <2>2, <2>3, <2>4
<1>7. \A o \in Runs : QueueWalks(o)'
  BY <1>3 DEF DocsInv, QueueWalks
<1> QED
  BY <1>1, <1>6, <1>7, DocsFrame DEF DocsInv

(* What has still to be written is with the job that reads it.               *)
LEMMA ReadDocs ==
  ASSUME PassInv, DocsInv, NEW r \in Runs, NEW t \in Tickets, ReadRow(r, t) \/ Retry(r, t)
  PROVE  DocsInv'
<1>0. PassTyped
  BY DEF PassInv
<1>1. /\ UNCHANGED <<remote, row, coord, excused, cutoff>> /\ outdated \subseteq outdated'
      /\ \A u \in Tickets \ {t} : doc'[u] = doc[u]
  BY <1>0 DEF ReadRow, Retry, UpsertDocument, PassTyped
<1>2. ASSUME NEW o \in Runs, NEW u \in Tickets, o # r \/ u # t
      PROVE  job'[o][u] = job[o][u] /\ held'[o][u] = held[o][u]
  BY <1>0, <1>2 DEF ReadRow, Retry, PassTyped
<1>3. \/ job'[r][t] = "waiting"
      \/ job'[r][t] = "building" /\ held'[r][t] = row[t].updated
  BY <1>0 DEF ReadRow, Retry, PassTyped
<1>4. ASSUME NEW u \in Tickets PROVE DocToCome(u)'
  <2>1. CASE u = t
    BY <1>1, <1>3, <2>1 DEF DocToCome, Pending
  <2>2. CASE u # t
    <3>1. Pending(u) => Pending(u)'
      BY <1>1, <1>2, <2>2 DEF Pending
    <3> QED
      BY <1>1, <2>2, <3>1 DEF DocsInv, DocToCome
  <2> QED
    BY <2>1, <2>2
<1>5. \A o \in Runs : QueueWalks(o)'
  BY <1>1 DEF DocsInv, QueueWalks
<1> QED
  BY <1>4, <1>5 DEF DocsInv

(* A job settles by showing what it holds: the current state, or an older    *)
(* one, which someone else has to make good unless it covers the current.    *)
LEMMA JobDocs ==
  ASSUME PassInv, DocsInv, NEW r \in Runs, NEW t \in Tickets, WriteDocument(r, t) \/ TicketFails(r, t)
  PROVE  DocsInv'
<1>0. PassTyped
  BY DEF PassInv
<1>1. /\ UNCHANGED <<remote, row, coord, cutoff>> /\ excused \subseteq excused' /\ outdated \subseteq outdated'
      /\ job' = [job EXCEPT ![r][t] = "settled"] /\ held' = [held EXCEPT ![r][t] = 0]
  BY DEF WriteDocument, UpsertDocument, TicketFails, Settle, GiveUp
<1>2. ASSUME NEW o \in Runs, NEW u \in Tickets, o # r \/ u # t
      PROVE  job'[o][u] = job[o][u] /\ held'[o][u] = held[o][u]
  BY <1>0, <1>1, <1>2 DEF PassTyped
<1>3. ASSUME Pending(t), job[r][t] # "waiting", ~(job[r][t] = "building" /\ held[r][t] = remote[t])
      PROVE  Pending(t)'
  BY <1>1, <1>2, <1>3 DEF Pending
<1>4. ASSUME NEW u \in Tickets PROVE DocToCome(u)'
  <2>1. CASE u # t
    <3>1. Pending(u) => Pending(u)'
      BY <1>1, <1>2, <2>1 DEF Pending
    <3>2. doc'[u] = doc[u]
      BY <1>0, <2>1 DEF WriteDocument, UpsertDocument, TicketFails, PassTyped
    <3> QED
      BY <1>1, <3>1, <3>2 DEF DocsInv, DocToCome
  <2>2. CASE u = t /\ WriteDocument(r, t)
    <3>1. doc'[t] = held[r][t] /\ job[r][t] = "building"
      BY <1>0, <2>2 DEF WriteDocument, UpsertDocument, PassTyped
    <3>2. doc[t] = remote[t] /\ held[r][t] # remote[t] => t \in outdated'
      BY <2>2 DEF WriteDocument, UpsertDocument
    <3> QED
      BY <1>1, <1>3, <2>2, <3>1, <3>2 DEF DocsInv, DocToCome
  <2>3. CASE u = t /\ TicketFails(r, t)
    <3>1. doc' = doc
      BY <2>3 DEF TicketFails
    <3>2. CASE job[r][t] = "waiting"
      BY <1>1, <2>3, <3>2 DEF TicketFails, GiveUp, DocToCome
    <3>3. CASE job[r][t] = "building"
      <4>1. held[r][t] = remote[t] => t \in excused'
        BY <2>3, <3>3 DEF TicketFails, GiveUp
      <4> QED
        BY <1>1, <1>3, <2>3, <3>1, <3>3, <4>1 DEF DocsInv, DocToCome
    <3> QED
      BY <2>3, <3>2, <3>3 DEF TicketFails
  <2> QED
    BY <2>1, <2>2, <2>3
<1>5. \A o \in Runs : QueueWalks(o)'
  BY <1>1 DEF DocsInv, QueueWalks
<1> QED
  BY <1>4, <1>5 DEF DocsInv

LEMMA DocsKept == PassInv /\ DocsInv /\ [Next]_vars => DocsInv'
<1> SUFFICES ASSUME PassInv, DocsInv, [Next]_vars PROVE DocsInv'
  OBVIOUS
<1>1. CASE UNCHANGED <<remote, row, doc, held, outdated, coord, job, excused, cutoff>>
  BY <1>1 DEF DocsInv, DocToCome, QueueWalks, Pending
<1>2. ASSUME NEW t \in Tickets, Edit(t) \/ Index(t) PROVE DocsInv'
  BY <1>1, <1>2, EditDocs DEF Index, docVars
<1>3. ASSUME NEW s \in Starters,
             AlreadyRunning(s) \/ \E since \in {0, NightlySince} : ReadPrior(s, since)
      PROVE  DocsInv'
  BY <1>1, <1>3 DEF AlreadyRunning, ReadPrior, docVars
<1>4. ASSUME NEW r \in Runs,
             \/ BeginWalk(r) \/ BeginRefused(r) \/ FetchPage(r) \/ HitCap(r) \/ SkipTicket(r) \/ MarkTruncated(r)
             \/ WriteNotes(r) \/ FailRun(r) \/ \E s \in Starters : InsertRun(s, r)
      PROVE  DocsInv'
  BY <1>4, QuietSteps
<1>5. ASSUME NEW r \in Runs, Upsert(r) \/ EndWalk(r) \/ WalkFails(r) \/ Redeliver(r) PROVE DocsInv'
  BY <1>5, UpsertDocs, QueueGiven
<1>6. ASSUME NEW r \in Runs, NEW t \in Tickets,
             ReadRow(r, t) \/ WriteDocument(r, t) \/ Retry(r, t) \/ TicketFails(r, t)
      PROVE  DocsInv'
  BY <1>6, JobDocs, ReadDocs
<1>7. CASE UNCHANGED vars
  BY <1>1, <1>7 DEF vars
<1> QED
  BY <1>2, <1>3, <1>4, <1>5, <1>6, <1>7 DEF Next

LEMMA DocsReach == RowsWithinReach /\ DocsInv => DocumentsWithinReach
  BY DEF RowsWithinReach, DocsInv, DocToCome, WithinReach, Pending, DocumentsWithinReach

(* The same of the sync's product: what processTicket has not written is     *)
(* fetched again, waits in a ticket job or is in the hands of one, was       *)
(* stored by a coordinator that died or failed before it made the jobs, or   *)
(* was written and then overwritten by a job that had read the row earlier.  *)
THEOREM DocumentsWithinReachHolds == Spec => []DocumentsWithinReach
<1>1. Spec => []PassInv
  BY PassInit, PassKept, PTL DEF Spec
<1>2. Spec => []DocsInv
  BY <1>1, DocsInit, DocsKept, PTL DEF Spec
<1> QED
  BY <1>2, RowsWithinReachHolds, DocsReach, PTL

=============================================================================
