------------------------------ MODULE SyncPass ------------------------------
(***************************************************************************)
(* Which tickets of a provider (Jira, Linear, Notion) a sync reaches:      *)
(* the passes of integration-sync, which may take several runs (V134), and *)
(* the incremental cursor of the nightly sync.  One project and provider.  *)
(*                                                                         *)
(* Times are naturals; edits and starts of runs have an instant of their   *)
(* own, and 0 stands for NULL and for "never".  How a run counts its       *)
(* tickets is the subject of SyncRuns; here a run ends when its ticket     *)
(* jobs are settled.                                                       *)
(***************************************************************************)
EXTENDS Naturals, FiniteSets

CONSTANTS Tickets,     \* issues of the mapped remote project
          Runs,        \* ids of rows of integration_sync_runs
          Starters,    \* requests: clicks on Sync, the nightly orchestrator
          Cap,         \* MAX_TICKETS_PER_RUN
          PageSize,    \* JIRA_PAGE_SIZE, LINEAR_PAGE_SIZE, NOTION_PAGE_SIZE
          Buffer,      \* NIGHTLY_SYNC_SINCE_BUFFER_MINUTES
          Lag,         \* how long a provider's search may miss an edit
          MaxDeaths,   \* bound on the deaths of workers
          MaxTime      \* bound on the clock

ASSUME SyncPassAssumption ==
    /\ IsFiniteSet(Tickets)
    /\ Cap \in Nat /\ PageSize \in Nat /\ MaxDeaths \in Nat /\ MaxTime \in Nat
    /\ Buffer \in Nat /\ Lag \in Nat
    /\ Lag <= Buffer

VARIABLES now,       \* the last instant used
          remote,    \* updated time of each ticket at the provider
          indexed,   \* the updated time the provider's search knows
          row,       \* jira_tickets / linear_tickets / notion_pages
          doc,       \* updated time of the state the mirror document shows
          run,       \* integration_sync_runs
          coord,     \* the execution of a run's coordinator job
          job,       \* ticket jobs of each run
          held,      \* updated time of the row a ticket job has read; 0 before
          asked,     \* what a request has read before its INSERT
          deaths,    \* workers that died with a job
          excused,   \* history: tickets whose current state was given up on
          cutoff,    \* history: tickets stored by a walk that made no jobs for them
          outdated   \* history: tickets whose current document a late job overwrote

vars == <<now, remote, indexed, row, doc, run, coord, job, held, asked, deaths, excused,
          cutoff, outdated>>

(* What only the ticket jobs and the documents they make are about.        *)
docVars == <<doc, held, outdated>>

Completed(r) == run[r].status = "succeeded"    \* 'succeeded' or 'partial'
Active(r) == run[r].status = "active"          \* 'queued' or 'running'

Nothing == [pc |-> "idle", window |-> 0, since |-> 0]

NewWalk == [pc |-> "idle", pos |-> 0, page |-> {}, queued |-> {}, skipped |-> 0, capped |-> FALSE]

(* A project with a backlog is mapped and has never been synced.           *)
Init ==
    /\ now = Cardinality(Tickets)
    /\ remote \in [Tickets -> 1..now] /\ \A t, u \in Tickets : remote[t] = remote[u] => t = u
    /\ indexed = remote
    /\ row = [t \in Tickets |-> [updated |-> 0, synced |-> 0]]
    /\ doc = [t \in Tickets |-> 0]
    /\ run = [r \in Runs |-> [status |-> "absent", created |-> 0, window |-> 0, since |-> 0,
                              truncated |-> FALSE]]
    /\ deaths = 0
    /\ coord = [r \in Runs |-> NewWalk]
    /\ job = [r \in Runs |-> [t \in Tickets |-> "none"]]
    /\ held = [r \in Runs |-> [t \in Tickets |-> 0]]
    /\ asked = [s \in Starters |-> Nothing]
    /\ excused = {} /\ cutoff = {} /\ outdated = {}

-----------------------------------------------------------------------------
(* The provider.                                                           *)

(* Search may lag behind an edit, but not for more than Lag instants.      *)
IndexInTime == \A t \in Tickets : indexed[t] # remote[t] => now < remote[t] + Lag

(* The next instant.                                                       *)
Advance == now < MaxTime /\ IndexInTime /\ now' = now + 1

Edit(t) ==
    /\ Advance
    /\ remote' = [remote EXCEPT ![t] = now + 1]
    /\ excused' = excused \ {t} /\ cutoff' = cutoff \ {t} /\ outdated' = outdated \ {t}
    /\ UNCHANGED <<indexed, row, doc, run, coord, job, held, asked, deaths>>

Index(t) ==
    /\ indexed[t] # remote[t]
    /\ indexed' = [indexed EXCEPT ![t] = remote[t]]
    /\ UNCHANGED <<now, remote, row, docVars, run, coord, job, asked, deaths, excused, cutoff>>

(* What is given up on is a state of a ticket: the next edit ends that.    *)
GiveUp(t, updated) == excused' = IF updated = remote[t] THEN excused \cup {t} ELSE excused

-----------------------------------------------------------------------------
(* Starting a run.                                                         *)

(* getLastSuccessfulRunStart: the greatest window of a completed run that  *)
(* the cap did not cut off; 0 when there is none.                          *)
Cursor ==
    LET ends == {run[r].window : r \in {x \in Runs : Completed(x) /\ ~run[x].truncated}}
    IN  IF ends = {} THEN 0 ELSE CHOOSE w \in ends : \A v \in ends : v <= w

(* The cursor with its buffer forgotten.                                   *)
NightlySinceUnbuffered == Cursor

(* The `since` of a nightly run: the cursor less the buffer.               *)
NightlySince == IF Cursor > Buffer THEN Cursor - Buffer ELSE 0

(* The latest completed run, if the cap cut it off: its pass is resumed.   *)
Unfinished(r) ==
    /\ Completed(r) /\ run[r].truncated
    /\ \A o \in Runs : Completed(o) => run[o].created <= run[r].created

(* The reads of startRun.  The nightly orchestrator passes the cursor as   *)
(* `since`, a click on Sync nothing.                                       *)
ReadPrior(s, since) ==
    /\ asked[s].pc = "idle"
    /\ \/ \E r \in Runs :
             /\ Unfinished(r)
             /\ asked' = [asked EXCEPT ![s] = [pc |-> "insert", window |-> run[r].window,
                                               since |-> run[r].since]]
       \/ /\ \A r \in Runs : ~Unfinished(r)
          /\ asked' = [asked EXCEPT ![s] = [pc |-> "insert", window |-> 0,
                                               since |-> since]]
    /\ UNCHANGED <<now, remote, indexed, row, docVars, run, coord, job, deaths, excused, cutoff>>

(* The INSERT, under the unique index on active runs; window_start is now  *)
(* unless the pass is resumed.  queue.add adds the coordinator's job.      *)
InsertRun(s, r) ==
    /\ asked[s].pc = "insert"
    /\ run[r].status = "absent"
    /\ \A o \in Runs : ~Active(o)
    /\ Advance
    /\ run' = [run EXCEPT ![r] = [status |-> "active", created |-> now + 1,
                   window |-> IF asked[s].window = 0 THEN now + 1 ELSE asked[s].window,
                   since |-> asked[s].since, truncated |-> FALSE]]
    /\ coord' = [coord EXCEPT ![r].pc = "waiting"]
    /\ asked' = [asked EXCEPT ![s] = Nothing]
    /\ UNCHANGED <<remote, indexed, row, docVars, job, deaths, excused, cutoff>>

(* The index rejects the INSERT: the run in flight is answered.            *)
AlreadyRunning(s) ==
    /\ asked[s].pc = "insert"
    /\ \E o \in Runs : Active(o)
    /\ asked' = [asked EXCEPT ![s] = Nothing]
    /\ UNCHANGED <<now, remote, indexed, row, docVars, run, coord, job, deaths, excused, cutoff>>

-----------------------------------------------------------------------------
(* The coordinator, processRun.                                            *)

(* markRunning, in the first delivery or in a redelivery: whatever the     *)
(* status is, unless the index on active runs forbids it.                  *)
BeginWalk(r) ==
    /\ coord[r].pc = "waiting"
    /\ \A o \in Runs \ {r} : ~Active(o)
    /\ run' = [run EXCEPT ![r].status = "active"]
    /\ coord' = [coord EXCEPT ![r] = [NewWalk EXCEPT !.pc = "walk", !.pos = now + 1]]
    /\ UNCHANGED <<now, remote, indexed, row, docVars, job, asked, deaths, excused, cutoff>>

(* markRunning violates the index; failRun finds nothing to fail.          *)
BeginRefused(r) ==
    /\ coord[r].pc = "waiting"
    /\ \E o \in Runs \ {r} : Active(o)
    /\ coord' = [coord EXCEPT ![r].pc = "end"]
    /\ UNCHANGED <<now, remote, indexed, row, docVars, run, job, asked, deaths, excused, cutoff>>

(* What the provider still has to return, newest first.                    *)
Ahead(r) == {t \in Tickets : run[r].since <= indexed[t] /\ indexed[t] < coord[r].pos}

(* syncedInPass: stored in this pass, in the state the page shows.         *)
SyncedInPass(r, t) == row[t].synced >= run[r].window /\ row[t].updated = indexed[t]

FetchPage(r) ==
    /\ coord[r].pc = "walk" /\ coord[r].page = {} /\ ~coord[r].capped
    /\ \E P \in (SUBSET Ahead(r)) \ {{}} :
         /\ Cardinality(P) <= PageSize
         /\ P = Ahead(r) \/ Cardinality(P) = PageSize
         /\ \A t \in P, u \in Ahead(r) \ P : indexed[u] < indexed[t]
         /\ \E last \in P :
              /\ \A t \in P : indexed[last] <= indexed[t]
              /\ coord' = [coord EXCEPT ![r].pos = indexed[last],
                             ![r].page = {[ticket |-> t, updated |-> indexed[t]] :
                                          t \in {u \in P : ~SyncedInPass(r, u)}}]
    /\ UNCHANGED <<now, remote, indexed, row, docVars, run, job, asked, deaths, excused, cutoff>>

Newest(r, e) == e \in coord[r].page /\ \A f \in coord[r].page : f.updated <= e.updated

(* The cap is met only when another ticket still needs syncing.            *)
AtCap(r) == Cardinality(coord[r].queued) + coord[r].skipped >= Cap

(* The cap looked at after the ticket is stored                            *)
HitCapStored(r) ==
    /\ coord[r].pc = "walk" /\ AtCap(r)
    /\ \E e \in coord[r].page :
         Newest(r, e) /\ row' = [row EXCEPT ![e.ticket] = [updated |-> e.updated, synced |-> now]]
    /\ coord' = [coord EXCEPT ![r].page = {}, ![r].capped = TRUE]
    /\ UNCHANGED <<now, remote, indexed, docVars, run, job, asked, deaths, excused, cutoff>>

HitCap(r) ==
    /\ coord[r].pc = "walk" /\ coord[r].page # {} /\ AtCap(r)
    /\ coord' = [coord EXCEPT ![r].page = {}, ![r].capped = TRUE]
    /\ UNCHANGED <<now, remote, indexed, row, docVars, run, job, asked, deaths, excused, cutoff>>

(* upsertTicket, with synced_at = now().  It compares nothing: a page read *)
(* before another run's overwrites what that run stored since.             *)
Upsert(r) ==
    /\ coord[r].pc = "walk" /\ ~AtCap(r)
    /\ \E e \in coord[r].page :
         /\ Newest(r, e)
         /\ row' = [row EXCEPT ![e.ticket] = [updated |-> e.updated, synced |-> now]]
         /\ coord' = [coord EXCEPT ![r].page = coord[r].page \ {e},
                                   ![r].queued = coord[r].queued \cup {e.ticket}]
         /\ IF e.updated < row[e.ticket].updated
            THEN GiveUp(e.ticket, row[e.ticket].updated) ELSE excused' = excused
    /\ UNCHANGED <<now, remote, indexed, docVars, run, job, asked, deaths, cutoff>>

(* One ticket's data must never abort the run: it is skipped.              *)
SkipTicket(r) ==
    /\ coord[r].pc = "walk" /\ ~AtCap(r)
    /\ \E e \in coord[r].page :
         /\ Newest(r, e)
         /\ GiveUp(e.ticket, e.updated)
         /\ coord' = [coord EXCEPT ![r].page = coord[r].page \ {e},
                                   ![r].skipped = coord[r].skipped + 1]
    /\ UNCHANGED <<now, remote, indexed, row, docVars, run, job, asked, deaths, cutoff>>

(* Tickets stored without a job to make their documents                    *)
CutOff(ts) == cutoff' = cutoff \cup {t \in ts : row[t].updated = remote[t]}

(* The pages are walked: setTotals, and the flag of a cap that was met.    *)
MarkTruncated(r) ==
    /\ coord[r].pc = "walk" /\ coord[r].page = {}
    /\ coord[r].capped \/ Ahead(r) = {}
    /\ coord' = [coord EXCEPT ![r].pc = "ready"]
    /\ run' = [run EXCEPT ![r].truncated = @ \/ coord[r].capped]
    /\ UNCHANGED <<now, remote, indexed, row, docVars, job, asked, deaths, excused, cutoff>>

(* A job of the run that will not read what the run has stored last.       *)
HasRead(r, t) ==
    \/ job[r][t] = "settled"
    \/ job[r][t] = "building" /\ held[r][t] # row[t].updated

(* The end of the walk: finishRun when there is nothing to do,             *)
(* enqueueTicketJobs otherwise (job ids dedupe).                           *)
EndWalk(r) ==
    /\ coord[r].pc = "ready"
    /\ coord' = [coord EXCEPT ![r] = [NewWalk EXCEPT !.pc = IF coord[r].queued = {} THEN "end" ELSE "notes"]]
    /\ run' = [run EXCEPT ![r].status = IF coord[r].queued = {} /\ Active(r) THEN "succeeded" ELSE @]
    /\ job' = [job EXCEPT ![r] = [t \in Tickets |-> IF t \in coord[r].queued /\ job[r][t] = "none"
                                                    THEN "waiting" ELSE job[r][t]]]
    /\ CutOff({t \in coord[r].queued : HasRead(r, t)})
    /\ UNCHANGED <<now, remote, indexed, row, docVars, asked, deaths, excused>>

(* What was skipped or cut off is noted on the run; the job is done.       *)
WriteNotes(r) ==
    /\ coord[r].pc = "notes"
    /\ coord' = [coord EXCEPT ![r].pc = "end"]
    /\ UNCHANGED <<now, remote, indexed, row, docVars, run, job, asked, deaths, excused, cutoff>>

(* An error of the provider or the database: failRun.                      *)
WalkFails(r) ==
    /\ coord[r].pc \in {"walk", "ready", "notes"}
    /\ coord' = [coord EXCEPT ![r] = [NewWalk EXCEPT !.pc = "end"]]
    /\ run' = [run EXCEPT ![r].status = IF Active(r) THEN "failed" ELSE @]
    /\ CutOff(coord[r].queued)
    /\ UNCHANGED <<now, remote, indexed, row, docVars, job, asked, deaths, excused>>

(* The worker dies and BullMQ delivers the job again.                      *)
Redeliver(r) ==
    /\ coord[r].pc \in {"walk", "ready", "notes"}
    /\ deaths < MaxDeaths
    /\ deaths' = deaths + 1
    /\ coord' = [coord EXCEPT ![r] = [NewWalk EXCEPT !.pc = "waiting"]]
    /\ CutOff(coord[r].queued)
    /\ UNCHANGED <<now, remote, indexed, row, docVars, run, job, asked, excused>>

(* failStuckRuns (watchdog, or a replica that boots), disconnect: a run    *)
(* fails whatever its coordinator and its ticket jobs are doing.           *)
FailRun(r) ==
    /\ Active(r)
    /\ run' = [run EXCEPT ![r].status = "failed"]
    /\ UNCHANGED <<now, remote, indexed, row, docVars, coord, job, asked, deaths, excused, cutoff>>

-----------------------------------------------------------------------------
(* Ticket jobs, processTicket: the document is made from the stored row,   *)
(* read well before the document is written: comments and a summary by an  *)
(* AI are fetched in between.  Jobs outlive a failed run.                  *)

ReadRow(r, t) ==
    /\ job[r][t] = "waiting"
    /\ job' = [job EXCEPT ![r][t] = "building"]
    /\ held' = [held EXCEPT ![r][t] = row[t].updated]
    /\ UNCHANGED <<now, remote, indexed, row, doc, run, coord, asked, deaths, excused, cutoff, outdated>>

(* recordTicketResult: the last ticket finishes the run.                   *)
Settle(r, t) ==
    /\ job' = [job EXCEPT ![r][t] = "settled"]
    /\ held' = [held EXCEPT ![r][t] = 0]
    /\ run' = [run EXCEPT ![r].status =
                 IF Active(r) /\ \A u \in Tickets \ {t} : job[r][u] \in {"none", "settled"}
                 THEN "succeeded" ELSE @]

(* The upsert of the document, skipped when nothing would change.  It does *)
(* not look at the row again, nor at how new the document is.              *)
UpsertDocument(r, t) ==
    /\ job[r][t] = "building"
    /\ doc' = [doc EXCEPT ![t] = held[r][t]]
    /\ outdated' = IF doc[t] = remote[t] /\ held[r][t] # remote[t] THEN outdated \cup {t} ELSE outdated

WriteDocument(r, t) ==
    /\ UpsertDocument(r, t)
    /\ Settle(r, t)
    /\ UNCHANGED <<now, remote, indexed, row, coord, asked, deaths, excused, cutoff>>

(* The job throws and has attempts left; or its worker dies after it has   *)
(* written the document and before it is counted.                          *)
Retry(r, t) ==
    /\ job[r][t] = "building"
    /\ \/ UNCHANGED <<doc, outdated, deaths>>
       \/ UpsertDocument(r, t) /\ deaths < MaxDeaths /\ deaths' = deaths + 1
    /\ job' = [job EXCEPT ![r][t] = "waiting"]
    /\ held' = [held EXCEPT ![r][t] = 0]
    /\ UNCHANGED <<now, remote, indexed, row, run, coord, asked, excused, cutoff>>

(* Out of attempts, or over the storage limit: counted as failed.          *)
TicketFails(r, t) ==
    /\ \/ job[r][t] = "waiting" /\ GiveUp(t, row[t].updated)
       \/ job[r][t] = "building" /\ GiveUp(t, held[r][t])
    /\ Settle(r, t)
    /\ UNCHANGED <<now, remote, indexed, row, doc, coord, asked, deaths, cutoff, outdated>>

-----------------------------------------------------------------------------
Next ==
    \/ \E t \in Tickets : Edit(t) \/ Index(t)
    \/ \E s \in Starters : AlreadyRunning(s) \/ \E r \in Runs : InsertRun(s, r)
    \/ \E s \in Starters : \E since \in {0, NightlySince} : ReadPrior(s, since)
    \/ \E r \in Runs :
         \/ BeginWalk(r) \/ BeginRefused(r) \/ FetchPage(r) \/ HitCap(r) \/ Upsert(r)
         \/ SkipTicket(r) \/ MarkTruncated(r) \/ EndWalk(r) \/ WriteNotes(r) \/ WalkFails(r) \/ Redeliver(r)
         \/ FailRun(r)
         \/ \E t \in Tickets : ReadRow(r, t) \/ WriteDocument(r, t) \/ Retry(r, t) \/ TicketFails(r, t)

Spec == Init /\ [][Next]_vars

-----------------------------------------------------------------------------
(* Tonight's run would fetch the ticket's current state.                   *)
WithinReach(t) == remote[t] >= NightlySince \/ t \in excused

(* A ticket whose stored row is out of date is within reach of the next    *)
(* nightly run, however many runs a pass took, whatever was edited         *)
(* meanwhile and however late the provider's search showed it: the cursor  *)
(* of getLastSuccessfulRunStart never steps over an edit.                  *)
RowsWithinReach == \A t \in Tickets : row[t].updated # remote[t] => WithinReach(t)

(* A ticket job, or the walk that will make one, that has the current      *)
(* state of the ticket still to write.                                     *)
Pending(t) ==
    \E r \in Runs :
        \/ job[r][t] = "waiting"
        \/ job[r][t] = "building" /\ held[r][t] = remote[t]
        \/ t \in coord[r].queued

(* The same for the mirror document, the sync's product: whatever is       *)
(* stored gets its document, or is fetched again, unless the walk that     *)
(* stored it was cut off before it made the jobs, or a job that had read   *)
(* the row before wrote its older document over the current one.           *)
DocumentsWithinReach ==
    \A t \in Tickets : doc[t] # remote[t] =>
        WithinReach(t) \/ t \in cutoff \/ t \in outdated \/ Pending(t)

=============================================================================
