# Tesbo Test Manager in TLA+

This directory models the concurrent core of Tesbo Test Manager (NestJS back end
`src/Tesbo-Backend-Nest`, Next.js front end, PostgreSQL, Redis with BullMQ) and the
Playwright reporter of its SDK that feeds it.
The modules are checked with TLC on small instances; the theorems are proved
with TLAPS for every value of the constants. Paths below are relative to the
back end unless they start with `src/`.

Contents: 1 inventory, 2 plan, 3 the modules and the code, 4 the runs, 5 the
proofs, 6 what the code's comments claim and the code does not do, 7 what is left out.

## 1. Inventory

The back end is one NestJS process, replicated at will. The API and the BullMQ
workers are the same program; all coordination between replicas is in PostgreSQL
(row locks, unique indexes, conditional `UPDATE`s) and Redis (queues, caches,
counters). Apart from the explicit `transaction` blocks, every database call commits on its own,
so two handlers interleave at every `await`.

| Component | State it keeps | Operations | What makes it correct |
|---|---|---|---|
| Review Board: analysis runs (`review-board/`, `V141`) | `review_analysis_runs`, a BullMQ job per run | start, poll, claim, heartbeat, persist, fail, expire | one active run per project; findings written once; no dead run blocks a project; a finished run stays finished |
| Review Board: findings (`review-board/`, `V141`, `V143`) | `review_recommendations`, one row per unordered pair | upsert and sweep by a run; keep, remove, edit by a reviewer | only pairs that match can be acted on; decisions survive late runs; a group of duplicates never vanishes in full |
| Test-case repository (`legacy/`) | projects, suites, test cases, cycles, executions, bugs, Zyra plans, members | CRUD, bulk move and delete, executions, AI generation | last writer wins by design; soft-deleted cases stay deleted |
| Database access (`database/`) | pg pool, permits for heavy reads | query, heavyQuery, transaction | at most a quarter of the pool in heavy reads; no permit lost; first come first served |
| Analytics report (`analytics-report/`, `V137`) | one row per reported day | claim, post to Basecamp, mark posted, release | one post a day; a dead claim does not block the day |
| Billing (`billing/`) | plan, its source, subscription and grace window of a workspace, `stripe_webhook_events` | checkout, webhooks, reconcile after checkout, drift repair; an operator's grant | the plan follows the subscriptions whatever events are lost or late; a grant outranks a dead subscription |
| Plan limits (`plan-limits/`) | counters derived from rows, usage rows | check-then-insert of projects, seats, AI credits | limits are not exceeded |
| Caches (`cache/`) | Redis entries with a time to live | read through, invalidate | bounded staleness; nothing older than an invalidation survives it |
| Integration sync (`integration-sync/`) | runs with counters and a cursor, ticket jobs, mirrored tickets and their documents | start, walk the provider's pages, per-ticket job, watchdog | the cursor never steps over an edit; one run in flight; every run ends |
| RAG embedding and retrieval (`rag/`) | chunks and vectors, embedding jobs | ingest, embed, retrieve | vectors belong to the current text |
| Authentication (`auth/`) | users, sessions, codes, lockout counters, tokens | login, OTP, reset, revoke | codes and links are used once; lockout counts every failure |
| Rate limiting (`rate-limit/`) | Redis counters | consume | window limits |
| Automation ingest (`automation/`) | `cycles`, `cycle_items`, `executions`, shared with the run page | create a run, attach cases, record a result, close | one live run per build; one result per case; no result without its case |
| Zyra archive, due-date, welcome mail (`zyra-archive-sweep/`, ...) | notification keys, delayed jobs | daily sweeps, one mail per user | once per key |
| Nyra, MCP server, custom fields, setup, admin, storage, audit, config | rows without a life cycle of their own | CRUD and views | validation only |
| Playwright reporter (`src/sdk`) | its run, the posts in flight | create the run, post each result without waiting, time out and try again, drain, close | shards share a run; no post is lost silently; a CI job is never held open |
| Front end (`src/Tesbo-Frontend`) | view state | polls the Review Board every `POLL_MS` while a run is active | used only as the reason for a fairness assumption |
| Migrations | schema | forward-only SQL | the constraints that the models rely on (unique pair, one active run) |

How they interact. A reviewer's request starts a run: the handler inserts a row
and adds a BullMQ job; a worker of any replica claims the run, reads all live test
cases, scores all candidate pairs in memory (no `await`, so its job lock may lapse
meanwhile and BullMQ delivers the job again), and writes findings in one
transaction. In between, the legacy service keeps editing, moving and deleting the
same test cases, and reviewers act on findings of earlier runs. Billing is fed by
Stripe webhooks and read through the entitlement cache by plan limits. The nightly
sync walks what changed at Jira, Linear or Notion since its cursor and leaves one job
per ticket to the workers. The shards of a CI build create one run between them and
post their results to it, while people on the run page judge, assign, remove and
delete the same rows. The heavy reads of dashboards share the pool with everything else.

The hard behaviours: executions that outlive their job lock; crashes between an
insert and an enqueue; a lost reply of Redis, Stripe or Basecamp after the request
was carried out; expiry that happens only when somebody looks; findings computed
from data that has changed since; check-then-act on unlocked reads; events of
Stripe out of order; posts of one test that overtake each other; a search index of a
provider that lags behind the tickets; two transactions that lock the same rows in opposite orders. `PROJECT.json`, under
`hazards`, lists each at its line, with the property that covers it or the reason
there is none yet.

## 2. Plan

Done:

1. `RunRegister`, `AnalysisRuns`, `ReviewBoard`, with their proofs: the Review
   Board is where queue, clock, locks and people meet.
2. `ConnectionPool`, with its proofs: the permits of `heavyQuery`, and calls that
   hold one connection while they wait for another.
3. `AnalyticsReport`, with its proofs: lease, retries and at-most-once posting.
4. `SyncPass` (which tickets a sync reaches) and `SyncRuns` (how a run is counted
   to its end), with their proofs in `SyncProofs`: two questions of one component that
   share little state, and whose product would be far too large to check.
5. `Billing`, with its proofs: webhook replay and order, two checkouts, drift repair
   against webhooks, an operator's grant.
6. `TestRuns`, the run tables under people and reporters, with its proofs, one of which is
   that it implements the abstract `ResultStore`; `Reporter`, the SDK composed with that
   store, with its proofs.

Every safety property of every passing run has a theorem; what remains is liveness, which stays
with TLC (section 5).

Worth modelling next: re-embedding of text that changes while its job is in
flight (RAG); a cache fill racing an invalidation, with the count before an INSERT of
the plan limits; one-time codes and the session cache (authentication); the
approval of Nyra findings; `PairLocks`, the lock orders of `persist` against `keep` and
`remove`; `FindingLifecycle`, an abstract life of one finding that `ReviewBoard`
implements; the three sweeps.

## 3. The modules and the code

### RunRegister — what the run table promises

An abstract specification of four variables: the runs that are `open` (queued or
running), those `over`, the log `written` of runs whose findings were committed,
and `exec`, what each execution works on. It has no queue, clock or lease. One run
is open at a time; an execution begins on an open run, reads after that, and
commits only while that run is open, closing it in the same step. Its fairness: an
open run is eventually closed.

### AnalysisRuns — how the code keeps that promise

| TLA+ | Code |
|---|---|
| `run[r].status`, `run[r].age` | `status` and `now() - heartbeat_at` of `review_analysis_runs`, in ticks |
| `job[r]` | the BullMQ job with `jobId` = run id: state, worker that holds its lock, redeliveries so far |
| `starter[s]` | where a `startAnalysis` request is: before its INSERT, before `queue.add`, in the `catch` |
| `worker[w]` | where an execution of `runAnalysis` is; survives the loss of its job lock (a zombie) |
| `written` | history: the order in which `persist` committed findings |
| `StartAnalysis`, `InsertRun`, `RefuseStart`, `Enqueue`, `EnqueueRejected`, `FailUnqueued` | `startAnalysis`, cut at each database and Redis call |
| `GetLatestAnalysis`, `ExpireStaleRuns` | the poll, and the lazy expiry it and `startAnalysis` perform |
| `TakeJob`, `Claim`, `ClaimNothing`, `ReadCases`, `Heartbeat`, `Persist`, `FailRun`, `Return` | `ReviewBoardProcessor.process` and `runAnalysis`, cut at each call |
| `Stall`, `CrashWorker`, `CrashStarter`, `Tick` | the environment: stalled-job check, process deaths, time |

`EnqueueRejected` covers both outcomes of a rejected `queue.add`: Redis did not
store the job, or stored it and the reply was lost. `FailUnqueued` is then
unconditional, as in the code: it fails a run that a worker may be executing or
may have completed. That is why `NeverRevived` speaks of terminal states as a set.
`FailRun` may fail to record the failure. `Stall` is not
guarded by the worker's state: the analysis holds the event loop, so a healthy
worker can lose its lock.

`RunReclaim` and `RunLease` are the two timeouts (minutes in the code, ticks
here, with only `RunReclaim < RunLease` assumed). Ages are capped at `RunLease + 1`: no comparison
tells larger ages apart.

### ReviewBoard — findings, reviewers and the rest of the application

Built on `RunRegister` (it EXTENDS it), so all that it assumes of runs is what
`AnalysisRuns` is shown to implement.

| TLA+ | Code |
|---|---|
| `testcase[c]` | a row of `testcases`: not yet created, live, or soft-deleted; content; suite |
| `finding[p]` | the row of the pair `p`: `review_status`, both content fingerprints, both state fingerprints, `last_run_id`, `removed_testcase_id` |
| `snapshot[w]` | the `ComparableCase`s an execution holds between its reads and `persist` |
| `reviewer[v]` | where an `edit` request is |
| `Matches`, `Matching`, `Outranks`, `Report` | `buildFinding` and `analyse`: threshold, order, cut at `MAX_PAIRS_PER_RUN` |
| `AllProposed`, `Proposed` | `analyse`: which pairs become candidates at all (exact duplicates, and those that `dfCap` and `MAX_CANDIDATES_PER_CASE` leave) |
| `Fresh` | `staleReasonOf` answering null |
| `Upserted`, `Reopens`, `Swept`, `WriteFindings` | the upsert, `REOPENS_FINDING` and the sweep of `persist` |
| `Keep`, `Remove` | one transaction each, on a locked finding and locked cases |
| `EditLoad`, `EditRead`, `EditSave`, `EditMark`, `EditCrash` | `edit`: four separately committed steps |
| `CreateTestcase`, `UpdateTestcase`, `BulkMove`, `BulkDelete` | the legacy service's writers of `testcases` |

Abstractions, and why they lose nothing the properties tell apart:

- A *content* stands for the normalised compared fields, so equal contents are
  equal fingerprints. Hash collisions are not modelled. A *suite* stands for all that
  only the state fingerprint hashes; an edit of a description alone is a change of it.
- Scoring is the constant `Similarity`: the sets of contents over the threshold,
  with ranks; that a candidate shares two words is part of it. Which of the pairs that match
  are candidates depends on word counts, so `Proposed` is a choice: exact duplicates always (they are found by fingerprint), all pairs when
  there are no more than `MaxCandidates + 1` cases (26 in the code, below which the
  document-frequency cap of at least 30 drops nothing either), and any others in larger projects. It allows more than
  the code: two runs over the same cases may choose differently here.
- `persist`, `keep` and `remove` are atomic. Each is one transaction on locked
  rows: the upsert and the sweep of a row conflict with `keep`'s and
  `remove`'s `FOR UPDATE` and re-evaluate their conditions after the lock wait,
  so an interleaving serialises before or after. That PostgreSQL may abort one of
  them is `AbandonRun`, or an action that does not happen.
- The table of test cases is finite, though of any size (`BoundAssumption`): the cut at
  `MaxPairs` counts the pairs that outrank another, and only a count of finitely many
  tells that a report which need not be cut is not.
- A deleted test case never returns: no code clears `deleted_at`. `DecisionsAreFinal` rests on
  that: a comment (`review-board.service.ts:528-530`) thinks of "a removed case that someone restored elsewhere", and an
  application that did restore cases would need another property. Hard deletes
  happen only by cascade, with the project, and are not modelled.
- The action of a reviewer on a finding that is not actionable (409) changes
  nothing and has no action here.

### ConnectionPool — permits and connections of one process

| TLA+ | Code |
|---|---|
| `call[c]` | a call of `DatabaseService`: its kind (`query`, `heavyQuery`, `transaction`) and where it is |
| `heavyActive`, `heavyQueue` | the fields of the same names; a queue entry is the call whose promise is pending |
| `waiters` | the queue inside the pg `Pool` (external) |
| `HeavyQuery`, `StartHeavy`, `Return` | `heavyQuery`: `acquireHeavy`, its continuation, `releaseHeavy` in the `finally` |
| `Query`, `Finish`, `Transaction`, `EndTransaction` | `query`, `transaction`; a statement or callback that fails ends a call like one that succeeds |
| `NestedQuery`, `NestedFinish` | `this.db.query` inside the callback of a transaction: approving Nyra findings (`nyra-review.service.ts:296`), saving a Zyra task (`legacy.service.ts:20006`), options of custom fields (`custom-fields.service.ts:281`) |
| `Checkout`, `ConnectTimeout` | the pool serves its first waiter, or gives a waiter up after `connectionTimeoutMillis` |

One JavaScript turn is one step: `acquireHeavy` up to its `await`, the
continuation after a grant (a microtask, hence `StartHeavy` apart from the grant),
and the `finally`. What statements do to the data is left out. No heavy query is
nested in a transaction anywhere in the code, and none is in the model.
`InUse` counts connections: a nested query holds two.

### AnalyticsReport — one reported day

| TLA+ | Code |
|---|---|
| `day.claim` | `claimed_at` of the day's row: no row, within `CLAIM_LEASE_MINUTES`, or older |
| `day.posted` | `posted_at IS NOT NULL` |
| `job[j]` | a BullMQ job for the day; blue and green deployments have a Redis each, so a day can have several |
| `exec[e]` | an execution of `run()`, its job, and the call it is about to make; survives the loss of its job lock |
| `answers` | answers Basecamp has stored (external) |
| `lapses` | history: events after which the table cannot know what happened |
| `Claim`, `Skip`, `PostFails`, `PostAnswer`, `MarkPosted`, `MarkFails`, `Release` | `run`, cut at each database or Basecamp call |
| `Stall`, `Crash`, `LeaseExpires` | the environment |

A *lapse* is a reply of Basecamp that was lost after the answer was stored, a mark
that was not written or was cut off by a crash, or an execution that outlives its
15 minutes. The property that holds is relative to it: one answer, and at most one
more per lapse. The history variable is read by no guard. The day an attempt
reports is recomputed by each attempt (`previousIstDay`); retries end within
minutes of 00:10, so all attempts of a job report the same day and one is
modelled. `Release` has no owner check, as in the code.

### SyncPass — which tickets a sync reaches

| TLA+ | Code |
|---|---|
| `remote`, `indexed` | when a ticket was last changed at the provider, and the change its search shows (external) |
| `row[t]` | `jira_tickets`, `linear_tickets`, `notion_pages`: updated time and `synced_at` |
| `doc[t]` | the state the mirror document shows |
| `run[r]` | status, `created_at`, `window_start`, `since` and `truncated` of `integration_sync_runs` (`V72`, `V134`) |
| `coord[r]` | the coordinator's walk: position, rest of the page, tickets queued and skipped |
| `job[r][t]`, `held[r][t]`, `asked[s]` | ticket jobs; the state of the row a job has read; what a request has read before its INSERT |
| `ReadPrior`, `InsertRun`, `AlreadyRunning` | `startRun`; `Cursor` is `getLastSuccessfulRunStart`, `NightlySince` what the orchestrator makes of it |
| `BeginWalk`, `FetchPage`, `Upsert`, `SkipTicket`, `HitCap`, `MarkTruncated`, `EndWalk`, `WriteNotes` | `processRun`, cut where others can see the middle; the UPDATE of `truncated` comes before the end of the walk |
| `ReadRow`, `WriteDocument`, `Retry`, `TicketFails` | `processTicket`: the SELECT of the row, then, after comments, allocation and an AI summary, the upsert of the document (`UpsertDocument`); the last job finishes the run |
| `WalkFails`, `Redeliver`, `FailRun` | an error, the death of a worker, watchdog and boot sweep |
| `Edit`, `Index` | the provider |

Times are instants: every edit and every INSERT has one of its own. A provider shows
an edit in its search within `Lag`, and `Lag <= Buffer` is the assumption that
`NIGHTLY_SYNC_SINCE_BUFFER_MINUTES` makes. Three history variables mark what the sync
does not make good: `excused` (a ticket that was skipped or whose job failed for
good; its next edit ends that), `cutoff` (a ticket that a walk stored and then did
not make a job for, because it failed or was redelivered) and `outdated` (a ticket whose current document a
job that had read an older row wrote over). No guard reads them. `MaxDeaths` bounds the deaths of
workers, coordinators and ticket jobs together.

### SyncRuns — how a run comes to its end

| TLA+ | Code |
|---|---|
| `syncRun[r]` | status, `total_tickets`, `processed + failed`, whether any failed, and whether `updated_at` is older than `SYNC_RUN_STALE_MINUTES` |
| `runJob[r]`, `ticketJob[r][t]`, `attempts` | the BullMQ jobs: where their execution is, deliveries and attempts |
| `starting` | requests between the INSERT and `queue.add` |
| `tally`, `runJob[r].deliveries` | history: how often a ticket was counted, the coordinator delivered |
| `InsertSyncRun`, `AddRunJob`, `AddRunJobFails` | `startRun` |
| `MarkRunning`, `ReadPage`, `EndOfPages`, `AddTicketJobs`, `RunJobDone`, `RunJobThrows`, `FailSyncRun` | `processRun` and its `catch`, call by call |
| `TicketProcessed`, `TicketRefused`, `FinishRun`, `TicketThrows`, `OnFailed` | `processTicket`, `recordTicketResult` and the processor's `onFailed` |
| `FailStaleRuns`, `FailInterruptedRuns`, `GoStale` | the watchdog, the boot sweep, time |

What a ticket job writes besides the counters is `SyncPass`'s subject. `MarkRunning`
takes any status, as in the code; only the unique index on active runs holds it
back. `Fault` bounds calls that throw, deaths and boots together.

### Billing — the plan of one workspace

| TLA+ | Code |
|---|---|
| `org` | `plan`, `plan_source`, `stripe_subscription_id`, `stripe_customer_id`, grace window (none, open, or one whose date has passed), end date of a grant, of `organizations` |
| `seen` | `stripe_webhook_events` |
| `work[w]` | where a webhook request or a load of the billing page is, with what it has read |
| `checkout`, `customer`, `stripe` | how far a `createCheckoutSession` or its session is, the Stripe customer it is for, and the states each subscription went through (the last is external) |
| `ResolveCustomer`, `NewCustomer`, `OpenSession`, `RefuseSession` | `createCheckoutSession`: `resolveStripeCustomerId`, which may create a customer and writes it over whichever the row has by then, and `assertNoLiveSubscription` |
| `RecordEvent`, `CompleteCheckout`, `ReadBefore`, `WriteState` | `handleWebhookEvent`, `applySubscriptionState`: the SELECT and the UPDATE that trusts it |
| `DriftCheck`, `RetrieveSubscription`, `ListSubscriptions` | `reconcileDriftedPlan`, from every load of the billing page |
| `ReconcileFromStripe`, `LatestSubscription` | `reconcileFromStripe`: the row's customer, then Stripe's list of its subscriptions |
| `GraceLapses`, `ReadGraceLapses` | time: the date of a window passes, whether it is in the row or only in what an overtaken request has read |
| `AdminGrant`, `ExpireAdminOverride` | the operator's SQL, and its end (`plan-limits`) |
| `Crash` | a webhook request that dies or throws after its event id was recorded |

Event `n` of a subscription tells its `n`-th state, so *any order*, *again* and *never*
are which events `RecordEvent` takes and when. `"active"` stands for all states with Pro,
`"canceled"` for all that are final. Two customers come about as in the code: two tabs that both
find none, or a currency that an unpaid checkout has pinned (`Abandoned`). The grace window follows `applySubscriptionState`:
a date that is there is kept, also one that has passed, and `checkout.session.completed` leaves it in
place; a window has some length (`PLAN_GRACE_DAYS`, 30 by default, is not zero). `work[w].overtaken` is history: another request
wrote the row between this one's SELECT and its UPDATE.

### ResultStore and TestRuns — runs, cases and results

`ResultStore` is what reporters may rely on: runs, and at most one result per case
in each, every change at once: open (one live run per build), attach, report (the latest wins, a
retry is counted: a report on a result that is not `Untested`, so not the first, nor the first after a person
has set the result back), judge, withdraw, close, delete. `TestRuns` is the code, statement by statement.

| TLA+ | Code |
|---|---|
| `cycle[r]` | a row of `cycles`: live or soft-deleted, `external_id`, status, `ended_at`, `closed_at` (`V111`, `V112`) |
| `item`, `exec` | `cycle_items` and `executions`, keyed by run, case and the number of the row |
| `deleting`, `doomed` | runs whose `deleteCycle` transaction is open, and the rows its snapshot has |
| `members`, `leave` | `project_members`; the `removeProjectMember` transactions that are open, whose DELETE and UPDATE others see only at COMMIT |
| `req[q]` | a request: operation, next statement, parameters, what it has read |
| `LookupRun`, `InsertRun`, `InsertLost`, `RelookupRun` | `createRun` of `automation.service.ts` |
| `ReadForAttach`, `InsertItems` | the one statement of `attachCases`: its snapshot, and the rows it writes later |
| `Require`, `UpdateResult`, `CloseRun` | `requireRun`, `recordResult`, `closeRun` |
| `CreateCycle`, `RemoveCases`, `MarkDeleted`, `DeleteCommit`, `CheckItems`, `SaveCycle` | `createCycleForUser`, `removeCycleTestCases`, `deleteCycle`, `updateCycle` of `legacy.service.ts` |
| `ResolveBulk`, `ReadExecution`, `WriteExecution` | `bulkUpdateExecutionStatus`, `bulkAssignExecutions`, `updateExecution` |
| `LinkBug`, `FailExecution` | `failLinkedExecutions` |
| `RemoveProjectMember`, `LeaveCommit`, `LeaveRollback`, `AddProjectMember`, `RemoveWorkspaceMember` | the handlers of `project_members` and of the workspace's members in `legacy.service.ts` |

Statements run in READ COMMITTED; one that meets a row which an open deletion has
locked waits (its guard), and goes on with the committed row. A new row takes any key that
is free (`NextRow`), as a UUID does. The refinement mapping is `StoreRun` and
`StoreResult`: the result of a case is that of its live row of `executions`, and a case
without one has none. `history.late` (rows
added by a statement that overlapped the deletion of their run),
`history.dangling` (assignments whose check or write a removal overtook) and `history.left` (what a person who
left the whole workspace was assigned) are history. `CallUpdateExecution` is the PATCH of the run page, which
may set a status (also `Untested`), an assignee or both.

### Reporter — the SDK and the server

| TLA+ | Code |
|---|---|
| `session[sh]` | a `TesboReporter`: how far it is, the tests that ended, its run id |
| `call[c]`, `late[c]` | a call of `TesboClient.request` at one of its tries; tries the client gave up which the server will still carry out |
| `OnBegin`, `OnTestEnd`, `OnEnd`, `CloseSession` | the hooks; posts are not awaited, `onEnd` drains `inFlight` and closes the run |
| `Answered`, `Refused`, `Timeout`, `ServedLate` | what becomes of a try |
| `CreateRun`, `RecordResult`, `Close` | one step of `ResultStore` each: `TestRuns` has their statements |

A timed-out try was never seen, was carried out, or will be carried out at any
later time, also beside its own retry. Playwright does not wait for `onBegin`, so tests
may end before the run is known; the code drops their results, and so does the model.
A 2xx whose body cannot be read counts as a success that names no run (`client.ts:106`): that session then
posts and closes nothing (`index.ts:255`, `292`, `395`), and one of `Answered`'s outcomes is that.
`mixed` is history: cases of which two results were under way at a time. Two shards may
run tests of one case. Then each can find the other's result where it posted its own,
hence `CleanEndMeansRecorded` asks for a result that *some* shard has posted for the case,
and `LastAttemptStands` speaks of cases that one shard has to itself (`Alone`).

## 4. The runs

| Run | Instance | What it shows |
|---|---|---|
| `runs_safety` | 2 runs, 2 requests, 2 workers, 1 redelivery, symmetry | at most one active run (`OneActiveRun`), findings written at most once per run (`WrittenOnce`), no finished run revived (`NeverRevived`) under crashes, zombies, lost replies and expiries |
| `runs_live` | 2 runs, 1 request, 2 workers, no symmetry, fairness | every run ends (`EveryRunEnds`); `AnalysisRuns` implements `RunRegister` with its fairness |
| `board_reviews` | 1 pair with a row older than `V143`, 2 runs, 1 edit request, 2 suites | `ActionableMatches`, `DecisionsAreFinal`, `KeptMeansSeen` against late writers and other writers of the cases; a rescored finding stays current (`EditedStaysCurrent`) |
| `board_groups` | 3 cases, 3 pairs, cut at 2 findings, 1 candidate per case, 3 contents, no edit request | what is to review comes from one run (`PendingFromOneRun`); a group is never removed in full (`RemovalLeavesAMatch`); a run nothing overtook leaves only live, fresh findings to review, and an exact duplicate that is not cut off is on the board (`RunSettlesBoard`) |
| `pool` | 4 calls, pool of 2 (1 permit), fairness | permits conserved, bounded, never idle while wanted (`PermitsCounted`), granted in arrival order (`ArrivalOrder`); every call is answered although transactions can wait for one another (`EveryCallEnds`) |
| `report_lease` | 2 jobs, 3 executions, 3 attempts, 1 redelivery, symmetry | `OneAnswerPerLapse` under retries, crashes, redeliveries and releases of another's claim |
| `sync_pass` | 2 tickets, 2 runs, cap 1, pages of 2, `Buffer` = `Lag` = 1, 1 death, 5 instants, symmetry | whatever edits, failures and redeliveries happen, a row that is out of date is within reach of tonight's run (`RowsWithinReach`), and so is a document, unless its walk was cut off or an older job wrote over it (`DocumentsWithinReach`) |
| `sync_runs` | 2 runs, the first with 2 tickets, 1 attempt, 2 faults anywhere, fairness | one run in flight although `markRunning` revives failed ones (`OneRunInFlight`); a run that concludes early has counted a ticket twice or ran twice (`ConcludedMeansSettled`); every run ends (`EverySyncRunEnds`) |
| `billing` | 2 checkouts, for 1 customer or 2, 2 states each, 2 events, 1 webhook request, 1 page, fairness | `GrantOutranksDeadSubscription` and `LossOpensGrace` up to lost updates, the latter also up to a deadline that has passed; Pro ends with the last subscription and begins with the first payment of the customer on the row, whatever Stripe delivers (`ProEndsWithSubscription`, `FirstPaymentGivesPro`) |
| `test_runs` | 2 runs, 1 case with 2 rows over time, 1 build, 1 person, any 3 requests, symmetry | one result per case and none without it (`OneResultPerCase`), a deleted run is empty but for statements under way (`DeletedRunIsEmpty`), assignees are members but for overtaken checks and those who left the workspace (`AssigneesAreMembers`), a retried close leaves a reopened run alone (`ReopenedStaysOpen`), and the statements implement `ResultStore` |
| `reporter` | 2 shards, a flaky and a plain test, 2 tries per call, 1 late try, fairness | `ShardsShareRun`, `CleanEndMeansRecorded`, `LastAttemptStands` where no two posts of a case met, `EverySessionEnds` |
| `last_attempt` | the same | section 6 |

Why the bounds are enough. Two runs and two workers are what a zombie of the
first run needs to meet the expiry and the second run; a second redelivery would
bring the job back to a state it has been in. `RunReclaim = 0` and
`RunLease = 1` make the three age classes the code distinguishes (fresh, reclaimable, expired). A
finding involves two cases, hence one pair for races; groups need three
cases, the smallest number at which two findings share a case. Two contents
give equal, similar and, with `WithSteps`, equal-but-empty pairs. Three
cases with a cut at two are the smallest instance where the cut drops one, and with one candidate per case
a project of two has all its pairs proposed and one of three need not; a third content matches nothing, so cases can be edited
apart. Edit requests are not part of that instance: that a removal between the steps of an edit leaves a match
is the theorem's (section 5). Runs are not
recycled (`Runs` bounds their number); reviewers and all other writers are
unbounded.

A pool of two has one permit and four calls leave three to wait for it, the
smallest queue with a middle; two transactions can wait for one another while
others wait behind them. `board_reviews` has one worker: with two, executions
overlap, but only one that still owns its run may commit (`RunRegister`), and the
theorems of section 5 hold for any number of workers. Three executions are a zombie, its
successor and a third that takes what the zombie released; three attempts are
the code's number.

Two tickets with a cap of one make a pass take two runs, the smallest that can be
resumed; a page of two holds a ticket the cap leaves behind; a buffer of one instant
and a lag of one is the smallest index that can hide an edit from a walk. Two faults
let a worker die after it counted a ticket and a replica boot meanwhile. Two
checkouts are two tabs, or a subscription and its successor; one webhook request
and one page are the two writers that can overtake one another. Two events (`MaxEvents`), of the
up to six there are, give two writes of the row in either order, by one subscription's events or by both's; the
others are lost, and the page and the return from checkout write the same states in their place, so what more
events would write is reached too. Three requests on one
case reach a creator, a deleter and a statement between them; the first row of a case
can be removed and a second one inserted. The flaky test brings the two attempts
whose posts can meet, and a second shard the race to create and to close the run.
`MaxRetries`, `MaxRows`, `MaxTime`, `MaxDeaths`, `MaxFaults`, `MaxLate`, `MaxEvents` and `MaxChanges`
bound what the code does not: where one is used up the model stops that
history, it does not change what happens.

Deadlock is checked in `AnalysisRuns`, `ReviewBoard` and `ConnectionPool`, which never
have nothing to do. It is off where the modelled work ends: a reported day whose
jobs are done, the last run of a sync, requests that are all answered, subscriptions
with no state left, sessions that are over.

Fairness (`runs_live`). `WF(Tick)`: time passes. `WF(GetLatestAnalysis)`: the
page of a user who waits for a run polls it every `POLL_MS` = 2500 ms
(`src/Tesbo-Frontend/components/agents/ReviewBoard.tsx:35`), and every poll
expires silent runs. Nothing is assumed of workers, Redis or the request: all may
stop for good. Without a poller a dead run stays active, which harms nobody until
somebody starts the next run, and that handler expires it first.

Fairness (`pool`). Statements end (`statement_timeout`, 30 s by default), a
waiter is served or given up (`connectionTimeoutMillis`, 10 s), a granted call
goes on. `SF(EndTransaction)`: the callback of a transaction issues finitely many
statements, so one that is back in its callback again and again ends. Nothing is
assumed of `Checkout`: even a pool that serves nobody answers every call, with an error.
With either timeout configured as 0 ("disabled") that assumption is void.

Fairness (`sync_runs`). `WF(GoStale)`: time passes. `WF(FailStaleRuns)`: the watchdog is
a repeated job of every replica (`SYNC_WATCHDOG_INTERVAL_MS`). Nothing is assumed of the
coordinator, the ticket jobs or the request.

Fairness (`billing`). A request in progress takes its next step (it may also crash), and the
owner of the workspace keeps opening the billing page, which is when
`reconcileDriftedPlan` runs. That is `SF(DriftCheck)`: the page may be busy with a return from checkout again and
again, but `reconcileFromStripe` ends in `getBillingInfo`, which makes the check. Nothing is assumed of Stripe: it may deliver no event at all.

Fairness (`reporter`). `WF(Client)`: the event loop of the reporter goes on, its timers
fire (`AbortController` in `client.ts`) and Playwright calls its hooks. Nothing is assumed
of the server.

## 5. The proofs

`AnalysisRunsProofs`, `ReviewBoardProofs`, `ConnectionPoolProofs`, `AnalyticsReportProofs`,
`SyncProofs` (for `SyncRuns` and `SyncPass`), `BillingProofs`, `TestRunsProofs` and
`ReporterProofs` hold the theorems. They assume only the named `ASSUME`s of the modules, which
TLC evaluates on every run:

- bounds and timeouts are naturals, positive where zero makes no sense;
  `RunReclaim < RunLease` and, for the sync, `Lag <= Buffer`; the caps on pairs, candidates and events are any naturals;
- null values are not ids; webhook requests are not page loads; ids of runs and cases are
  numbers where their order is used;
- contents and suites are non-empty, and what a reporter may say of a test includes
  `"Failed"` and neither `"Untested"` nor `"Absent"`;
- what is counted is finite: calls, executions, test cases, tickets.

Sets of runs, requests, workers, reviewers, jobs, rows, shards, checkouts and people are otherwise
arbitrary.

The Review Board:

- `RunsTyping`, `BoardTyping`: type correctness, one lemma per variable or group
  of actions.
- `OneActiveRunHolds`, `NeverRevivedHolds`: every step either opens one run when
  none is active or only closes runs (`RunStatus`); both follow from that one
  fact about steps. `OneActiveRun` is inductive given it.
- `WrittenOnceHolds`: not inductive by itself. The strengthening is
  `WrittenIsOver`, every run in the log is terminal; a commit needs a running run
  and makes it terminal, and terminal runs stay so.
- `ImplementsRegister`: every step of `AnalysisRuns` is a step of `RunRegister`
  or a stutter under the refinement mapping. It needs `HeldRunExists`: an
  execution works on a run that was inserted.
- `ActionableMatchesHolds`: inductive through `RowsMatch`: a pending row's fingerprints are those
  of two contents that match. `Fresh` then carries it over to the current contents. `Rescored`
  writes fingerprints that need not match, but onto rows that are `edited`.
- `KeptMeansSeenHolds`: of all steps only `persist` writes fingerprints of a kept row
  (`DecidedRowSteps`), and then `Reopens` decides.
- `DecisionsAreFinalHolds`: through `RemovedIsGone`: the case named by a
  removed row is deleted, and deletion is for ever (`DeletedStays`).
- `RemovalLeavesAMatchHolds`: only `Remove` sets `removed_testcase_id`
  (`GoneSteps`), under `Actionable`, hence by `ActionableMatches`.
- `PendingFromOneRunHolds`: every row that is pending after `persist` was
  written by it.
- `RunSettlesBoardHolds`: a step that closes a run and writes findings is `PersistRun` of the
  execution that moved (`WhoPersists`). Of a pair it reports it knows the contents and suites
  as they are (`UnchangedPair`), so what it writes is fresh (`UpsertedFresh`); a pair it does not
  report is not pending after the sweep. An exact duplicate is proposed whatever the size of the project, and so is any
  match where every pair is (`AllProposed`). What is proposed is reported unless `MaxPairs` matches are
  better: the proposed pairs that outrank it are among the `Better` ones, and finitely many (`UncutReport`). Of
  similar pairs in a larger project the theorem says nothing: the code may never compare them.
- `EditedStaysCurrentHolds`: `EditMark` rescores both fingerprints, and the only other
  step that writes them onto an edited row is a `persist`.

Database access and the analytics report:

- `PoolTyping`, `PermitsCountedHolds`, `ArrivalOrderHolds`: one inductive
  invariant, `PermitInv`. Beside `PermitsCounted` it says that the queue lists exactly the
  calls waiting for a permit, each once (`QueueMatches`), and that whoever is in
  the pool's queue is waiting there (`WaitersWait`): without the first, a
  hand-over could go to a call that has a permit; without the second, a timeout
  could end a call that was served.
- `ReportTyping`, `OneAnswerPerLapseHolds`: the bound on answers is not
  inductive. The strengthening, `ChancesBounded`, counts the *chances* of a
  further answer: executions between claim and post, and, while the day is not
  posted, executions about to release and a claim that is free. Every step keeps
  answers plus chances within one more than the lapses.

Integration sync:

- `SyncTyping`, `OneRunInFlightHolds`: a step moves at most one run into flight, and
  `InsertSyncRun` and `MarkRunning` do so only when no other is (`StatusSteps`).
- `ConcludedMeansSettledHolds`: the property says that a run which concluded has all its
  tickets counted unless a ticket was counted twice or the coordinator delivered twice. The strengthening
  `SettleInv` says per run: as long as no ticket is counted twice, the counters are the number of
  tickets counted (`CountersAgree`); only tickets with a job are counted
  (`JobsBehindCounts`); once there are jobs, the walk is over and the total is the number of
  tickets found (`WalkBehindJobs`). Two finite sets, one within the other and of one size,
  are equal, so who finds counters and total equal finds all tickets counted (`EndBehindCounts`).
- `RowsWithinReachHolds`: the property speaks of the next run only. The strengthening
  `PassInv` speaks of every walk's position. A *stale* ticket, one whose row is out
  of date and that is not excused, was edited since the window of the run less
  the buffer, or is still ahead of the walk, or is on the page about to be stored
  (`WalkedFresh`). So a run that has walked to the end, or has jobs, covers its window
  (`DoneCovered`); the cursor is the window of such a run, and every `since` that was derived
  from a cursor, also one a request has read and not yet inserted, reaches all stale tickets
  (`SinceReached`). `Lag <= Buffer` enters where a page is read: a ticket that the search
  does not show yet was edited after the window less the buffer (`InTime`). A run that does not
  exist has done nothing (`AbsentIdle`), without which an id could begin its life covered.
- `DocumentsWithinReachHolds`: a stored ticket whose document is out of date has a job to come or one that has
  read the current row, or is queued for one by a walk (`Pending`, `DocToCome`, `QueueWalks`), or it is
  `excused`, `cutoff` or `outdated`. The hard case is a job that has read an older row: it writes last only
  over a document that was current, which is `outdated`, or over one that somebody else still has to
  write. What is not stored is the subject of `RowsWithinReach`.

Billing:

- `GrantOutranksDeadSubscriptionHolds`, `LossOpensGraceHolds`: both are about the
  UPDATE, and what it relies on was read by an earlier statement. The inductive invariant
  `BillingInv` says that a request about to write, whose row nobody has written since, has read
  what is still true: no grant stands against it, and its grace window is the one the row
  calls for, open or lapsed alike (`ReadsCurrent`). Hence Pro is lost with a window to run, or with the lapsed one
  that the row already had. `SubsExist` says that nobody works on a subscription that Stripe does not have.

Runs and results:

- `TestRunsTyping`, `OneResultPerCaseHolds`, `DeletedRunIsEmptyHolds`, `AssigneesAreMembersHolds`:
  one inductive invariant, `RunsInv`. `RowsInv` is about the tables: an item and its execution live and die
  together, and a cell has at most one live row (`RowsAgree`); an open deletion holds its run and
  has found every live row but those of statements it overlaps (`DeletionsAgree`); an assignee is a member, is
  about to leave in an open transaction, or is accounted for in the history (`AssigneesAgree`). `ReqsInv` is about
  requests, one predicate of one record (`ReqGood`): what a request has checked still holds when it
  writes, or it is marked as overtaken (`Checked`). The two disjuncts of a request's fate
  are why the properties allow for `history.late` and `history.dangling`; `history.left` needs no race.
- `ReopenedStaysOpenHolds`: from `Checked`: a close that is about to write to a reopened run was overtaken.
- `ServerImplementsResultStore`: every statement of `TestRuns` is one step of `ResultStore` or
  a stutter under `StoreRun` and `StoreResult`. It needs `RunsInv`: with two live rows of a case the
  mapping would have to choose, and with a live row in a deleted run a deletion would
  not be one step (`ResultsAgree` reads the mapping off the rows).
- `ShardsShareRunHolds`, `CleanEndMeansRecordedHolds`, `LastAttemptStandsHolds`: one inductive
  invariant, `ReporterInv`. A build has at most one live run, and a shard that knows a run knows that one
  (`OneLiveRun`); what a shard has posted is behind what ended, and it closes only when all its posts
  are settled (`Control`); a post that was answered left a result (`Marked`); and unless posts of a case met,
  nothing of an earlier attempt is under way any more, late tries included, when a later one is
  sent (`InOrder`). The last is what `LastAttemptStands` needs: without it an answered post says nothing of
  what the server still has to apply. It is stated for the posts of one shard, so the theorem is
  about cases that one shard has to itself.

Only model-checked:

- liveness, which is out of the prover's reach: `EveryCallEnds`, `EveryRunEnds`, `EverySyncRunEnds`,
  `ProEndsWithSubscription`, `FirstPaymentGivesPro` and `EverySessionEnds`;
- the fairness of `RunRegister` in `ImplementsRunRegister`, for the same reason: the theorem
  `ImplementsRegister` is its safety part (`ResultStore` has no fairness, so its theorem is all of
  `ImplementsResultStore`);
- the claim that is refuted, `LastAttemptAlwaysStands`.

## 6. What comments claim and the code does not do

One claim is a run that TLC refutes, with the shortest history as its trace:

- `LastAttemptAlwaysStands` — "so the last attempt is what stands"
  (`src/sdk/playwright-reporter/src/index.ts:307`). The posts of two attempts of one
  test are in flight together; the server applies the older one last, no call has
  failed, and the closed run shows the failed first attempt. What does hold is
  `LastAttemptStands`.

Others were met while modelling; the property in brackets is what holds instead.

- "An edited finding is not left reading 'changed since analysis'"
  (`review-board.service.ts:838`): a run that read before the edit and persists after it
  does that (`EditedStaysCurrent`, with that exception).
- "Two reviewers (or a double click) cannot both win" (`:663`): of two edits both texts
  are saved, only the mark is exclusive. "A partial edit must never silently move a
  case out of its suite" (`:776`): a bulk move between the edit's read and write is undone.
- "Pending pairs this run no longer finds become obsolete (the cases were edited apart or
  one is gone)" (`:280`): so does a pair cut off at `MAX_PAIRS_PER_RUN`, and one that `dfCap` or
  `MAX_CANDIDATES_PER_CASE` no longer lets be compared (`review-board.analysis.ts:416`, `453-464`) once others were
  added (`RunSettlesBoard`, for the pairs this cannot happen to).
- "Posted at most once" (`V137_analytics_report_runs.sql:1`, `analytics-report.module.ts:43`): a post that
  timed out after Basecamp stored it is posted again (`OneAnswerPerLapse`). "A crashed
  run's claim goes stale after 15 minutes and a retry can take it" (`V137:6`): BullMQ
  redelivers long before that, the redelivery skips, and no retry is left.
- A ticket that the storage limit refuses is counted as processed and as failed
  (`integration-sync.processor.ts:587`), so its run can conclude early; `markRunning`
  (`integration-sync.service.ts:193`) revives a run that was failed; a walk that is cut off
  leaves stored tickets without a document until their next edit (`integration-sync.processor.ts:203`)
  (`ConcludedMeansSettled`, `OneRunInFlight`, `DocumentsWithinReach`). The first of these exempts the double
  count: it documents it and would not catch it.
- A ticket job that outlives its failed run, and read the row before a newer run stored it again, writes
  its older text over the newer run's document (`integration-sync.processor.ts:479`, `591`); nothing
  fetches the ticket again until its next edit (`DocumentsWithinReach`, `outdated`).
- A workspace that subscribes again after its first subscription ended, and whose events are
  lost, is not repaired: the drift repair looks for an upgrade only while
  `stripe_subscription_id` is null (`billing.service.ts`, `FirstPaymentGivesPro`).
- "Losing Pro: start a countdown" (`billing.service.ts:984`): a deadline that has passed is kept (`:1001`), and
  `checkout.session.completed` (`:456-473`) sets Pro without clearing it. A workspace that was unpaid long ago and
  subscribes again loses Pro with no window when an old event arrives late, or when it cancels before any
  other event of the new subscription was applied (`LossOpensGrace`).
- The "safety net for when they're late, dropped" (`:192`) has a hole for a workspace that is "charged but still on the free
  plan" (`:196`): of two customers that two tabs or a change of currency have
  created (`:895-923`), the row keeps the last. If the session of the other is paid and its events are lost, the
  repair lists the wrong customer (`:250`) and Pro never comes (`FirstPaymentGivesPro`). For the same reason, and because
  `assertNoLiveSubscription` (`:869`) looks before the other tab has paid, two subscriptions may be billed at once.
- A person removed from a project is unassigned from its executions (`legacy.service.ts:4057`); one who is
  removed from the workspace is not (`:2664`; `AssigneesAreMembers`, `history.left`).
- The EXISTS of `attachCases` closes the window after `requireRun`, not the one inside the
  statement (`automation.service.ts:386`, `legacy.service.ts:6958`; `DeletedRunIsEmpty`). Bulk
  updates are written row by row (`legacy.service.ts:7151`), and the check of an assignee
  is not repeated by the write (`:7370`; `AssigneesAreMembers`).
- Results of tests that end before `onBegin`'s request is answered are dropped
  (`src/sdk/playwright-reporter/src/index.ts:292`; `CleanEndMeansRecorded` speaks of posted results).

## 7. What is not modelled

Listed per component in `PROJECT.json`, with the reason. In short:

- Data without control: scoring and text normalisation (the constants of `ReviewBoard`
  stand for them), layouts, formats, e-mails, currencies, invoices, evidence files,
  listings, audit entries and history rows (append-only, read by no transition).
- Parts of modelled components: the nightly cycle index (`V90`), connecting and
  disconnecting a provider, `importRunHistory`, the cascades of a deleted project,
  portals of Stripe, the reporter's configuration and its check of case ids.
- Components with state that no module has yet: RAG embedding and retrieval, authentication
  (codes, lockout, reset tokens, sessions), caches, the counts of the plan limits, Nyra,
  the Zyra archive, due-date and welcome-mail sweeps. Known to be exposed there, and covered by nothing yet: a count that is read
  before the INSERT it allows (plan limits), a cache filled with what was read before a sign-out or a change of plan,
  and Nyra approvals that write on connections outside their transaction. Section 2 says which are worth a module.
- Parts without a life cycle of their own: the MCP adapter, custom fields, setup,
  administration, configuration, storage, deployment. The front end keeps view state only;
  one of its timers is used, as the reason for a fairness assumption.
- Most of the repository's lines are such pages, controllers and CRUD: the modules cover
  the parts in which an order of events can go wrong, not a share of the lines.
