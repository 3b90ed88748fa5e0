------------------------------ MODULE Reporter ------------------------------
(***************************************************************************)
(* The Playwright reporter (sdk/playwright-reporter) together with the     *)
(* server it reports to: the shards of one CI build open a run, post every *)
(* result without waiting for it, and close the run when the suite is      *)
(* over.                                                                   *)
(*                                                                         *)
(* A call is tried Tries times.  A try may be lost, its answer may be      *)
(* lost, and one that the client has given up may still be carried out on  *)
(* the server at any later time, in one step of ResultStore (TestRuns has  *)
(* its statements).  Playwright need not wait for the promise of onBegin:  *)
(* tests may end before the run is known.  Left out: the configuration,    *)
(* the tags, the check of case ids (it only warns) and evidence.           *)
(***************************************************************************)
EXTENDS ResultStore, Sequences

CONSTANTS Shards,  \* the processes of the build
          Suite,   \* the attempts of each shard, in order: case, status, retry
          Build,   \* their external id
          Tries,   \* DEFAULT_RETRIES
          MaxLate, \* bound on the tries that are carried out but time out
          NoRun    \* no id yet

ASSUME ReporterAssumption ==
    /\ Build \in Builds /\ Tries \in Nat \ {0} /\ MaxLate \in Nat /\ NoRun \notin Runs
    /\ MaxRetries \in Nat /\ "Absent" \notin Statuses
    /\ \A sh \in Shards : Suite[sh] \in Seq([case : Cases, status : Statuses, retry : 0..MaxRetries])

Attempts(sh) == 1..Len(Suite[sh])

(* Call 0 of a shard is createRun, call n its n-th result, the last one    *)
(* closeRun.                                                               *)
CallsOf(sh) == {sh} \X (0..Len(Suite[sh]) + 1)
Calls == UNION {CallsOf(sh) : sh \in Shards}

VARIABLES session,  \* how far each shard is, the tests that ended, its run
          call,     \* the calls of TesboClient.request; a sent one is at a try
          late,     \* tries given up by the client which the server will carry out
          lapses,   \* how many there have been
          mixed     \* history: cases with two results under way at a time

reporterVars == <<run, result, session, call, late, lapses, mixed>>

ReporterInit ==
    /\ StoreInit /\ \A r \in Runs : run[r] = [state |-> "none", build |-> NoBuild, closed |-> FALSE]
    /\ \A p \in Runs \X Cases : result[p] = Absent
    /\ session = [sh \in Shards |-> [pc |-> "begin", ended |-> 0, run |-> NoRun]]
    /\ call = [c \in Calls |-> [state |-> "idle", try |-> 0]]
    /\ late = [c \in Calls |-> 0] /\ lapses = 0 /\ mixed = {}

-----------------------------------------------------------------------------
(* What the server does with a try                                         *)

(* gen_random_uuid(): ids are interchangeable.                             *)
NewId == CHOOSE r \in Runs : run[r].state = "none"

(* The index forgotten *)
CreateRunAlways(cs) ==
    /\ \E r \in Runs : run[r].state = "none"
    /\ run' = [run EXCEPT ![NewId] = [state |-> "live", build |-> Build, closed |-> FALSE]]
    /\ result' = WithCases(NewId, cs)

CreateRun(cs) ==
    \/ \E r \in LiveRuns(Build) : Attach(r, cs)
    \/ LiveRuns(Build) = {} /\ Open(NewId, Build, cs)

RetryCount(a) == a.retry

(* The first result kept *)
ReportFirst(r, a) ==
    IF result[<<r, a.case>>].status \in {"Absent", "Untested"}
    THEN Report(r, a.case, a.status, RetryCount(a)) ELSE UNCHANGED storeVars

RecordResult(r, a) == Report(r, a.case, a.status, RetryCount(a))

Serve(sh, n) ==
    \/ n = 0 /\ CreateRun({Suite[sh][m].case : m \in Attempts(sh)})
    \/ n \in Attempts(sh) /\ RecordResult(session[sh].run, Suite[sh][n])
    \/ n = Len(Suite[sh]) + 1 /\ Close(session[sh].run)

-----------------------------------------------------------------------------
(* TesboClient.request                                                     *)

Settled(c) == call[c].state \in {"idle", "ok", "failed"}

(* The results of the case of attempt n that may yet reach the server.     *)
Rivals(sh, n) ==
    {m \in Attempts(sh) \ {n} : /\ n \in Attempts(sh) /\ Suite[sh][m].case = Suite[sh][n].case
                                /\ call[<<sh, m>>].state = "sent" \/ late[<<sh, m>>] > 0}

(* The first try of a call                                                 *)
Post(sh, n) ==
    /\ call' = [call EXCEPT ![<<sh, n>>] = [state |-> "sent", try |-> 1]]
    /\ mixed' = mixed \cup {Suite[sh][m].case : m \in Rivals(sh, n)}
    /\ UNCHANGED <<storeVars, late, lapses>>

(* What the reporter does with the outcome of a call: it knows its run, or *)
(* is disabled, or is done; a result's outcome only counts.  A session     *)
(* that has ended does not come back.  A 2xx whose body cannot be read is  *)
(* a success that names no run: the session reports and closes nothing.    *)
Resume(sh, n, ok) ==
    \/ /\ n = 0 /\ ok
       /\ \E r \in LiveRuns(Build)' :
            session' = [session EXCEPT ![sh].run = r, ![sh].pc = IF @ = "creating" THEN "testing" ELSE @]
    \/ n = 0 /\ ok /\ UNCHANGED session
    \/ /\ n = 0 /\ ~ok
       /\ session' = [session EXCEPT ![sh].pc = IF @ = "creating" THEN "disabled" ELSE @]
    \/ n \in Attempts(sh) /\ UNCHANGED session
    \/ n = Len(Suite[sh]) + 1 /\ session' = [session EXCEPT ![sh].pc = "done"]

(* The server carries the try out and its answer comes in time.            *)
Answered(sh, n) ==
    /\ call[<<sh, n>>].state = "sent"
    /\ Serve(sh, n) /\ Resume(sh, n, TRUE)
    /\ call' = [call EXCEPT ![<<sh, n>>].state = "ok"]
    /\ UNCHANGED <<late, lapses, mixed>>

(* A status that is not retried, from a server that did nothing.           *)
Refused(sh, n) ==
    /\ call[<<sh, n>>].state = "sent"
    /\ call' = [call EXCEPT ![<<sh, n>>].state = "failed"]
    /\ Resume(sh, n, FALSE)
    /\ UNCHANGED <<storeVars, late, lapses, mixed>>

(* A call without a timeout *)
TimeoutNever(sh, n) == FALSE /\ UNCHANGED reporterVars

(* The timer fires, the connection breaks or the server answers 5xx, and   *)
(* the next try is sent after a pause.  The server never sees this one, or *)
(* its answer was too late, or it will still carry it out.                 *)
Timeout(sh, n) ==
    LET c == <<sh, n>>
    IN  /\ call[c].state = "sent"
        /\ \/ UNCHANGED <<late, lapses>>
           \/ lapses < MaxLate /\ late' = [late EXCEPT ![c] = @ + 1] /\ lapses' = lapses + 1
        /\ \/ /\ call[c].try < Tries
              /\ call' = [call EXCEPT ![c].try = @ + 1]
              /\ UNCHANGED session
           \/ /\ call[c].try = Tries
              /\ call' = [call EXCEPT ![c].state = "failed"]
              /\ Resume(sh, n, FALSE)
        /\ UNCHANGED <<storeVars, mixed>>

(* The server carries out a try that nobody waits for.                     *)
ServedLate(sh, n) ==
    /\ late[<<sh, n>>] > 0
    /\ Serve(sh, n)
    /\ late' = [late EXCEPT ![<<sh, n>>] = @ - 1]
    /\ UNCHANGED <<session, call, lapses, mixed>>

-----------------------------------------------------------------------------
(* The hooks Playwright calls                                              *)

OnBegin(sh) ==
    /\ session[sh].pc = "begin"
    /\ session' = [session EXCEPT ![sh].pc = "creating"]
    /\ Post(sh, 0)

OnTestEnd(sh) ==
    /\ session[sh].ended < Len(Suite[sh])
    /\ session' = [session EXCEPT ![sh].ended = @ + 1]
    /\ \/ session[sh].pc = "testing" /\ Post(sh, session[sh].ended + 1)
       \/ session[sh].pc = "creating" /\ UNCHANGED <<storeVars, call, late, lapses, mixed>>

(* The suite is over, or was interrupted: nothing is waited for or closed  *)
(* if there is no run yet.                                                 *)
OnEnd(sh) ==
    /\ \/ session[sh].pc = "testing" /\ session' = [session EXCEPT ![sh].pc = "draining"]
       \/ session[sh].pc = "creating" /\ session' = [session EXCEPT ![sh].pc = "unreported"]
    /\ UNCHANGED <<storeVars, call, late, lapses, mixed>>

(* The results not waited for *)
DrainedNot(sh) == TRUE

(* Promise.allSettled(this.inFlight)                                       *)
Drained(sh) == \A n \in Attempts(sh) : Settled(<<sh, n>>)

CloseSession(sh) ==
    /\ session[sh].pc = "draining" /\ Drained(sh)
    /\ session' = [session EXCEPT ![sh].pc = "closing"]
    /\ Post(sh, Len(Suite[sh]) + 1)

-----------------------------------------------------------------------------
Client(sh) ==
    \/ OnBegin(sh) \/ OnTestEnd(sh) \/ OnEnd(sh) \/ CloseSession(sh)
    \/ \E n \in 0..Len(Suite[sh]) + 1 : Timeout(sh, n)

Server(sh) == \E n \in 0..Len(Suite[sh]) + 1 : Answered(sh, n) \/ Refused(sh, n) \/ ServedLate(sh, n)

ReporterNext == \E sh \in Shards : Client(sh) \/ Server(sh)

(* The event loop of the reporter goes on, its timers fire and Playwright  *)
(* calls its hooks.  Of the server nothing is assumed.                     *)
ReporterSpec == ReporterInit /\ [][ReporterNext]_reporterVars /\ \A sh \in Shards : WF_reporterVars(Client(sh))

-----------------------------------------------------------------------------
(* "A hung Tesbo must not hold a CI job open" (client.ts): every session   *)
(* comes to its end whatever the server does or does not.                  *)
EverySessionEnds == \A sh \in Shards : <>(session[sh].pc \in {"done", "disabled", "unreported"})

(* "Every shard of one CI attempt shares an idempotency key, so they       *)
(* converge on a single run" (README of the reporter), also when their     *)
(* createRun calls race, time out and are tried again.                     *)
ShardsShareRun ==
    \A sh1, sh2 \in Shards : NoRun \in {session[sh1].run, session[sh2].run} \/ session[sh1].run = session[sh2].run

(* The results the reporter has posted                                     *)
Posted(sh) == {n \in Attempts(sh) : call[<<sh, n>>].state # "idle"}

Clean(sh) == session[sh].pc = "done" /\ \A c \in CallsOf(sh) : call[c].state # "failed"

(* A session that ends without a failed call has its run closed and, for   *)
(* every case it reported, a result in it that a shard has posted for that *)
(* case: no post is lost silently, also when another shard closed the run  *)
(* first.                                                                  *)
CleanEndMeansRecorded ==
    \A sh \in Shards :
        Clean(sh) =>
          /\ run[session[sh].run].closed
          /\ \A n \in Posted(sh) : \E sh2 \in Shards : \E m \in Posted(sh2) :
               /\ Suite[sh2][m].case = Suite[sh][n].case
               /\ result[<<session[sh].run, Suite[sh][n].case>>].status = Suite[sh2][m].status

(* The last attempt n of its case                                          *)
IsLast(sh, n) == \A m \in Posted(sh) : m > n => Suite[sh][m].case # Suite[sh][n].case

(* No other shard runs a test of case t.                                   *)
Alone(sh, t) == \A sh2 \in Shards \ {sh} : \A m \in Attempts(sh2) : Suite[sh2][m].case # t

Stands(sh, n) ==
    result[<<session[sh].run, Suite[sh][n].case>>] = [status |-> Suite[sh][n].status, retries |-> Suite[sh][n].retry]

(* "The last attempt is what stands" (onTestEnd), with as many retries as  *)
(* Playwright made however often it was delivered, if its post was         *)
(* answered, no other attempt of the case was under way when it was sent,  *)
(* and the tests of the case are all in one shard.                         *)
LastAttemptStands ==
    \A sh \in Shards : \A n \in Posted(sh) :
        /\ Alone(sh, Suite[sh][n].case) /\ IsLast(sh, n)
        /\ call[<<sh, n>>].state = "ok" /\ Suite[sh][n].case \notin mixed
        => Stands(sh, n)

(* "so the last attempt is what stands" (index.ts): in a run its reporter  *)
(* has closed without a failed call, whatever order the posts arrived in.  *)
LastAttemptAlwaysStands ==
    \A sh \in Shards : \A n \in Posted(sh) : Clean(sh) /\ IsLast(sh, n) => Stands(sh, n)

=============================================================================
