--------------------------- MODULE ReporterProofs ---------------------------
(***************************************************************************)
(* Theorems about the reporter and its server, for any number of shards,   *)
(* any suites and retries, and any calls lost, late or tried again.        *)
(***************************************************************************)
EXTENDS Reporter, TLAPS

-----------------------------------------------------------------------------
(* The invariants                                                          *)

Attempt == [case : Cases, status : Statuses, retry : 0..MaxRetries]
RunRow == [state : {"none", "live"}, build : Builds \cup {NoBuild}, closed : BOOLEAN]
ResultRow == [status : Statuses \cup {"Absent", "Untested"}, retries : Nat]
SessionRow == [pc : {"begin", "creating", "testing", "disabled", "draining", "unreported", "closing", "done"},
               ended : Nat, run : Runs \cup {NoRun}]
CallRow == [state : {"idle", "sent", "ok", "failed"}, try : Nat]

StoreTyped == run \in [Runs -> RunRow] /\ result \in [Runs \X Cases -> ResultRow]

ReporterTyped ==
    /\ StoreTyped
    /\ session \in [Shards -> SessionRow]
    /\ call \in [Calls -> CallRow]
    /\ late \in [Calls -> Nat]

(* A build has one run at a time, and its shards know no other.            *)
OneLiveRun ==
    /\ \A r1, r2 \in LiveRuns(Build) : r1 = r2
    /\ \A sh \in Shards : session[sh].run \in LiveRuns(Build) \cup {NoRun}

CallNos(sh) == 0..Len(Suite[sh]) + 1
CloseNo(sh) == Len(Suite[sh]) + 1

(* What a shard has posted is behind what ended, it posts results and      *)
(* closes only with a run, and closes only when all its posts are settled. *)
Control(sh) ==
    /\ session[sh].ended <= Len(Suite[sh])
    /\ session[sh].pc \in {"testing", "draining"} => session[sh].run # NoRun
    /\ \A n \in CallNos(sh) \ {0} : call[<<sh, n>>].state # "idle" => session[sh].run # NoRun
    /\ \A n \in Attempts(sh) : call[<<sh, n>>].state # "idle" => n <= session[sh].ended
    /\ call[<<sh, CloseNo(sh)>>].state # "idle" <=> session[sh].pc \in {"closing", "done"}
    /\ session[sh].pc = "done" => call[<<sh, CloseNo(sh)>>].state # "sent"
    /\ session[sh].pc \in {"closing", "done"} => Drained(sh)
    /\ \A n \in CallNos(sh) : late[<<sh, n>>] > 0 => call[<<sh, n>>].state # "idle"

Recorded(r, t) ==
    \E sh \in Shards : \E m \in Attempts(sh) :
        call[<<sh, m>>].state # "idle" /\ Suite[sh][m].case = t /\ result[<<r, t>>].status = Suite[sh][m].status

(* An answered call has left its mark on the server.                       *)
Marked(sh) ==
    /\ call[<<sh, CloseNo(sh)>>].state = "ok" => run[session[sh].run].closed
    /\ \A n \in Attempts(sh) : call[<<sh, n>>].state = "ok" => Recorded(session[sh].run, Suite[sh][n].case)

Over(sh, m) == call[<<sh, m>>].state # "sent" /\ late[<<sh, m>>] = 0

(* Unless posts of a case have met, nothing of an earlier attempt is under *)
(* way any more, and the last one stands once it is answered.              *)
InOrder(sh) ==
    \A n \in Attempts(sh) :
        call[<<sh, n>>].state # "idle" /\ Suite[sh][n].case \notin mixed =>
          /\ \A m \in Attempts(sh) : m < n /\ Suite[sh][m].case = Suite[sh][n].case => Over(sh, m)
          /\ Alone(sh, Suite[sh][n].case) /\ IsLast(sh, n) /\ call[<<sh, n>>].state = "ok" => Stands(sh, n)

ReporterInv ==
    /\ ReporterTyped /\ OneLiveRun
    /\ \A sh \in Shards : Control(sh) /\ Marked(sh) /\ InOrder(sh)

-----------------------------------------------------------------------------
(* The suites and the numbers of the calls                                  *)

LEMMA SuiteTyped ==
  ASSUME NEW sh \in Shards
  PROVE  /\ Len(Suite[sh]) \in Nat
         /\ \A n \in Attempts(sh) : /\ Suite[sh][n] \in Attempt
                                    /\ n \in Nat /\ n \in CallNos(sh) \ {0} /\ n # CloseNo(sh)
         /\ \A n \in CallNos(sh) : n \in Nat /\ <<sh, n>> \in Calls /\ (n = 0 \/ n \in Attempts(sh) \/ n = CloseNo(sh))
         /\ 0 \in CallNos(sh) /\ 0 \notin Attempts(sh)
         /\ CloseNo(sh) \in CallNos(sh) \ {0} /\ CloseNo(sh) \notin Attempts(sh)
<1>1. Suite[sh] \in Seq(Attempt)
  BY ReporterAssumption DEF Attempt
<1>2. Len(Suite[sh]) \in Nat /\ \A n \in 1..Len(Suite[sh]) : Suite[sh][n] \in Attempt
  BY <1>1
<1>3. \A n \in CallNos(sh) : <<sh, n>> \in Calls
  BY DEF Calls, CallsOf, CallNos
<1> QED
  BY <1>2, <1>3 DEF Attempts, CallNos, CloseNo

LEMMA AttemptTyped ==
  ASSUME NEW sh \in Shards, NEW n \in Attempts(sh)
  PROVE  /\ Suite[sh][n].case \in Cases /\ Suite[sh][n].status \in Statuses
         /\ Suite[sh][n].retry \in Nat /\ Suite[sh][n].retry # NoRetry
<1>1. Suite[sh][n] \in Attempt
  BY SuiteTyped
<1> QED
  BY <1>1, ReporterAssumption DEF Attempt, NoRetry

LEMMA InitHolds == ReporterInit => ReporterInv
<1> SUFFICES ASSUME ReporterInit PROVE ReporterInv
  OBVIOUS
<1>1. ReporterTyped
  <2>1. /\ [state |-> "none", build |-> NoBuild, closed |-> FALSE] \in RunRow /\ Absent \in ResultRow
        /\ [pc |-> "begin", ended |-> 0, run |-> NoRun] \in SessionRow /\ [state |-> "idle", try |-> 0] \in CallRow
    BY DEF RunRow, ResultRow, SessionRow, CallRow, Absent
  <2>2. StoreTyped
    BY <2>1 DEF ReporterInit, StoreInit, StoreTyped
  <2> QED
    BY <2>1, <2>2 DEF ReporterInit, ReporterTyped
<1>2. OneLiveRun
  BY DEF ReporterInit, OneLiveRun, LiveRuns
<1>3. ASSUME NEW sh \in Shards PROVE Control(sh) /\ Marked(sh) /\ InOrder(sh)
  <2>1. session[sh] = [pc |-> "begin", ended |-> 0, run |-> NoRun]
    BY DEF ReporterInit
  <2>2. \A n \in CallNos(sh) : call[<<sh, n>>].state = "idle" /\ late[<<sh, n>>] = 0
    BY SuiteTyped DEF ReporterInit
  <2>3. Control(sh)
    BY <2>1, <2>2, SuiteTyped DEF Control
  <2>4. Marked(sh) /\ InOrder(sh)
    BY <2>2, SuiteTyped DEF Marked, InOrder
  <2> QED
    BY <2>3, <2>4
<1> QED
  BY <1>1, <1>2, <1>3 DEF ReporterInv

-----------------------------------------------------------------------------
(* What the server does with a try                                          *)

(* Attaching cases and opening a run add fresh results and change no other. *)
Fills == \A p \in Runs \X Cases : result'[p] = result[p] \/ (result[p] = Absent /\ result'[p] = Fresh)

LEMMA WithCasesTyped ==
  ASSUME StoreTyped, NEW r, NEW ts, result' = WithCases(r, ts)
  PROVE  Fills /\ result' \in [Runs \X Cases -> ResultRow]
<1>1. Fresh \in ResultRow
  BY DEF Fresh, ResultRow
<1> QED
  BY <1>1 DEF StoreTyped, WithCases, Fills

LEMMA CreateRunFacts ==
  ASSUME StoreTyped, OneLiveRun, NEW cs, CreateRun(cs)
  PROVE  /\ StoreTyped' /\ Fills
         /\ LiveRuns(Build) \subseteq LiveRuns(Build)' /\ \A r1, r2 \in LiveRuns(Build)' : r1 = r2
         /\ \A r \in LiveRuns(Build) : run'[r] = run[r]
<1>1. CASE \E r \in LiveRuns(Build) : Attach(r, cs)
  BY <1>1, WithCasesTyped DEF Attach, LiveRuns, OneLiveRun, StoreTyped
<1>2. CASE LiveRuns(Build) = {} /\ Open(NewId, Build, cs)
  <2>1. [state |-> "live", build |-> Build, closed |-> FALSE] \in RunRow
    BY ReporterAssumption DEF RunRow
  <2>2. run' = [run EXCEPT ![NewId] = [state |-> "live", build |-> Build, closed |-> FALSE]] /\ result' = WithCases(NewId, cs)
    BY <1>2 DEF Open
  <2>3. StoreTyped' /\ Fills
    BY <2>1, <2>2, WithCasesTyped DEF StoreTyped
  <2>4. \A r \in LiveRuns(Build)' : r = NewId
    BY <1>2, <2>2 DEF LiveRuns, StoreTyped
  <2> QED
    BY <1>2, <2>3, <2>4
<1> QED
  BY <1>1, <1>2 DEF CreateRun

LEMMA RecordResultFacts ==
  ASSUME StoreTyped, NEW sh \in Shards, NEW n \in Attempts(sh), NEW r \in Runs, RecordResult(r, Suite[sh][n])
  PROVE  /\ StoreTyped' /\ run' = run
         /\ result'[<<r, Suite[sh][n].case>>] = [status |-> Suite[sh][n].status, retries |-> Suite[sh][n].retry]
         /\ \A p \in Runs \X Cases : p # <<r, Suite[sh][n].case>> => result'[p] = result[p]
<1> DEFINE new == [status |-> Suite[sh][n].status, retries |-> Suite[sh][n].retry]
<1>1. new \in ResultRow
  BY AttemptTyped DEF ResultRow
<1>2. result' = [result EXCEPT ![<<r, Suite[sh][n].case>>] = new] /\ run' = run
  BY AttemptTyped DEF RecordResult, RetryCount, Report, Reported
<1>3. <<r, Suite[sh][n].case>> \in Runs \X Cases
  BY AttemptTyped
<1> QED
  BY <1>1, <1>2, <1>3 DEF StoreTyped

(* All that a try changes on the server, whoever waits for it.             *)
LEMMA ServeFacts ==
  ASSUME ReporterTyped, OneLiveRun, NEW sh \in Shards, Control(sh), NEW n \in CallNos(sh),
         call[<<sh, n>>].state # "idle", Serve(sh, n)
  PROVE  /\ StoreTyped'
         /\ LiveRuns(Build) \subseteq LiveRuns(Build)' /\ \A r1, r2 \in LiveRuns(Build)' : r1 = r2
         /\ \A r \in LiveRuns(Build) : run[r].closed => run'[r].closed
         /\ n = CloseNo(sh) => run'[session[sh].run].closed
         /\ n \in Attempts(sh) => result'[<<session[sh].run, Suite[sh][n].case>>] = [status |-> Suite[sh][n].status, retries |-> Suite[sh][n].retry]
         /\ \A p \in Runs \X Cases : \/ result'[p] = result[p]
                                     \/ result[p] = Absent
                                     \/ n \in Attempts(sh) /\ p = <<session[sh].run, Suite[sh][n].case>>
<1> DEFINE r0 == session[sh].run
<1>0. StoreTyped /\ (n # 0 => r0 \in LiveRuns(Build) /\ r0 \in Runs)
  BY DEF ReporterTyped, OneLiveRun, Control, LiveRuns
<1>1. CASE n = 0
  <2>1. CreateRun({Suite[sh][m].case : m \in Attempts(sh)})
    BY <1>1, SuiteTyped DEF Serve
  <2> QED
    BY <1>0, <1>1, <2>1, CreateRunFacts, SuiteTyped DEF Fills
<1>2. CASE n \in Attempts(sh)
  <2>1. RecordResult(r0, Suite[sh][n])
    BY <1>2, SuiteTyped DEF Serve, CloseNo
  <2>2. n # 0 /\ n # CloseNo(sh)
    BY <1>2, SuiteTyped
  <2>3. LiveRuns(Build)' = LiveRuns(Build)
    BY <1>0, <1>2, <2>1, <2>2, RecordResultFacts DEF LiveRuns
  <2> QED
    BY <1>0, <1>2, <2>1, <2>2, <2>3, RecordResultFacts DEF OneLiveRun
<1>3. CASE n = CloseNo(sh)
  <2>1. Close(r0)
    BY <1>3, SuiteTyped DEF Serve, CloseNo
  <2>2. n # 0 /\ n \notin Attempts(sh)
    BY <1>3, SuiteTyped
  <2>3. run' = [run EXCEPT ![r0] = [run[r0] EXCEPT !.closed = TRUE]] /\ result' = result /\ r0 \in Runs
    BY <1>0, <2>1, <2>2 DEF Close, StoreTyped
  <2>4. [run[r0] EXCEPT !.closed = TRUE] \in RunRow /\ run[r0] \in RunRow
    BY <1>0, <2>3 DEF StoreTyped, RunRow
  <2>5. StoreTyped'
    BY <1>0, <2>3, <2>4 DEF StoreTyped
  <2>6. \A r \in Runs : run'[r].state = run[r].state /\ run'[r].build = run[r].build /\ (run[r].closed => run'[r].closed)
    BY <1>0, <2>3, <2>4 DEF StoreTyped, RunRow
  <2>7. run'[r0].closed
    BY <1>0, <2>3, <2>4 DEF StoreTyped, RunRow
  <2>8. LiveRuns(Build)' = LiveRuns(Build)
    BY <2>6 DEF LiveRuns
  <2> QED
    BY <1>3, <2>2, <2>3, <2>5, <2>6, <2>7, <2>8 DEF OneLiveRun, LiveRuns
<1> QED
  BY <1>1, <1>2, <1>3, SuiteTyped

-----------------------------------------------------------------------------
(* What a step of shard sh, or of the server for it, may do                 *)

Apart(sh) ==
    \A s2 \in Shards \ {sh} :
        /\ session'[s2] = session[s2]
        /\ \A m \in CallNos(s2) : call'[<<s2, m>>] = call[<<s2, m>>] /\ late'[<<s2, m>>] = late[<<s2, m>>]

RunsKept ==
    /\ LiveRuns(Build) \subseteq LiveRuns(Build)' /\ \A r1, r2 \in LiveRuns(Build)' : r1 = r2
    /\ \A r \in LiveRuns(Build) : run[r].closed => run'[r].closed

KnowsRun(sh) ==
    /\ session'[sh].run \in LiveRuns(Build)' \cup {NoRun}
    /\ session[sh].run # NoRun => session'[sh].run = session[sh].run

Outcome(sh, n) == [status |-> Suite[sh][n].status, retries |-> Suite[sh][n].retry]

(* A result is written by a post that is under way, or was absent.         *)
Writes(sh) ==
    \A p \in Runs \X Cases :
        \/ result'[p] = result[p]
        \/ result[p] = Absent
        \/ \E n \in Attempts(sh) : /\ ~Over(sh, n) /\ call[<<sh, n>>].state # "idle"
                                   /\ p = <<session[sh].run, Suite[sh][n].case>> /\ result'[p] = Outcome(sh, n)

Answers(sh) ==
    /\ \A n \in Attempts(sh) : call'[<<sh, n>>].state = "ok" /\ call[<<sh, n>>].state # "ok" =>
          call[<<sh, n>>].state = "sent" /\ result'[<<session[sh].run, Suite[sh][n].case>>] = Outcome(sh, n)
    /\ call'[<<sh, CloseNo(sh)>>].state = "ok" /\ call[<<sh, CloseNo(sh)>>].state # "ok" =>
          call[<<sh, CloseNo(sh)>>].state = "sent" /\ run'[session[sh].run].closed

(* Only the next result is posted, and what it meets is noted.             *)
Posts(sh) ==
    /\ mixed \subseteq mixed'
    /\ \A n \in Attempts(sh) :
        /\ call'[<<sh, n>>].state = "idle" => call[<<sh, n>>].state = "idle"
        /\ call[<<sh, n>>].state = "idle" /\ call'[<<sh, n>>].state # "idle" =>
             /\ call'[<<sh, n>>].state = "sent" /\ n = session[sh].ended + 1
             /\ {Suite[sh][m].case : m \in Rivals(sh, n)} \subseteq mixed'
        /\ Over(sh, n) => (Over(sh, n)' \/ call[<<sh, n>>].state = "idle")

Moves(sh) == Apart(sh) /\ RunsKept /\ KnowsRun(sh) /\ Writes(sh) /\ Answers(sh) /\ Posts(sh)

(* A step that writes one call                                             *)
SetsCall(sh, n, st) ==
    /\ call' \in [Calls -> CallRow] /\ call'[<<sh, n>>].state = st
    /\ \A s2 \in Shards : \A m \in CallNos(s2) : s2 # sh \/ m # n => call'[<<s2, m>>] = call[<<s2, m>>]

LEMMA SetsCallHolds ==
  ASSUME ReporterTyped, NEW sh \in Shards, NEW n \in CallNos(sh), NEW x \in CallRow,
         call' = [call EXCEPT ![<<sh, n>>] = x]
  PROVE  SetsCall(sh, n, x.state)
<1>1. <<sh, n>> \in Calls /\ \A s2 \in Shards : \A m \in CallNos(s2) : <<s2, m>> \in Calls
  BY SuiteTyped
<1>2. call' \in [Calls -> CallRow] /\ call'[<<sh, n>>] = x
  BY <1>1 DEF ReporterTyped
<1>3. \A d \in Calls : d # <<sh, n>> => call'[d] = call[d]
  BY DEF ReporterTyped
<1> QED
  BY <1>1, <1>2, <1>3 DEF SetsCall

LEMMA PostFacts ==
  ASSUME ReporterTyped, NEW sh \in Shards, NEW n \in CallNos(sh), Post(sh, n)
  PROVE  SetsCall(sh, n, "sent")
<1>1. [state |-> "sent", try |-> 1] \in CallRow
  BY DEF CallRow
<1> QED
  BY <1>1, SetsCallHolds DEF Post

LEMMA StateFacts ==
  ASSUME ReporterTyped, NEW sh \in Shards, NEW n \in CallNos(sh), NEW st \in {"ok", "failed"},
         call' = [call EXCEPT ![<<sh, n>>].state = st]
  PROVE  SetsCall(sh, n, st)
<1>1. call[<<sh, n>>] \in CallRow
  BY SuiteTyped DEF ReporterTyped
<1>2. [call[<<sh, n>>] EXCEPT !.state = st] \in CallRow /\ [call[<<sh, n>>] EXCEPT !.state = st].state = st
  BY <1>1 DEF CallRow
<1>3. call' = [call EXCEPT ![<<sh, n>>] = [call[<<sh, n>>] EXCEPT !.state = st]]
  BY SuiteTyped DEF ReporterTyped
<1> QED
  BY <1>2, <1>3, SetsCallHolds

LEMMA TryFacts ==
  ASSUME ReporterTyped, NEW sh \in Shards, NEW n \in CallNos(sh), call' = [call EXCEPT ![<<sh, n>>].try = @ + 1]
  PROVE  SetsCall(sh, n, call[<<sh, n>>].state)
<1>1. call[<<sh, n>>] \in CallRow
  BY SuiteTyped DEF ReporterTyped
<1> DEFINE x == [call[<<sh, n>>] EXCEPT !.try = @ + 1]
<1>2. x \in CallRow /\ x.state = call[<<sh, n>>].state
  BY <1>1 DEF CallRow
<1>3. call' = [call EXCEPT ![<<sh, n>>] = x]
  BY SuiteTyped DEF ReporterTyped
<1> QED
  BY <1>2, <1>3, SetsCallHolds

LEMMA LateFacts ==
  ASSUME ReporterTyped, NEW sh \in Shards, NEW n \in CallNos(sh), NEW k \in Nat, late' = [late EXCEPT ![<<sh, n>>] = k]
  PROVE  /\ late' \in [Calls -> Nat]
         /\ late'[<<sh, n>>] = k
         /\ \A s2 \in Shards : \A m \in CallNos(s2) : s2 # sh \/ m # n => late'[<<s2, m>>] = late[<<s2, m>>]
<1>1. <<sh, n>> \in Calls /\ \A s2 \in Shards : \A m \in CallNos(s2) : <<s2, m>> \in Calls
  BY SuiteTyped
<1>2. late' \in [Calls -> Nat] /\ late'[<<sh, n>>] = k
  BY <1>1 DEF ReporterTyped
<1>3. \A d \in Calls : d # <<sh, n>> => late'[d] = late[d]
  BY DEF ReporterTyped
<1> QED
  BY <1>1, <1>2, <1>3

(* What the reporter does with an outcome                                   *)
Resumed(sh, n) ==
    /\ session' \in [Shards -> SessionRow] /\ KnowsRun(sh)
    /\ \A s2 \in Shards \ {sh} : session'[s2] = session[s2]
    /\ session'[sh].ended = session[sh].ended
    /\ n \in Attempts(sh) => session'[sh].pc = session[sh].pc
    /\ n = CloseNo(sh) => session'[sh].pc = "done"
    /\ n = 0 => \/ session'[sh].pc = session[sh].pc
                \/ session[sh].pc = "creating" /\ session'[sh].pc = "testing" /\ session'[sh].run # NoRun
                \/ session[sh].pc = "creating" /\ session'[sh].pc = "disabled"

LEMMA ResumeFacts ==
  ASSUME ReporterTyped, OneLiveRun, RunsKept, NEW sh \in Shards, NEW n \in CallNos(sh), NEW ok \in BOOLEAN, Resume(sh, n, ok)
  PROVE  Resumed(sh, n)
<1> USE DEF Resumed
<1>0. session[sh] \in SessionRow /\ session \in [Shards -> SessionRow]
  BY DEF ReporterTyped
<1>r. session[sh].run \in LiveRuns(Build)' \cup {NoRun}
  BY DEF OneLiveRun, RunsKept
<1>l. LiveRuns(Build)' \subseteq Runs /\ NoRun \notin LiveRuns(Build)'
  BY ReporterAssumption DEF LiveRuns
<1>1. CASE n = 0 /\ \E r \in LiveRuns(Build)' :
             session' = [session EXCEPT ![sh].run = r, ![sh].pc = IF @ = "creating" THEN "testing" ELSE @]
  <2>1. PICK r \in LiveRuns(Build)' :
             session' = [session EXCEPT ![sh].run = r, ![sh].pc = IF @ = "creating" THEN "testing" ELSE @]
    BY <1>1
  <2> DEFINE pc == IF session[sh].pc = "creating" THEN "testing" ELSE session[sh].pc
             x == [session[sh] EXCEPT !.run = r, !.pc = pc]
  <2>2. session' = [session EXCEPT ![sh] = x]
    BY <1>0, <2>1 DEF SessionRow
  <2>3. x \in SessionRow /\ x.run = r /\ x.pc = pc /\ x.ended = session[sh].ended
    BY <1>0, <1>l DEF SessionRow
  <2>4. session'[sh] = x /\ session' \in [Shards -> SessionRow] /\ \A s2 \in Shards \ {sh} : session'[s2] = session[s2]
    BY <1>0, <2>2, <2>3
  <2>5. KnowsRun(sh)
    BY <1>r, <2>3, <2>4 DEF KnowsRun, RunsKept
  <2> QED
    BY <1>1, <1>l, <2>3, <2>4, <2>5, SuiteTyped
<1>2. CASE n = 0 /\ session' = [session EXCEPT ![sh].pc = IF @ = "creating" THEN "disabled" ELSE @]
  <2> DEFINE pc == IF session[sh].pc = "creating" THEN "disabled" ELSE session[sh].pc
             x == [session[sh] EXCEPT !.pc = pc]
  <2>1. session' = [session EXCEPT ![sh] = x]
    BY <1>0, <1>2 DEF SessionRow
  <2>2. x \in SessionRow /\ x.run = session[sh].run /\ x.pc = pc /\ x.ended = session[sh].ended
    BY <1>0 DEF SessionRow
  <2>3. session'[sh] = x /\ session' \in [Shards -> SessionRow] /\ \A s2 \in Shards \ {sh} : session'[s2] = session[s2]
    BY <1>0, <2>1, <2>2
  <2> QED
    BY <1>2, <1>r, <2>2, <2>3, SuiteTyped DEF KnowsRun
<1>3. CASE n \in Attempts(sh) /\ UNCHANGED session
  BY <1>0, <1>3, <1>r, SuiteTyped DEF KnowsRun
<1>4. CASE n = CloseNo(sh) /\ session' = [session EXCEPT ![sh].pc = "done"]
  <2> DEFINE x == [session[sh] EXCEPT !.pc = "done"]
  <2>1. x \in SessionRow /\ x.run = session[sh].run /\ x.pc = "done" /\ x.ended = session[sh].ended
    BY <1>0 DEF SessionRow
  <2>2. session'[sh] = x /\ session' \in [Shards -> SessionRow] /\ \A s2 \in Shards \ {sh} : session'[s2] = session[s2]
    BY <1>0, <1>4, <2>1
  <2> QED
    BY <1>4, <1>r, <2>1, <2>2, SuiteTyped DEF KnowsRun
<1>5. CASE n = 0 /\ UNCHANGED session
  BY <1>0, <1>5, <1>r, SuiteTyped DEF KnowsRun
<1> QED
  BY <1>1, <1>2, <1>3, <1>4, <1>5 DEF Resume, CloseNo

LEMMA StoreAlone ==
  ASSUME OneLiveRun, NEW sh \in Shards, UNCHANGED storeVars
  PROVE  RunsKept /\ Writes(sh)
  BY DEF storeVars, OneLiveRun, RunsKept, LiveRuns, Writes

(* Whatever the session becomes, as long as it keeps its run.              *)
SessionStays(sh) ==
    /\ session'[sh].run = session[sh].run
    /\ \A s2 \in Shards \ {sh} : session'[s2] = session[s2]

LEMMA PostMoves ==
  ASSUME ReporterTyped, OneLiveRun, NEW sh \in Shards, Control(sh), NEW n \in CallNos(sh), Post(sh, n),
         n \in Attempts(sh) => n = session[sh].ended + 1, SessionStays(sh)
  PROVE  Moves(sh)
<1>1. SetsCall(sh, n, "sent") /\ late' = late /\ UNCHANGED storeVars
      /\ mixed' = mixed \cup {Suite[sh][m].case : m \in Rivals(sh, n)}
  BY PostFacts DEF Post
<1>2. Apart(sh)
  BY <1>1 DEF SessionStays, Apart, SetsCall
<1>3. RunsKept /\ Writes(sh)
  BY <1>1, StoreAlone
<1>4. KnowsRun(sh)
  BY <1>3 DEF SessionStays, KnowsRun, OneLiveRun, RunsKept
<1>5. Answers(sh)
  BY <1>1, SuiteTyped DEF Answers, SetsCall
<1>6. Posts(sh)
  <2>1. ASSUME NEW m \in Attempts(sh), m # n PROVE call'[<<sh, m>>] = call[<<sh, m>>]
    BY <1>1, <2>1, SuiteTyped DEF SetsCall
  <2>2. n \in Attempts(sh) => call[<<sh, n>>].state = "idle"
    <3>1. session[sh].ended \in Nat /\ (n \in Attempts(sh) => call[<<sh, n>>] \in CallRow)
      BY SuiteTyped DEF ReporterTyped, SessionRow
    <3>2. ~(session[sh].ended + 1 <= session[sh].ended)
      BY <3>1
    <3> QED
      BY <3>1, <3>2 DEF Control
  <2>3. call'[<<sh, n>>].state = "sent"
    BY <1>1 DEF SetsCall
  <2> QED
    BY <1>1, <2>1, <2>2, <2>3, Zenon DEF Posts, Over
<1> QED
  BY <1>2, <1>3, <1>4, <1>5, <1>6 DEF Moves

(* A step that leaves the calls of a shard alone, but not its session      *)
LEMMA QuietMoves ==
  ASSUME ReporterTyped, OneLiveRun, NEW sh \in Shards, UNCHANGED <<storeVars, call, late, mixed>>, SessionStays(sh)
  PROVE  Moves(sh)
<1>1. Apart(sh)
  BY DEF SessionStays, Apart
<1>2. RunsKept /\ Writes(sh)
  BY StoreAlone
<1>3. KnowsRun(sh)
  BY <1>2 DEF SessionStays, KnowsRun, OneLiveRun, RunsKept
<1>4. Answers(sh) /\ Posts(sh)
  BY DEF Answers, Posts, Over
<1> QED
  BY <1>1, <1>2, <1>3, <1>4 DEF Moves

LEMMA SessionPcFacts ==
  ASSUME ReporterTyped, NEW sh \in Shards,
         NEW pc \in {"creating", "draining", "unreported", "closing"}, session' = [session EXCEPT ![sh].pc = pc]
  PROVE  /\ session' \in [Shards -> SessionRow] /\ SessionStays(sh)
         /\ session'[sh].pc = pc /\ session'[sh].ended = session[sh].ended
<1>0. session \in [Shards -> SessionRow] /\ session[sh] \in SessionRow
  BY DEF ReporterTyped
<1> DEFINE x == [session[sh] EXCEPT !.pc = pc]
<1>1. x \in SessionRow /\ x.run = session[sh].run /\ x.pc = pc /\ x.ended = session[sh].ended
  BY <1>0 DEF SessionRow
<1>2. session'[sh] = x /\ session' \in [Shards -> SessionRow] /\ \A s2 \in Shards \ {sh} : session'[s2] = session[s2]
  BY <1>0, <1>1
<1> QED
  BY <1>1, <1>2 DEF SessionStays

(* What a step of shard sh must keep                                        *)
Keeps(sh) == ReporterTyped' /\ Moves(sh) /\ Control(sh)'

LEMMA OnBeginKeeps ==
  ASSUME ReporterTyped, OneLiveRun, NEW sh \in Shards, Control(sh), OnBegin(sh)
  PROVE  Keeps(sh)
<1>1. session[sh].pc = "begin" /\ session' = [session EXCEPT ![sh].pc = "creating"] /\ Post(sh, 0)
  BY DEF OnBegin
<1>2. /\ session' \in [Shards -> SessionRow] /\ SessionStays(sh)
      /\ session'[sh].pc = "creating" /\ session'[sh].ended = session[sh].ended
  BY <1>1, SessionPcFacts
<1>3. 0 \in CallNos(sh) /\ 0 \notin Attempts(sh) /\ 0 # CloseNo(sh)
  BY SuiteTyped
<1>4. SetsCall(sh, 0, "sent") /\ late' = late /\ UNCHANGED storeVars
  BY <1>1, <1>3, PostFacts DEF Post
<1>5. ReporterTyped'
  BY <1>2, <1>4 DEF ReporterTyped, StoreTyped, storeVars, SetsCall
<1>6. Moves(sh)
  BY <1>1, <1>2, <1>3, PostMoves
<1>7. call'[<<sh, 0>>].state = "sent" /\ \A m \in CallNos(sh) \ {0} : call'[<<sh, m>>] = call[<<sh, m>>]
  BY <1>4 DEF SetsCall
<1>8. Control(sh)'
  BY <1>1, <1>2, <1>4, <1>7, SuiteTyped DEF Control, SessionStays, CallNos
<1> QED
  BY <1>5, <1>6, <1>8 DEF Keeps

LEMMA OnEndKeeps ==
  ASSUME ReporterTyped, OneLiveRun, NEW sh \in Shards, Control(sh), OnEnd(sh)
  PROVE  Keeps(sh)
<1>1. /\ UNCHANGED <<storeVars, call, late, mixed>>
      /\ \/ session[sh].pc = "testing" /\ session' = [session EXCEPT ![sh].pc = "draining"]
         \/ session[sh].pc = "creating" /\ session' = [session EXCEPT ![sh].pc = "unreported"]
  BY DEF OnEnd
<1>2. /\ session' \in [Shards -> SessionRow] /\ SessionStays(sh) /\ session'[sh].ended = session[sh].ended
      /\ \/ session[sh].pc = "testing" /\ session'[sh].pc = "draining"
         \/ session[sh].pc = "creating" /\ session'[sh].pc = "unreported"
  BY <1>1, SessionPcFacts
<1>3. ReporterTyped'
  BY <1>1, <1>2 DEF ReporterTyped, StoreTyped, storeVars
<1>4. Moves(sh)
  BY <1>1, <1>2, QuietMoves
<1>5. Control(sh)'
  BY <1>1, <1>2 DEF Control, SessionStays
<1> QED
  BY <1>3, <1>4, <1>5 DEF Keeps

LEMMA CloseSessionKeeps ==
  ASSUME ReporterTyped, OneLiveRun, NEW sh \in Shards, Control(sh), CloseSession(sh)
  PROVE  Keeps(sh)
<1>1. /\ session[sh].pc = "draining" /\ Drained(sh) /\ session' = [session EXCEPT ![sh].pc = "closing"]
      /\ Post(sh, CloseNo(sh))
  BY DEF CloseSession, CloseNo
<1>2. /\ session' \in [Shards -> SessionRow] /\ SessionStays(sh)
      /\ session'[sh].pc = "closing" /\ session'[sh].ended = session[sh].ended
  BY <1>1, SessionPcFacts
<1>3. CloseNo(sh) \in CallNos(sh) /\ CloseNo(sh) \notin Attempts(sh)
  BY SuiteTyped
<1>4. SetsCall(sh, CloseNo(sh), "sent") /\ late' = late /\ UNCHANGED storeVars
  BY <1>1, <1>3, PostFacts DEF Post
<1>5. ReporterTyped'
  BY <1>2, <1>4 DEF ReporterTyped, StoreTyped, storeVars, SetsCall
<1>6. Moves(sh)
  BY <1>1, <1>2, <1>3, PostMoves
<1>7. call'[<<sh, CloseNo(sh)>>].state = "sent" /\ \A m \in CallNos(sh) : m # CloseNo(sh) => call'[<<sh, m>>] = call[<<sh, m>>]
  BY <1>4 DEF SetsCall
<1>8. \A m \in Attempts(sh) : call'[<<sh, m>>] = call[<<sh, m>>]
  BY <1>7, SuiteTyped
<1>9. Drained(sh)'
  BY <1>1, <1>8 DEF Drained, Settled
<1>10. Control(sh)'
  BY <1>1, <1>2, <1>4, <1>7, <1>8, <1>9 DEF Control, SessionStays
<1> QED
  BY <1>5, <1>6, <1>10 DEF Keeps

LEMMA OnTestEndKeeps ==
  ASSUME ReporterTyped, OneLiveRun, NEW sh \in Shards, Control(sh), OnTestEnd(sh)
  PROVE  Keeps(sh)
<1> DEFINE x == [session[sh] EXCEPT !.ended = @ + 1]
           n == session[sh].ended + 1
<1>0. session[sh] \in SessionRow /\ session \in [Shards -> SessionRow] /\ session[sh].ended \in Nat
  BY DEF ReporterTyped, SessionRow
<1>1. /\ session[sh].ended < Len(Suite[sh]) /\ session' = [session EXCEPT ![sh] = x]
      /\ \/ session[sh].pc = "testing" /\ Post(sh, n)
         \/ session[sh].pc = "creating" /\ UNCHANGED <<storeVars, call, late, lapses, mixed>>
  BY <1>0 DEF OnTestEnd
<1>2. x \in SessionRow /\ x.run = session[sh].run /\ x.pc = session[sh].pc /\ x.ended = n
  BY <1>0 DEF SessionRow
<1>3. /\ session' \in [Shards -> SessionRow] /\ SessionStays(sh)
      /\ session'[sh].pc = session[sh].pc /\ session'[sh].ended = n
  BY <1>0, <1>1, <1>2 DEF SessionStays
<1>4. n \in Attempts(sh) /\ n <= Len(Suite[sh])
  BY <1>0, <1>1, SuiteTyped DEF Attempts
<1>5. CASE session[sh].pc = "creating" /\ UNCHANGED <<storeVars, call, late, lapses, mixed>>
  <2>1. ReporterTyped'
    BY <1>3, <1>5 DEF ReporterTyped, StoreTyped, storeVars
  <2>2. Moves(sh)
    BY <1>3, <1>5, QuietMoves
  <2>3. \A m \in Attempts(sh) : m \in Nat /\ (call[<<sh, m>>].state # "idle" => m <= session[sh].ended)
    BY SuiteTyped DEF Control
  <2>4. \A m \in Attempts(sh) : call[<<sh, m>>].state # "idle" => m <= n
    BY <1>0, <2>3
  <2>5. Control(sh)'
    BY <1>3, <1>4, <1>5, <2>4 DEF Control, SessionStays
  <2> QED
    BY <2>1, <2>2, <2>5 DEF Keeps
<1>6. CASE session[sh].pc = "testing" /\ Post(sh, n)
  <2>1. n \in CallNos(sh) \ {0} /\ n # CloseNo(sh)
    BY <1>4, SuiteTyped
  <2>2. SetsCall(sh, n, "sent") /\ late' = late /\ UNCHANGED storeVars
    BY <1>6, <2>1, PostFacts DEF Post
  <2>3. ReporterTyped'
    BY <1>3, <2>2 DEF ReporterTyped, StoreTyped, storeVars, SetsCall
  <2>4. Moves(sh)
    BY <1>3, <1>6, <2>1, PostMoves
  <2>5. call'[<<sh, n>>].state = "sent" /\ \A m \in CallNos(sh) : m # n => call'[<<sh, m>>] = call[<<sh, m>>]
    BY <2>2 DEF SetsCall
  <2>6. \A m \in Attempts(sh) : call'[<<sh, m>>].state # "idle" => m <= n
    <3>1. \A m \in Attempts(sh) : m \in Nat /\ (m # n /\ call'[<<sh, m>>].state # "idle" => m <= session[sh].ended)
      BY <2>5, SuiteTyped DEF Control
    <3> QED
      BY <1>0, <3>1
  <2>7. session[sh].run # NoRun
    BY <1>6 DEF Control
  <2>8. call'[<<sh, CloseNo(sh)>>] = call[<<sh, CloseNo(sh)>>]
    BY <2>1, <2>5, SuiteTyped
  <2>9. Control(sh)'
    BY <1>3, <1>4, <1>6, <2>2, <2>5, <2>6, <2>7, <2>8 DEF Control, SessionStays
  <2> QED
    BY <2>3, <2>4, <2>9 DEF Keeps
<1> QED
  BY <1>1, <1>5, <1>6

(* A call that was sent gets an outcome, or is tried again                  *)
LEMMA OutcomeControl ==
  ASSUME ReporterTyped, OneLiveRun, RunsKept, NEW sh \in Shards, Control(sh), NEW n \in CallNos(sh),
         call[<<sh, n>>].state = "sent", NEW st \in {"sent", "ok", "failed"}, SetsCall(sh, n, st),
         \A m \in CallNos(sh) : late'[<<sh, m>>] > 0 => late[<<sh, m>>] > 0 \/ m = n,
         (st = "sent" /\ session' = session) \/ (st # "sent" /\ Resumed(sh, n))
  PROVE  Control(sh)'
<1>1. /\ KnowsRun(sh) /\ session'[sh].ended = session[sh].ended
      /\ \/ session'[sh].pc = session[sh].pc /\ (n = CloseNo(sh) => st = "sent")
         \/ n = CloseNo(sh) /\ st # "sent" /\ session'[sh].pc = "done"
         \/ session[sh].pc = "creating" /\ session'[sh].pc = "testing" /\ session'[sh].run # NoRun /\ n = 0
         \/ session[sh].pc = "creating" /\ session'[sh].pc = "disabled" /\ n = 0
  <2>1. CASE st = "sent" /\ session' = session
    BY <2>1 DEF KnowsRun, OneLiveRun, RunsKept
  <2>2. CASE st # "sent" /\ Resumed(sh, n)
    BY <2>2, SuiteTyped DEF Resumed
  <2> QED
    BY <2>1, <2>2
<1>2. call'[<<sh, n>>].state = st /\ \A m \in CallNos(sh) : m # n => call'[<<sh, m>>] = call[<<sh, m>>]
  BY DEF SetsCall
<1>3. session[sh].run # NoRun => session'[sh].run # NoRun
  BY <1>1 DEF KnowsRun
<1>4. \A m \in CallNos(sh) : call'[<<sh, m>>].state # "idle" <=> call[<<sh, m>>].state # "idle"
  BY <1>2
<1>5. CloseNo(sh) \in CallNos(sh) /\ 0 # CloseNo(sh) /\ \A m \in Attempts(sh) : m \in CallNos(sh)
  BY SuiteTyped
<1>6. session'[sh].pc \in {"closing", "done"} <=> session[sh].pc \in {"closing", "done"}
  <2>1. CASE n = CloseNo(sh)
    BY <1>1, <1>5, <2>1 DEF Control
  <2>2. CASE n # CloseNo(sh)
    BY <1>1, <2>2
  <2> QED
    BY <2>1, <2>2
<1>7. session'[sh].pc = "done" => call'[<<sh, CloseNo(sh)>>].state # "sent"
  BY <1>1, <1>2, <1>5 DEF Control
<1>8. session'[sh].pc \in {"closing", "done"} => Drained(sh)'
  <2> SUFFICES ASSUME Drained(sh) PROVE Drained(sh)'
    BY <1>6 DEF Control
  <2>1. n \notin Attempts(sh)
    BY DEF Drained, Settled
  <2>2. \A m \in Attempts(sh) : call'[<<sh, m>>] = call[<<sh, m>>]
    BY <1>2, <1>5, <2>1
  <2> QED
    BY <2>2 DEF Drained, Settled
<1>9. session'[sh].pc \in {"testing", "draining"} => session'[sh].run # NoRun
  BY <1>1, <1>3 DEF Control
<1> QED
  BY <1>1, <1>3, <1>4, <1>5, <1>6, <1>7, <1>8, <1>9 DEF Control

(* A sent call is tried again or fails: nothing happens on the server.      *)
LEMMA UnansweredKeeps ==
  ASSUME ReporterTyped, OneLiveRun, NEW sh \in Shards, Control(sh), NEW n \in CallNos(sh),
         call[<<sh, n>>].state = "sent", NEW st \in {"sent", "failed"}, SetsCall(sh, n, st), UNCHANGED <<storeVars, mixed>>,
         late' = late \/ \E k \in Nat : late' = [late EXCEPT ![<<sh, n>>] = k],
         (st = "sent" /\ session' = session) \/ (st = "failed" /\ Resume(sh, n, FALSE))
  PROVE  Keeps(sh)
<1>1. RunsKept /\ Writes(sh)
  BY StoreAlone
<1>2. (st = "sent" /\ session' = session) \/ (st # "sent" /\ Resumed(sh, n))
  BY <1>1, ResumeFacts
<1>3. late' \in [Calls -> Nat] /\ \A s2 \in Shards : \A m \in CallNos(s2) : s2 # sh \/ m # n => late'[<<s2, m>>] = late[<<s2, m>>]
  BY LateFacts DEF ReporterTyped
<1>4. session' \in [Shards -> SessionRow] /\ KnowsRun(sh) /\ \A s2 \in Shards \ {sh} : session'[s2] = session[s2]
  BY <1>1, <1>2 DEF Resumed, KnowsRun, ReporterTyped, OneLiveRun, RunsKept
<1>5. ReporterTyped'
  BY <1>3, <1>4 DEF ReporterTyped, StoreTyped, storeVars, SetsCall
<1>6. Apart(sh)
  BY <1>3, <1>4 DEF Apart, SetsCall
<1>7. call'[<<sh, n>>].state = st /\ \A m \in CallNos(sh) : m # n => call'[<<sh, m>>] = call[<<sh, m>>] /\ late'[<<sh, m>>] = late[<<sh, m>>]
  BY <1>3 DEF SetsCall
<1>8. Answers(sh)
  BY <1>7, SuiteTyped DEF Answers
<1>9. Posts(sh)
  <2>1. ASSUME NEW m \in Attempts(sh), m # n PROVE call'[<<sh, m>>] = call[<<sh, m>>] /\ late'[<<sh, m>>] = late[<<sh, m>>]
    BY <1>7, <2>1, SuiteTyped
  <2> QED
    BY <1>7, <2>1 DEF Posts, Over
<1>10. Control(sh)'
  BY <1>1, <1>2, <1>7, OutcomeControl
<1> QED
  BY <1>1, <1>4, <1>5, <1>6, <1>8, <1>9, <1>10 DEF Keeps, Moves

LEMMA TimeoutKeeps ==
  ASSUME ReporterTyped, OneLiveRun, NEW sh \in Shards, Control(sh), NEW n \in CallNos(sh), Timeout(sh, n) \/ Refused(sh, n)
  PROVE  Keeps(sh)
<1>1. ASSUME Timeout(sh, n) PROVE Keeps(sh)
  <2>1. late[<<sh, n>>] + 1 \in Nat
    BY SuiteTyped DEF ReporterTyped
  <2>2. /\ call[<<sh, n>>].state = "sent" /\ UNCHANGED <<storeVars, mixed>>
        /\ late' = late \/ late' = [late EXCEPT ![<<sh, n>>] = @ + 1]
        /\ \/ call' = [call EXCEPT ![<<sh, n>>].try = @ + 1] /\ UNCHANGED session
           \/ call' = [call EXCEPT ![<<sh, n>>].state = "failed"] /\ Resume(sh, n, FALSE)
    BY <1>1 DEF Timeout
  <2>3. late' = late \/ \E k \in Nat : late' = [late EXCEPT ![<<sh, n>>] = k]
    BY <2>1, <2>2
  <2>4. CASE call' = [call EXCEPT ![<<sh, n>>].try = @ + 1] /\ UNCHANGED session
    BY <2>2, <2>3, <2>4, TryFacts, UnansweredKeeps
  <2>5. CASE call' = [call EXCEPT ![<<sh, n>>].state = "failed"] /\ Resume(sh, n, FALSE)
    BY <2>2, <2>3, <2>5, StateFacts, UnansweredKeeps
  <2> QED
    BY <2>2, <2>4, <2>5
<1>2. ASSUME Refused(sh, n) PROVE Keeps(sh)
  BY <1>2, StateFacts, UnansweredKeeps DEF Refused
<1> QED
  BY <1>1, <1>2

(* A try is carried out                                                     *)
LEMMA ServedMoves ==
  ASSUME ReporterTyped, OneLiveRun, NEW sh \in Shards, Control(sh), NEW n \in CallNos(sh),
         call[<<sh, n>>].state = "sent" \/ (late[<<sh, n>>] > 0), Serve(sh, n)
  PROVE  StoreTyped' /\ RunsKept /\ Writes(sh)
<1>1. call[<<sh, n>>].state # "idle" /\ (n \in Attempts(sh) => ~Over(sh, n))
  BY SuiteTyped DEF Control, Over, ReporterTyped
<1>2. StoreTyped' /\ RunsKept
  BY <1>1, ServeFacts DEF RunsKept
<1>3. Writes(sh)
  <2>1. /\ n \in Attempts(sh) => result'[<<session[sh].run, Suite[sh][n].case>>] = Outcome(sh, n)
        /\ \A p \in Runs \X Cases : \/ result'[p] = result[p]
                                    \/ result[p] = Absent
                                    \/ n \in Attempts(sh) /\ p = <<session[sh].run, Suite[sh][n].case>>
    BY <1>1, ServeFacts DEF Outcome
  <2> QED
    BY <1>1, <2>1 DEF Writes
<1> QED
  BY <1>2, <1>3

LEMMA AnsweredKeeps ==
  ASSUME ReporterTyped, OneLiveRun, NEW sh \in Shards, Control(sh), NEW n \in CallNos(sh), Answered(sh, n)
  PROVE  Keeps(sh)
<1>1. call[<<sh, n>>].state = "sent" /\ Serve(sh, n) /\ Resume(sh, n, TRUE) /\ late' = late /\ mixed' = mixed
  BY DEF Answered
<1>2. SetsCall(sh, n, "ok")
  BY StateFacts DEF Answered
<1>3. StoreTyped' /\ RunsKept /\ Writes(sh)
  BY <1>1, ServedMoves
<1>4. Resumed(sh, n)
  BY <1>1, <1>3, ResumeFacts
<1>5. ReporterTyped'
  BY <1>1, <1>2, <1>3, <1>4 DEF ReporterTyped, SetsCall, Resumed
<1>6. Apart(sh) /\ KnowsRun(sh)
  BY <1>1, <1>2, <1>4 DEF Apart, SetsCall, Resumed
<1>7. call'[<<sh, n>>].state = "ok" /\ \A m \in CallNos(sh) : m # n => call'[<<sh, m>>] = call[<<sh, m>>]
  BY <1>2 DEF SetsCall
<1>8. Answers(sh)
  <2>1. call[<<sh, n>>].state # "idle"
    BY <1>1
  <2>2. /\ n \in Attempts(sh) => result'[<<session[sh].run, Suite[sh][n].case>>] = Outcome(sh, n)
        /\ n = CloseNo(sh) => run'[session[sh].run].closed
    BY <1>1, <2>1, ServeFacts DEF Outcome
  <2>3. \A m \in CallNos(sh) : call'[<<sh, m>>].state = "ok" /\ call[<<sh, m>>].state # "ok" => m = n
    BY <1>7
  <2> QED
    BY <1>1, <2>2, <2>3, SuiteTyped DEF Answers
<1>9. Posts(sh)
  <2>1. ASSUME NEW m \in Attempts(sh), m # n PROVE call'[<<sh, m>>] = call[<<sh, m>>]
    BY <1>7, <2>1, SuiteTyped
  <2> QED
    BY <1>1, <1>7, <2>1 DEF Posts, Over
<1>10. Control(sh)'
  BY <1>1, <1>2, <1>3, <1>4, OutcomeControl
<1> QED
  BY <1>3, <1>5, <1>6, <1>8, <1>9, <1>10 DEF Keeps, Moves

LEMMA ServedLateKeeps ==
  ASSUME ReporterTyped, OneLiveRun, NEW sh \in Shards, Control(sh), NEW n \in CallNos(sh), ServedLate(sh, n)
  PROVE  Keeps(sh)
<1>1. /\ late[<<sh, n>>] > 0 /\ Serve(sh, n) /\ late' = [late EXCEPT ![<<sh, n>>] = @ - 1]
      /\ session' = session /\ call' = call /\ mixed' = mixed
  BY DEF ServedLate
<1>2. StoreTyped' /\ RunsKept /\ Writes(sh)
  BY <1>1, ServedMoves
<1>3. late[<<sh, n>>] \in Nat /\ late[<<sh, n>>] - 1 \in Nat
  BY <1>1, SuiteTyped DEF ReporterTyped
<1>4. /\ late' \in [Calls -> Nat] /\ late'[<<sh, n>>] = late[<<sh, n>>] - 1
      /\ \A s2 \in Shards : \A m \in CallNos(s2) : s2 # sh \/ m # n => late'[<<s2, m>>] = late[<<s2, m>>]
  <2> DEFINE k == late[<<sh, n>>] - 1
  <2>1. late' = [late EXCEPT ![<<sh, n>>] = k] /\ k \in Nat
    BY <1>1, <1>3
  <2> HIDE DEF k
  <2>2. /\ late' \in [Calls -> Nat] /\ late'[<<sh, n>>] = k
        /\ \A s2 \in Shards : \A m \in CallNos(s2) : s2 # sh \/ m # n => late'[<<s2, m>>] = late[<<s2, m>>]
    BY <2>1, LateFacts
  <2> QED
    BY <2>2 DEF k
<1>5. ReporterTyped'
  BY <1>1, <1>2, <1>4 DEF ReporterTyped
<1>6. Apart(sh) /\ KnowsRun(sh)
  BY <1>1, <1>2, <1>4 DEF Apart, KnowsRun, OneLiveRun, RunsKept
<1>7. \A m \in CallNos(sh) : late'[<<sh, m>>] > 0 => late[<<sh, m>>] > 0
  BY <1>1, <1>4
<1>8. Answers(sh)
  BY <1>1 DEF Answers
<1>9. Posts(sh)
  <2>1. \A m \in Attempts(sh) : m \in CallNos(sh) /\ (late[<<sh, m>>] = 0 => late'[<<sh, m>>] = 0)
    BY <1>1, <1>4, SuiteTyped
  <2> QED
    BY <1>1, <2>1 DEF Posts, Over
<1>10. Control(sh)'
  BY <1>1, <1>7 DEF Control, Drained, Settled
<1> QED
  BY <1>2, <1>5, <1>6, <1>8, <1>9, <1>10 DEF Keeps, Moves

-----------------------------------------------------------------------------
(* From what a step may do to what it leaves true                           *)

LEMMA RunStays ==
  ASSUME NEW sh \in Shards, Moves(sh), NEW s \in Shards, session[s].run # NoRun
  PROVE  session'[s].run = session[s].run
  BY DEF Moves, Apart, KnowsRun

LEMMA PostedStays ==
  ASSUME NEW sh \in Shards, Moves(sh), NEW s \in Shards, NEW n \in Attempts(s), call[<<s, n>>].state # "idle"
  PROVE  call'[<<s, n>>].state # "idle"
  BY SuiteTyped DEF Moves, Apart, Posts

LEMMA OneLiveRunKept ==
  ASSUME ReporterInv, NEW sh \in Shards, Moves(sh)
  PROVE  OneLiveRun'
<1>1. \A r1, r2 \in LiveRuns(Build)' : r1 = r2
  BY DEF Moves, RunsKept
<1>2. \A s \in Shards : session'[s].run \in LiveRuns(Build)' \cup {NoRun}
  BY DEF ReporterInv, OneLiveRun, Moves, RunsKept, KnowsRun, Apart
<1>3. QED
  BY <1>1, <1>2 DEF OneLiveRun

LEMMA ControlElsewhere ==
  ASSUME ReporterInv, NEW sh \in Shards, Moves(sh), NEW s \in Shards \ {sh}
  PROVE  Control(s)'
<1>1. /\ session'[s] = session[s]
      /\ \A m \in CallNos(s) : call'[<<s, m>>] = call[<<s, m>>] /\ late'[<<s, m>>] = late[<<s, m>>]
  BY DEF Moves, Apart
<1>2. CloseNo(s) \in CallNos(s) /\ \A m \in Attempts(s) : m \in CallNos(s)
  BY SuiteTyped
<1>3. Drained(s) => Drained(s)'
  BY <1>1, <1>2 DEF Drained, Settled
<1>4. Control(s)
  BY DEF ReporterInv
<1> QED
  BY <1>1, <1>2, <1>3, <1>4 DEF Control

LEMMA RecordedStays ==
  ASSUME ReporterInv, NEW sh \in Shards, Moves(sh), NEW r \in Runs, NEW t \in Cases, Recorded(r, t)
  PROVE  Recorded(r, t)'
<1> DEFINE p == <<r, t>>
<1>0. PICK s \in Shards : \E m \in Attempts(s) :
         call[<<s, m>>].state # "idle" /\ Suite[s][m].case = t /\ result[p].status = Suite[s][m].status
  BY DEF Recorded
<1>1. PICK m \in Attempts(s) :
         call[<<s, m>>].state # "idle" /\ Suite[s][m].case = t /\ result[p].status = Suite[s][m].status
  BY <1>0
<1>2. call'[<<s, m>>].state # "idle"
  BY <1>1, PostedStays
<1>3. result[p] # Absent
  <2>1. Suite[s][m].status \in Statuses
    BY AttemptTyped
  <2> QED
    BY <1>1, <2>1, ReporterAssumption DEF Absent
<1>4. CASE result'[p] = result[p]
  BY <1>1, <1>2, <1>4 DEF Recorded
<1>5. ASSUME NEW n \in Attempts(sh), call[<<sh, n>>].state # "idle", p = <<session[sh].run, Suite[sh][n].case>>,
             result'[p] = Outcome(sh, n)
      PROVE  Recorded(r, t)'
  <2>1. call'[<<sh, n>>].state # "idle" /\ Suite[sh][n].case = t /\ result'[p].status = Suite[sh][n].status
    BY <1>5, PostedStays DEF Outcome
  <2> QED
    BY <2>1 DEF Recorded
<1>6. p \in Runs \X Cases
  OBVIOUS
<1> QED
  BY <1>3, <1>4, <1>5, <1>6 DEF Moves, Writes

LEMMA MarkedKept ==
  ASSUME ReporterInv, NEW sh \in Shards, Moves(sh), NEW s \in Shards
  PROVE  Marked(s)'
<1>0. Marked(s) /\ Control(s) /\ OneLiveRun
  BY DEF ReporterInv
<1>r. \A n \in CallNos(s) \ {0} : call[<<s, n>>].state # "idle" =>
        session[s].run \in LiveRuns(Build) /\ session[s].run \in Runs /\ session'[s].run = session[s].run
  BY <1>0, RunStays DEF Control, OneLiveRun, LiveRuns
<1>1. ASSUME call'[<<s, CloseNo(s)>>].state = "ok" PROVE run'[session'[s].run].closed
  <2>0. CloseNo(s) \in CallNos(s) \ {0}
    BY SuiteTyped
  <2>1. CASE call[<<s, CloseNo(s)>>].state = "ok"
    BY <1>0, <1>r, <2>0, <2>1 DEF Marked, Moves, RunsKept
  <2>2. CASE call[<<s, CloseNo(s)>>].state # "ok"
    <3>1. s = sh
      BY <1>1, <2>0, <2>2 DEF Moves, Apart
    <3>2. call[<<s, CloseNo(s)>>].state = "sent" /\ run'[session[s].run].closed
      BY <1>1, <2>2, <3>1 DEF Moves, Answers
    <3> QED
      BY <1>r, <2>0, <3>2
  <2> QED
    BY <2>1, <2>2
<1>2. ASSUME NEW n \in Attempts(s), call'[<<s, n>>].state = "ok" PROVE Recorded(session[s].run, Suite[s][n].case)' /\ session'[s].run = session[s].run
  <2>0. n \in CallNos(s) \ {0} /\ Suite[s][n].case \in Cases
    BY SuiteTyped, AttemptTyped
  <2>1. CASE call[<<s, n>>].state = "ok"
    <3>1. session[s].run \in Runs /\ session'[s].run = session[s].run
      BY <1>r, <2>0, <2>1
    <3>2. Recorded(session[s].run, Suite[s][n].case)
      BY <1>0, <2>1 DEF Marked
    <3>3. PICK r \in Runs : session[s].run = r /\ session'[s].run = r
      BY <3>1
    <3>4. Recorded(r, Suite[s][n].case)
      BY <3>2, <3>3 DEF Recorded
    <3>5. Recorded(r, Suite[s][n].case)'
      BY <2>0, <3>4, RecordedStays
    <3> QED
      BY <3>3, <3>5 DEF Recorded
  <2>2. CASE call[<<s, n>>].state # "ok"
    <3>1. s = sh
      BY <1>2, <2>0, <2>2 DEF Moves, Apart
    <3>2. call[<<s, n>>].state = "sent" /\ result'[<<session[s].run, Suite[s][n].case>>] = Outcome(s, n)
      BY <1>2, <2>2, <3>1 DEF Moves, Answers
    <3>3. session'[s].run = session[s].run
      BY <1>r, <2>0, <3>2
    <3> QED
      BY <1>2, <3>2, <3>3 DEF Recorded, Outcome
  <2> QED
    BY <2>1, <2>2
<1> QED
  BY <1>1, <1>2 DEF Marked, Recorded

(* A session other than that of the step: its results are written by no one *)
(* else.                                                                   *)
LEMMA InOrderElsewhere ==
  ASSUME ReporterInv, NEW sh \in Shards, Moves(sh), NEW s \in Shards \ {sh}
  PROVE  InOrder(s)'
<1> SUFFICES ASSUME NEW n \in Attempts(s), call'[<<s, n>>].state # "idle", Suite[s][n].case \notin mixed'
             PROVE  /\ \A m \in Attempts(s) : m < n /\ Suite[s][m].case = Suite[s][n].case => Over(s, m)'
                    /\ Alone(s, Suite[s][n].case) /\ IsLast(s, n)' /\ call'[<<s, n>>].state = "ok" => Stands(s, n)'
  BY DEF InOrder, Alone, Attempts
<1>1. \A m \in Attempts(s) : call'[<<s, m>>] = call[<<s, m>>] /\ late'[<<s, m>>] = late[<<s, m>>]
  BY SuiteTyped DEF Moves, Apart
<1>2. InOrder(s) /\ Suite[s][n].case \notin mixed /\ call[<<s, n>>].state # "idle" /\ session'[s] = session[s]
  BY <1>1 DEF ReporterInv, Moves, Apart, Posts
<1>3. \A m \in Attempts(s) : m < n /\ Suite[s][m].case = Suite[s][n].case => Over(s, m)'
  BY <1>1, <1>2 DEF InOrder, Over
<1>4. ASSUME Alone(s, Suite[s][n].case), IsLast(s, n)', call'[<<s, n>>].state = "ok" PROVE Stands(s, n)'
  <2>1. IsLast(s, n)
    BY <1>1, <1>4 DEF IsLast, Posted
  <2>2. Stands(s, n)
    BY <1>1, <1>2, <1>4, <2>1 DEF InOrder
  <2> DEFINE p == <<session[s].run, Suite[s][n].case>>
  <2>3. p \in Runs \X Cases
    <3>1. session[s].run \in Runs
      BY <1>2, SuiteTyped DEF ReporterInv, Control, OneLiveRun, LiveRuns
    <3> QED
      BY <3>1, AttemptTyped
  <2>4. result[p] # Absent
    BY <2>2, AttemptTyped, ReporterAssumption DEF Stands, Absent
  <2>5. \A m \in Attempts(sh) : p # <<session[sh].run, Suite[sh][m].case>>
    BY <1>4 DEF Alone
  <2>6. result'[p] = result[p]
    BY <2>3, <2>4, <2>5 DEF Moves, Writes
  <2> QED
    BY <1>2, <2>2, <2>6 DEF Stands
<1> QED
  BY <1>3, <1>4

LEMMA InOrderKept ==
  ASSUME ReporterInv, NEW sh \in Shards, Moves(sh), Control(sh)', ReporterTyped'
  PROVE  InOrder(sh)'
<1> SUFFICES ASSUME NEW n \in Attempts(sh), call'[<<sh, n>>].state # "idle", Suite[sh][n].case \notin mixed'
             PROVE  /\ \A m \in Attempts(sh) : m < n /\ Suite[sh][m].case = Suite[sh][n].case => Over(sh, m)'
                    /\ Alone(sh, Suite[sh][n].case) /\ IsLast(sh, n)' /\ call'[<<sh, n>>].state = "ok" => Stands(sh, n)'
  BY DEF InOrder, Alone, Attempts
<1>0. /\ Posts(sh) /\ Writes(sh) /\ Answers(sh) /\ InOrder(sh) /\ Control(sh) /\ ReporterTyped
      /\ Suite[sh][n].case \notin mixed
  BY DEF ReporterInv, Moves, Posts
<1>i. \A m \in Attempts(sh) : call'[<<sh, m>>].state = "idle" => Over(sh, m)'
  <2>1. \A m \in Attempts(sh) : late'[<<sh, m>>] \in Nat /\ (late'[<<sh, m>>] > 0 => call'[<<sh, m>>].state # "idle")
    BY SuiteTyped DEF Control, ReporterTyped
  <2> QED
    BY <2>1 DEF Over
<1>e. session[sh].ended \in Nat /\ \A m \in Attempts(sh) : m \in Nat
  BY <1>0, SuiteTyped DEF ReporterTyped, SessionRow
<1>1. CASE call[<<sh, n>>].state # "idle"
  <2>1. n <= session[sh].ended
    BY <1>0, <1>1 DEF Control
  <2>2. ASSUME NEW m \in Attempts(sh), m < n, Suite[sh][m].case = Suite[sh][n].case PROVE Over(sh, m) /\ Over(sh, m)'
    <3>1. Over(sh, m)
      BY <1>0, <1>1, <2>2 DEF InOrder
    <3>2. call[<<sh, m>>].state = "idle" => call'[<<sh, m>>].state = "idle"
      BY <1>0, <1>e, <2>1, <2>2 DEF Posts
    <3> QED
      BY <1>0, <1>i, <3>1, <3>2 DEF Posts
  <2>3. ASSUME Alone(sh, Suite[sh][n].case), IsLast(sh, n)', call'[<<sh, n>>].state = "ok" PROVE Stands(sh, n)'
    <3> DEFINE p == <<session[sh].run, Suite[sh][n].case>>
    <3>1. IsLast(sh, n) /\ \A m \in Attempts(sh) : m > n /\ call[<<sh, m>>].state # "idle" => Suite[sh][m].case # Suite[sh][n].case
      BY <1>0, <2>3 DEF IsLast, Posted, Posts
    <3>2. session[sh].run \in LiveRuns(Build) /\ session[sh].run # NoRun
      BY <1>0, <1>1, SuiteTyped DEF ReporterInv, Control, OneLiveRun
    <3>3. session'[sh].run = session[sh].run /\ p \in Runs \X Cases
      BY <3>2, RunStays, AttemptTyped DEF LiveRuns
    <3>4. CASE call[<<sh, n>>].state = "ok"
      <4>1. result[p] = Outcome(sh, n)
        BY <1>0, <1>1, <2>3, <3>1, <3>4 DEF InOrder, Stands, Outcome
      <4>2. result[p] # Absent
        BY <4>1, AttemptTyped, ReporterAssumption DEF Outcome, Absent
      <4>3. ASSUME NEW m \in Attempts(sh), ~Over(sh, m), call[<<sh, m>>].state # "idle", p = <<session[sh].run, Suite[sh][m].case>>
            PROVE  m = n
        <5>1. Suite[sh][m].case = Suite[sh][n].case
          BY <4>3
        <5>2. ~(m < n) /\ ~(m > n)
          BY <2>2, <3>1, <4>3, <5>1
        <5> QED
          BY <1>e, <5>2
      <4>4. result'[p] = Outcome(sh, n)
        BY <1>0, <3>3, <4>1, <4>2, <4>3 DEF Writes
      <4> QED
        BY <3>3, <4>4 DEF Stands, Outcome
    <3>5. CASE call[<<sh, n>>].state # "ok"
      BY <1>0, <2>3, <3>3, <3>5 DEF Answers, Stands, Outcome
    <3> QED
      BY <3>4, <3>5
  <2> QED
    BY <2>2, <2>3
<1>2. CASE call[<<sh, n>>].state = "idle"
  <2>1. /\ call'[<<sh, n>>].state = "sent" /\ n = session[sh].ended + 1
        /\ {Suite[sh][m].case : m \in Rivals(sh, n)} \subseteq mixed'
    BY <1>0, <1>2 DEF Posts
  <2>2. ASSUME NEW m \in Attempts(sh), m < n, Suite[sh][m].case = Suite[sh][n].case PROVE Over(sh, m)'
    <3>1. m \notin Rivals(sh, n)
      BY <2>1, <2>2
    <3>2. Over(sh, m)
      <4>1. late[<<sh, m>>] \in Nat /\ m # n
        BY <1>0, <1>e, <2>2, SuiteTyped DEF ReporterTyped
      <4> QED
        BY <2>2, <3>1, <4>1 DEF Rivals, Over
    <3>3. call[<<sh, m>>].state = "idle" => call'[<<sh, m>>].state = "idle"
      BY <1>0, <1>e, <2>1, <2>2 DEF Posts
    <3> QED
      BY <1>0, <1>i, <3>2, <3>3 DEF Posts
  <2> QED
    BY <2>1, <2>2
<1> QED
  BY <1>1, <1>2

LEMMA ReporterStep == ReporterInv /\ [ReporterNext]_reporterVars => ReporterInv'
<1> SUFFICES ASSUME ReporterInv, [ReporterNext]_reporterVars PROVE ReporterInv'
  OBVIOUS
<1>1. ASSUME NEW sh \in Shards, Client(sh) \/ Server(sh) PROVE ReporterInv'
  <2>0. ReporterTyped /\ OneLiveRun /\ Control(sh)
    BY DEF ReporterInv
  <2>1. Keeps(sh)
    <3>1. OnBegin(sh) \/ OnTestEnd(sh) \/ OnEnd(sh) \/ CloseSession(sh) => Keeps(sh)
      BY <2>0, OnBeginKeeps, OnTestEndKeeps, OnEndKeeps, CloseSessionKeeps
    <3>2. ASSUME NEW n \in CallNos(sh), Timeout(sh, n) \/ Answered(sh, n) \/ Refused(sh, n) \/ ServedLate(sh, n)
          PROVE  Keeps(sh)
      BY <2>0, <3>2, TimeoutKeeps, AnsweredKeeps, ServedLateKeeps
    <3> QED
      BY <1>1, <3>1, <3>2 DEF Client, Server, CallNos
  <2>2. ReporterTyped' /\ Moves(sh) /\ Control(sh)'
    BY <2>1 DEF Keeps
  <2>3. OneLiveRun'
    BY <2>2, OneLiveRunKept
  <2>4. \A s \in Shards : Control(s)'
    BY <2>2, ControlElsewhere
  <2>5. \A s \in Shards : Marked(s)'
    BY <2>2, MarkedKept
  <2>6. \A s \in Shards : InOrder(s)'
    BY <2>2, InOrderKept, InOrderElsewhere
  <2> QED
    BY <2>2, <2>3, <2>4, <2>5, <2>6 DEF ReporterInv
<1>2. CASE UNCHANGED reporterVars
  <2> USE <1>2 DEF reporterVars, ReporterInv
  <2>1. ReporterTyped' /\ OneLiveRun'
    BY DEF ReporterTyped, StoreTyped, OneLiveRun, LiveRuns
  <2>2. ASSUME NEW sh \in Shards PROVE Control(sh)'
    BY DEF Control, Drained, Settled
  <2>3. ASSUME NEW sh \in Shards PROVE Marked(sh)'
    BY DEF Marked, Recorded
  <2>4. ASSUME NEW sh \in Shards PROVE InOrder(sh)'
    BY DEF InOrder, Over, IsLast, Posted, Alone, Stands
  <2> QED
    BY <2>1, <2>2, <2>3, <2>4
<1> QED
  BY <1>1, <1>2 DEF ReporterNext

(* The sessions, the calls and the server they report to keep their order   *)
(* whatever is lost, late or tried again (TesboReporter, TesboClient).      *)
THEOREM ReporterKeepsOrder == ReporterSpec => []ReporterInv
  BY InitHolds, ReporterStep, PTL DEF ReporterSpec

(* All shards of a build that know a run know the same one, however their   *)
(* createRun calls race or are tried again.                                *)
THEOREM ShardsShareRunHolds == ReporterSpec => []ShardsShareRun
<1>1. ReporterInv => ShardsShareRun
  BY DEF ReporterInv, OneLiveRun, ShardsShareRun
<1> QED
  BY <1>1, ReporterKeepsOrder, PTL

(* A session that ends without a failed call has closed its run, and the    *)
(* run has a posted result for every case it reported (onEnd).             *)
THEOREM CleanEndMeansRecordedHolds == ReporterSpec => []CleanEndMeansRecorded
<1>1. ReporterInv => CleanEndMeansRecorded
  <2> SUFFICES ASSUME ReporterInv, NEW sh \in Shards, Clean(sh)
               PROVE  /\ run[session[sh].run].closed
                      /\ \A n \in Posted(sh) : Recorded(session[sh].run, Suite[sh][n].case)
    BY DEF CleanEndMeansRecorded, Recorded, Posted
  <2>1. session[sh].pc = "done" /\ Drained(sh) /\ call[<<sh, CloseNo(sh)>>].state \notin {"idle", "sent"}
    BY DEF Clean, ReporterInv, Control
  <2>2. \A n \in CallNos(sh) : call[<<sh, n>>].state # "failed" /\ call[<<sh, n>>].state \in {"idle", "sent", "ok", "failed"}
    BY SuiteTyped DEF Clean, CallsOf, CallNos, ReporterInv, ReporterTyped, CallRow
  <2>3. call[<<sh, CloseNo(sh)>>].state = "ok"
    BY <2>1, <2>2, SuiteTyped
  <2>4. \A n \in Posted(sh) : n \in Attempts(sh) /\ call[<<sh, n>>].state = "ok"
    BY <2>1, <2>2, SuiteTyped DEF Posted, Drained, Settled
  <2> QED
    BY <2>3, <2>4 DEF ReporterInv, Marked
<1> QED
  BY <1>1, ReporterKeepsOrder, PTL

(* The last attempt of a case stands, with Playwright's retry count, once   *)
(* its post is answered, if no other post of the case met it (onTestEnd).  *)
THEOREM LastAttemptStandsHolds == ReporterSpec => []LastAttemptStands
<1>1. ReporterInv => LastAttemptStands
  BY DEF ReporterInv, InOrder, LastAttemptStands, Posted
<1> QED
  BY <1>1, ReporterKeepsOrder, PTL

=============================================================================
