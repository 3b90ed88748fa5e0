--------------------------- MODULE TestRunsProofs ---------------------------
(***************************************************************************)
(* Theorems about test runs on the server, for any runs, cases, builds,    *)
(* people and requests, crashes included.                                  *)
(***************************************************************************)
EXTENDS TestRuns, TLAPS, FiniteSetTheorems

-----------------------------------------------------------------------------
(* The rows                                                                *)

CycleRow == [state : {"none", "live", "deleted"}, build : Builds \cup {NoBuild},
             status : {"Planning", "In Progress", "Completed"}, ended : BOOLEAN, closed : BOOLEAN]
ExecRow == [state : {"none", "live", "deleted"}, status : Statuses \cup {"Untested"},
            retries : 0..MaxRetries, assignee : People \cup {Nobody}]

HistoryRow == [late : SUBSET Rows, dangling : SUBSET Rows, left : SUBSET Rows]

RowsTyped ==
    /\ cycle \in [Runs -> CycleRow]
    /\ item \in [Rows -> {"none", "live", "deleted"}]
    /\ exec \in [Rows -> ExecRow]
    /\ deleting \subseteq Runs /\ doomed \subseteq Rows /\ members \subseteq People
    /\ leave \in [people : SUBSET members, rows : SUBSET Rows]
    /\ history \in HistoryRow

SameCell(i, j) == i[1] = j[1] /\ i[2] = j[2]

(* A row and its execution come and go together, a run has one of a case,  *)
(* and a run that is not there yet is blank.                               *)
RowsAgree ==
    /\ \A i \in Rows : exec[i].state = item[i]
    /\ \A i, j \in Rows : item[i] = "live" /\ item[j] = "live" /\ SameCell(i, j) => i = j
    /\ \A r \in Runs : cycle[r].state = "none" => cycle[r].build = NoBuild /\ ~cycle[r].closed

(* A deletion holds the run and the rows it has found, and misses none but *)
(* those of a statement it overlaps.                                       *)
DeletionsAgree ==
    /\ \A r \in deleting : cycle[r].state = "live"
    /\ \A i \in doomed : i[1] \in deleting
    /\ \A i \in Rows : item[i] = "live" /\ i[1] \in deleting => i \in doomed \/ i \in history.late

(* Who is assigned is a member or was one when it was checked; a removal    *)
(* from the project that is under way holds the rows it has to clear, and   *)
(* misses none but those assigned since.                                    *)
AssigneesAgree ==
    /\ \A i \in Rows : exec[i].state = "live" /\ exec[i].assignee \notin members \cup {Nobody} =>
         i \in history.dangling \cup history.left
    /\ \A i \in Rows : exec[i].state = "live" /\ exec[i].assignee \in leave.people =>
         i \in leave.rows \cup history.dangling

RowsInv == RowsTyped /\ RowsAgree /\ DeletionsAgree /\ DeletedRunIsEmpty /\ AssigneesAgree

-----------------------------------------------------------------------------
(* The requests                                                            *)

Ops == {"none", "createRun", "recordResult", "addCases", "closeRun", "removeCases", "deleteCycle",
        "updateCycle", "bulk", "linkBug"}
Places == {"new", "lookup", "create", "relookup", "require", "attach", "insert", "update", "close",
           "remove", "delete", "commit", "items", "save", "resolve", "each", "write", "link",
           "fail", "ok", "refused", "error"}
Said == Statuses \cup {"Untested", "Planning", "In Progress", "Completed"}

ReqRow == [op : Ops, pc : Places, run : Runs \cup {NoRun}, build : Builds \cup {NoBuild}, cases : SUBSET Cases,
           status : Said, retry : 0..NoRetry, person : People \cup {Nobody}, todo : SUBSET Rows,
           sets : SUBSET {"status", "assignee"}, row : Rows \cup {NoRow}, seen : BOOLEAN, overtaken : BOOLEAN]

(* Where a request of each kind can be, and what it then brings.           *)
Stage(x) ==
    \/ x.op = "none" /\ x.pc \in {"new", "ok", "refused", "error"}
    \/ x.op = "createRun" /\ x.pc \in {"lookup", "create", "relookup", "attach", "insert"} /\ x.build \in Builds
    \/ /\ x.op = "recordResult" /\ x.pc \in {"require", "attach", "insert", "update"}
       /\ x.status \in Statuses /\ \E t \in Cases : x.cases = {t}
    \/ x.op = "addCases" /\ x.pc \in {"require", "attach", "insert"}
    \/ x.op = "closeRun" /\ x.pc \in {"require", "close"}
    \/ x.op = "removeCases" /\ x.pc \in {"require", "remove"}
    \/ x.op = "deleteCycle" /\ x.pc \in {"require", "delete", "commit"}
    \/ x.op = "updateCycle" /\ x.pc \in {"require", "items", "save"} /\ x.status \in {"Planning", "In Progress", "Completed"}
    \/ /\ x.op = "bulk" /\ x.pc \in {"require", "resolve", "each", "write"}
       /\ x.status \in Statuses \cup {"Untested"} /\ (x.pc = "write" => x.row \in Rows)
    \/ x.op = "linkBug" /\ x.pc \in {"link", "fail"} /\ x.row \in Rows

(* A request past its lookup is about a run that has been there.           *)
OnRun(x) ==
    x.pc \in {"require", "attach", "insert", "update", "close", "remove", "delete", "commit", "items", "save",
              "resolve", "each", "write"} =>
      x.run \in Runs /\ cycle[x.run].state # "none"

(* What a request has checked still holds when it writes, or it knows not  *)
(* that it was overtaken.                                                  *)
Checked(x) ==
    /\ x.pc = "commit" => x.run \in deleting
    /\ x.pc = "insert" /\ x.seen /\ cycle[x.run].state # "live" => x.overtaken
    /\ x.pc = "write" /\ ~x.overtaken => x.person \in members \cup {Nobody}
    /\ x.pc = "close" /\ cycle[x.run].closed /\ cycle[x.run].status # "Completed" => x.overtaken

ReqGood(x) == x \in ReqRow /\ Stage(x) /\ OnRun(x) /\ Checked(x)

(* One transaction deletes a run.                                          *)
OneCommit == \A q, p \in Requests : At(q, "commit") /\ At(p, "commit") /\ req[q].run = req[p].run => q = p

ReqsInv ==
    /\ req \in [Requests -> ReqRow]
    /\ \A q \in Requests : ReqGood(req[q])
    /\ OneCommit

RunsInv == RowsInv /\ ReqsInv

-----------------------------------------------------------------------------
(* A request that moves on                                                  *)

SameButPc(x, y) ==
    /\ x.op = y.op /\ x.run = y.run /\ x.build = y.build /\ x.cases = y.cases /\ x.status = y.status
    /\ x.retry = y.retry /\ x.person = y.person /\ x.todo = y.todo /\ x.row = y.row /\ x.sets = y.sets
    /\ x.seen = y.seen /\ x.overtaken = y.overtaken

Becomes(q, x) == req' = [req EXCEPT ![q] = x]

(* A request that is not made yet or is answered                            *)
Idle(x) == x \in ReqRow /\ x.op = "none" /\ x.pc \in {"new", "ok", "refused", "error"}

LEMMA NewRequestTyped == NewRequest \in ReqRow /\ Idle(NewRequest)
<1>1. "none" \in Ops /\ "new" \in Places /\ "Untested" \in Said /\ MaxRetries + 1 \in 0..NoRetry
  BY TestRunsAssumption DEF Ops, Places, Said, NoRetry
<1> QED
  BY <1>1 DEF NewRequest, ReqRow, Idle

LEMMA IdleGood ==
  ASSUME NEW x, Idle(x)
  PROVE  ReqGood(x) /\ ReqGood(x)'
<1>1. x \in ReqRow /\ Stage(x)
  BY DEF Idle, Stage
<1>2. x.pc \in {"new", "ok", "refused", "error"}
  BY DEF Idle
<1> QED
  BY <1>1, <1>2 DEF ReqGood, OnRun, Checked

LEMMA GotoBecomes ==
  ASSUME req \in [Requests -> ReqRow], NEW q \in Requests,
         NEW pc \in Places, Goto(q, pc)
  PROVE  \E x \in ReqRow : Becomes(q, x) /\ x.pc = pc /\ SameButPc(x, req[q])
<1> DEFINE x == [req[q] EXCEPT !.pc = pc]
<1>1. req[q] \in ReqRow
  OBVIOUS
<1>2. x \in ReqRow /\ x.pc = pc
  BY <1>1 DEF ReqRow
<1>3. SameButPc(x, req[q])
  BY <1>1 DEF ReqRow, SameButPc
<1>4. Becomes(q, x)
  BY <1>1 DEF Goto, Becomes, ReqRow
<1> QED
  BY <1>2, <1>3, <1>4

LEMMA EndedIdle ==
  ASSUME req \in [Requests -> ReqRow], NEW q \in Requests, NEW pc \in {"ok", "refused", "error"}
  PROVE  Idle(Ended(q, pc))
<1> DEFINE r == IF pc = "ok" THEN req[q].run ELSE NoRun
<1>1. r \in Runs \cup {NoRun} /\ pc \in Places
  BY DEF ReqRow, Places
<1>2. Ended(q, pc) = [NewRequest EXCEPT !.pc = pc, !.run = r]
  BY DEF Ended
<1> HIDE DEF r
<1>3. NewRequest \in ReqRow /\ NewRequest.op = "none"
  BY NewRequestTyped DEF Idle
<1>4. [NewRequest EXCEPT !.pc = pc, !.run = r] \in ReqRow
  BY <1>1, <1>3 DEF ReqRow
<1>5. Ended(q, pc).op = "none" /\ Ended(q, pc).pc = pc
  BY <1>2, <1>3 DEF ReqRow
<1> QED
  BY <1>2, <1>4, <1>5 DEF Idle

LEMMA EndBecomes ==
  ASSUME req \in [Requests -> ReqRow], NEW q \in Requests, Answer(q) \/ Refuse(q) \/ Fail(q)
  PROVE  \E x : Idle(x) /\ Becomes(q, x)
<1>1. Idle(Ended(q, "ok")) /\ Idle(Ended(q, "refused")) /\ Idle(Ended(q, "error"))
  BY EndedIdle
<1> QED
  BY <1>1 DEF Answer, Refuse, Fail, Becomes

LEMMA RowsStay ==
  ASSUME UNCHANGED rowVars
  PROVE  /\ RowsInv => RowsInv'
         /\ \A x : ReqGood(x) => ReqGood(x)'
<1> USE DEF rowVars
<1>1. RowsTyped => RowsTyped'
  BY DEF RowsTyped
<1>2. RowsAgree => RowsAgree'
  BY DEF RowsAgree
<1>3. DeletionsAgree => DeletionsAgree'
  BY DEF DeletionsAgree
<1>4. (DeletedRunIsEmpty => DeletedRunIsEmpty') /\ (AssigneesAgree => AssigneesAgree')
  BY DEF DeletedRunIsEmpty, AssigneesAgree
<1>5. ASSUME NEW x, ReqGood(x) PROVE ReqGood(x)'
  BY <1>5 DEF ReqGood, OnRun, Checked
<1> QED
  BY <1>1, <1>2, <1>3, <1>4, <1>5 DEF RowsInv

(* One request moves, and what the others have checked still holds.         *)
LEMMA OneRequestMoves ==
  ASSUME ReqsInv, NEW q \in Requests, NEW x, Becomes(q, x), ReqGood(x)',
         \A y : (\E p \in Requests \ {q} : y = req[p]) => ReqGood(y)',
         x.pc = "commit" => \A p \in Requests \ {q} : ~(At(p, "commit") /\ req[p].run = x.run)
  PROVE  ReqsInv'
<1>1. x \in ReqRow
  BY DEF ReqGood
<1>2. /\ req' \in [Requests -> ReqRow] /\ req'[q] = x
      /\ \A p \in Requests \ {q} : req'[p] = req[p]
  BY <1>1 DEF ReqsInv, Becomes
<1>3. ASSUME NEW p \in Requests PROVE ReqGood(req[p])'
  <2>1. PICK y : y = req'[p]
    OBVIOUS
  <2>2. ReqGood(y)'
    BY <1>2, <2>1
  <2> QED
    BY <2>1, <2>2 DEF ReqGood, OnRun, Checked
<1>4. OneCommit'
  BY <1>2 DEF ReqsInv, OneCommit, At
<1> QED
  BY <1>2, <1>3, <1>4 DEF ReqsInv

LEMMA RequestOnly ==
  ASSUME RunsInv, NEW q \in Requests, NEW x, Becomes(q, x), ReqGood(x), x.pc # "commit", UNCHANGED rowVars
  PROVE  RunsInv'
<1>1. RowsInv' /\ ReqGood(x)' /\ \A p \in Requests : \A y : y = req[p] => ReqGood(y)'
  BY RowsStay DEF RunsInv, ReqsInv
<1> QED
  BY <1>1, OneRequestMoves DEF RunsInv

-----------------------------------------------------------------------------
(* Requests that arrive                                                     *)

LEMMA RequestKeeps ==
  ASSUME RunsInv, NEW q \in Requests, NEW x, Request(q, x), ReqGood(x), x.pc # "commit"
  PROVE  RunsInv'
  BY RequestOnly DEF Request, Becomes

LEMMA CallsKeep ==
  ASSUME RunsInv, NEW q \in Requests
  PROVE  /\ \A b \in Builds, cs \in SUBSET Cases : CallCreateRun(q, b, cs) => RunsInv'
         /\ \A r \in Known :
              /\ \A t \in Cases, s \in Statuses, n \in {0, NoRetry} : CallRecordResult(q, r, t, s, n) => RunsInv'
              /\ \A op \in {"closeRun", "deleteCycle"} : CallOnRun(q, op, r) => RunsInv'
              /\ \A cs \in SUBSET Cases : \A op \in {"addCases", "removeCases"} : CallOnCases(q, op, r, cs) => RunsInv'
              /\ \A s \in {"In Progress", "Completed", "Planning"} : CallUpdateCycle(q, r, s) => RunsInv'
              /\ \A rows \in SUBSET Rows, S \in SUBSET {"status", "assignee"}, s \in Settable, p \in People \cup {Nobody} :
                   CallBulk(q, r, rows, S, s, p) => RunsInv'
         /\ \A i \in Rows :
              /\ CallLinkBug(q, i) => RunsInv'
              /\ i[1] \in Known =>
                   \A S \in SUBSET {"status", "assignee"}, s \in Settable, p \in People \cup {Nobody} :
                     CallUpdateExecution(q, i, S, s, p) => RunsInv'
<1>0. NewRequest \in ReqRow /\ NewRequest = [op |-> "none", pc |-> "new", run |-> NoRun, build |-> NoBuild, cases |-> {},
               status |-> "Untested", retry |-> NoRetry, person |-> Nobody, sets |-> {},
               todo |-> {}, row |-> NoRow, seen |-> FALSE, overtaken |-> FALSE]
  BY NewRequestTyped DEF NewRequest, NoRetry
<1>w. {"Untested", "In Progress", "Completed", "Planning"} \cup Statuses \subseteq Said
  BY DEF Said
<1>p. {"recordResult", "addCases", "removeCases", "closeRun", "deleteCycle", "updateCycle", "bulk"} \subseteq Ops
      /\ "require" \in Places
  BY DEF Ops, Places
<1>n. 0 \in 0..NoRetry /\ NoRetry \in 0..NoRetry
  BY TestRunsAssumption DEF NoRetry
<1>g. ASSUME NEW x \in ReqRow, x.pc = "require", x.run \in Known, Request(q, x),
             \/ x.op = "recordResult" /\ x.status \in Statuses /\ \E t \in Cases : x.cases = {t}
             \/ x.op \in {"addCases", "removeCases", "closeRun", "deleteCycle"}
             \/ x.op = "updateCycle" /\ x.status \in {"Planning", "In Progress", "Completed"}
             \/ x.op = "bulk" /\ x.status \in Settable
      PROVE  RunsInv'
  <2>1. Stage(x)
    BY <1>g DEF Stage, Settable
  <2>2. OnRun(x) /\ Checked(x)
    BY <1>g DEF OnRun, Checked, Known
  <2> QED
    BY <1>g, <2>1, <2>2, RequestKeeps DEF ReqGood
<1>1. ASSUME NEW b \in Builds, NEW cs \in SUBSET Cases, CallCreateRun(q, b, cs) PROVE RunsInv'
  <2>1. PICK x : x = [NewRequest EXCEPT !.op = "createRun", !.pc = "lookup", !.build = b, !.cases = cs]
    OBVIOUS
  <2>2. "createRun" \in Ops /\ "lookup" \in Places
    BY DEF Ops, Places
  <2>3. x \in ReqRow /\ x.op = "createRun" /\ x.pc = "lookup" /\ x.build = b
    BY <1>0, <2>1, <2>2 DEF ReqRow
  <2>4. ReqGood(x)
    BY <2>3 DEF ReqGood, Stage, OnRun, Checked
  <2> QED
    BY <1>1, <2>1, <2>3, <2>4, RequestKeeps DEF CallCreateRun
<1>2. ASSUME NEW r \in Known, NEW t \in Cases, NEW s \in Statuses, NEW n \in {0, NoRetry}, CallRecordResult(q, r, t, s, n)
      PROVE  RunsInv'
  <2>1. PICK x : x = [NewRequest EXCEPT !.op = "recordResult", !.pc = "require", !.run = r, !.cases = {t},
                                     !.status = s, !.retry = n]
    OBVIOUS
  <2>2. r \in Runs
    BY DEF Known
  <2>3. x \in ReqRow /\ x.pc = "require" /\ x.run = r /\ x.op = "recordResult" /\ x.status = s /\ x.cases = {t}
    BY <1>0, <1>n, <1>p, <1>w, <2>1, <2>2 DEF ReqRow
  <2>4. Request(q, x)
    BY <1>2, <2>1 DEF CallRecordResult
  <2> QED
    BY <1>g, <2>3, <2>4
<1>3. ASSUME NEW r \in Known, NEW op \in {"closeRun", "deleteCycle"}, CallOnRun(q, op, r)
      PROVE  RunsInv'
  <2>1. PICK x : x = [NewRequest EXCEPT !.op = op, !.pc = "require", !.run = r]
    OBVIOUS
  <2>2. r \in Runs
    BY DEF Known
  <2>3. x \in ReqRow /\ x.pc = "require" /\ x.run = r /\ x.op = op
    BY <1>0, <1>n, <1>p, <1>w, <2>1, <2>2 DEF ReqRow
  <2>4. Request(q, x)
    BY <1>3, <2>1 DEF CallOnRun
  <2> QED
    BY <1>g, <2>3, <2>4
<1>4. ASSUME NEW r \in Known, NEW cs \in SUBSET Cases, NEW op \in {"addCases", "removeCases"}, CallOnCases(q, op, r, cs)
      PROVE  RunsInv'
  <2>1. PICK x : x = [NewRequest EXCEPT !.op = op, !.pc = "require", !.run = r, !.cases = cs]
    OBVIOUS
  <2>2. r \in Runs
    BY DEF Known
  <2>3. x \in ReqRow /\ x.pc = "require" /\ x.run = r /\ x.op = op
    BY <1>0, <1>n, <1>p, <1>w, <2>1, <2>2 DEF ReqRow
  <2>4. Request(q, x)
    BY <1>4, <2>1 DEF CallOnCases
  <2> QED
    BY <1>g, <2>3, <2>4
<1>5. ASSUME NEW r \in Known, NEW s \in {"In Progress", "Completed", "Planning"}, CallUpdateCycle(q, r, s)
      PROVE  RunsInv'
  <2>1. PICK x : x = [NewRequest EXCEPT !.op = "updateCycle", !.pc = "require", !.run = r, !.status = s]
    OBVIOUS
  <2>2. r \in Runs
    BY DEF Known
  <2>3. x \in ReqRow /\ x.pc = "require" /\ x.run = r /\ x.op = "updateCycle" /\ x.status = s
    BY <1>0, <1>n, <1>p, <1>w, <2>1, <2>2 DEF ReqRow
  <2>4. Request(q, x)
    BY <1>5, <2>1 DEF CallUpdateCycle
  <2> QED
    BY <1>g, <2>3, <2>4
<1>6. ASSUME NEW r \in Known, NEW rows \in SUBSET Rows, NEW S \in SUBSET {"status", "assignee"},
             NEW s \in Settable, NEW p \in People \cup {Nobody}, CallBulk(q, r, rows, S, s, p)
      PROVE  RunsInv'
  <2>1. PICK x : x = [NewRequest EXCEPT !.op = "bulk", !.pc = "require", !.run = r, !.todo = rows,
                                     !.sets = S, !.status = s, !.person = p]
    OBVIOUS
  <2>2. r \in Runs /\ s \in Said
    BY <1>w DEF Known, Settable
  <2>3. x \in ReqRow /\ x.pc = "require" /\ x.run = r /\ x.op = "bulk" /\ x.status = s
    BY <1>0, <1>n, <1>p, <2>1, <2>2 DEF ReqRow
  <2>4. Request(q, x)
    BY <1>6, <2>1 DEF CallBulk
  <2> QED
    BY <1>g, <2>3, <2>4
<1>8. ASSUME NEW i \in Rows, i[1] \in Known, NEW S \in SUBSET {"status", "assignee"},
             NEW s \in Settable, NEW p \in People \cup {Nobody}, CallUpdateExecution(q, i, S, s, p)
      PROVE  RunsInv'
  <2>1. PICK x : x = [NewRequest EXCEPT !.op = "bulk", !.pc = "each", !.run = i[1], !.todo = {i},
                                     !.sets = S, !.status = s, !.person = p]
    OBVIOUS
  <2>2. i[1] \in Runs /\ cycle[i[1]].state # "none" /\ s \in Said /\ "each" \in Places
    BY <1>w, <1>8 DEF Known, Settable, Places
  <2>3. x \in ReqRow /\ x.pc = "each" /\ x.run = i[1] /\ x.op = "bulk" /\ x.status = s
    BY <1>0, <1>p, <2>1, <2>2 DEF ReqRow
  <2>4. ReqGood(x)
    BY <2>2, <2>3 DEF ReqGood, Stage, OnRun, Checked, Settable
  <2> QED
    BY <1>8, <2>1, <2>3, <2>4, RequestKeeps DEF CallUpdateExecution
<1>7. ASSUME NEW i \in Rows, CallLinkBug(q, i) PROVE RunsInv'
  <2>1. PICK x : x = [NewRequest EXCEPT !.op = "linkBug", !.pc = "link", !.run = i[1], !.row = i]
    OBVIOUS
  <2>2. "linkBug" \in Ops /\ "link" \in Places /\ i[1] \in Runs
    BY DEF Ops, Places, Rows
  <2>3. x \in ReqRow /\ x.op = "linkBug" /\ x.pc = "link" /\ x.row = i
    BY <1>0, <2>1, <2>2 DEF ReqRow
  <2>4. ReqGood(x)
    BY <2>3 DEF ReqGood, Stage, OnRun, Checked
  <2> QED
    BY <1>7, <2>1, <2>3, <2>4, RequestKeeps DEF CallLinkBug
<1> QED
  BY <1>1, <1>2, <1>3, <1>4, <1>5, <1>6, <1>7, <1>8

-----------------------------------------------------------------------------
(* Steps that move a request and write nothing                              *)

LEMMA RequestIsGood ==
  ASSUME RunsInv, NEW q \in Requests
  PROVE  req \in [Requests -> ReqRow] /\ req[q] \in ReqRow /\ Stage(req[q]) /\ OnRun(req[q]) /\ Checked(req[q])
  BY DEF RunsInv, ReqsInv, ReqGood

LEMMA EndKeeps ==
  ASSUME RunsInv, NEW q \in Requests, Answer(q) \/ Refuse(q) \/ Fail(q), UNCHANGED rowVars
  PROVE  RunsInv'
<1>1. PICK x : Idle(x) /\ Becomes(q, x)
  BY RequestIsGood, EndBecomes
<1>2. ReqGood(x) /\ x.pc # "commit"
  BY <1>1, IdleGood DEF Idle
<1> QED
  BY <1>1, <1>2, RequestOnly

(* A step from one place of a request to the next, where it need not have   *)
(* checked anything                                                         *)
LEMMA GotoKeeps ==
  ASSUME RunsInv, NEW q \in Requests, NEW pc \in Places, Goto(q, pc), UNCHANGED rowVars,
         pc \notin {"commit", "insert", "write"},
         \A x \in ReqRow : x.pc = pc /\ SameButPc(x, req[q]) => Stage(x) /\ OnRun(x),
         pc = "close" => ~cycle[req[q].run].closed
  PROVE  RunsInv'
<1>1. PICK x \in ReqRow : Becomes(q, x) /\ x.pc = pc /\ SameButPc(x, req[q])
  BY RequestIsGood, GotoBecomes
<1>2. Stage(x) /\ OnRun(x)
  BY <1>1
<1>3. Checked(x)
  BY <1>1 DEF Checked, SameButPc
<1> QED
  BY <1>1, <1>2, <1>3, RequestOnly DEF ReqGood

LEMMA ReuseKeeps ==
  ASSUME RunsInv, NEW q \in Requests, Reuse(q), req[q].op = "createRun", req[q].build \in Builds, UNCHANGED rowVars
  PROVE  RunsInv'
<1>1. PICK r \in LiveRuns(req[q].build) : req' = [req EXCEPT ![q].run = r, ![q].pc = "attach"]
  BY DEF Reuse
<1>2. PICK x : x = [req[q] EXCEPT !.run = r, !.pc = "attach"]
  OBVIOUS
<1>3. req[q] \in ReqRow /\ req \in [Requests -> ReqRow]
  BY RequestIsGood
<1>4. r \in Runs /\ cycle[r].state = "live" /\ "attach" \in Places
  BY DEF LiveRuns, Places
<1>5. x \in ReqRow /\ x.op = "createRun" /\ x.pc = "attach" /\ x.run = r /\ x.build \in Builds
  BY <1>2, <1>3, <1>4 DEF ReqRow
<1>6. Becomes(q, x)
  BY <1>1, <1>2, <1>3 DEF Becomes, ReqRow
<1>7. ReqGood(x)
  BY <1>4, <1>5 DEF ReqGood, Stage, OnRun, Checked
<1> QED
  BY <1>5, <1>6, <1>7, RequestOnly

LEMMA LookupsKeep ==
  ASSUME RunsInv, NEW q \in Requests, LookupRun(q) \/ InsertLost(q) \/ RelookupRun(q)
  PROVE  RunsInv'
<1>1. req[q].op = "createRun" /\ req[q].build \in Builds /\ UNCHANGED rowVars
  BY RequestIsGood DEF LookupRun, InsertLost, RelookupRun, At, Stage
<1>2. ASSUME NEW pc \in {"create", "relookup"}, Goto(q, pc) PROVE RunsInv'
  <2>1. pc \in Places
    BY DEF Places
  <2>2. \A x \in ReqRow : x.pc = pc /\ SameButPc(x, req[q]) => Stage(x) /\ OnRun(x)
    BY <1>1 DEF SameButPc, Stage, OnRun
  <2> QED
    BY <1>1, <1>2, <2>1, <2>2, GotoKeeps
<1>3. Reuse(q) => RunsInv'
  BY <1>1, ReuseKeeps
<1>4. Fail(q) => RunsInv'
  BY <1>1, EndKeeps
<1> QED
  BY <1>2, <1>3, <1>4 DEF LookupRun, InsertLost, RelookupRun

LEMMA RequireKeeps ==
  ASSUME RunsInv, NEW q \in Requests, Require(q)
  PROVE  RunsInv'
<1>1. req[q] \in ReqRow /\ Stage(req[q]) /\ OnRun(req[q]) /\ req[q].pc = "require" /\ UNCHANGED rowVars
  BY RequestIsGood DEF Require, At
<1>2. CASE req[q].op # "closeRun" /\ Goto(q, AfterRequire(req[q].op))
  <2>1. PICK pc : pc = AfterRequire(req[q].op)
    OBVIOUS
  <2>2. \/ req[q].op \in {"recordResult", "addCases"} /\ pc = "attach"
        \/ req[q].op = "removeCases" /\ pc = "remove"
        \/ req[q].op = "deleteCycle" /\ pc = "delete"
        \/ req[q].op = "updateCycle" /\ pc = "items"
        \/ req[q].op = "bulk" /\ pc = "resolve"
    BY <1>1, <1>2, <2>1 DEF Stage, AfterRequire
  <2>3. pc \in Places /\ pc \notin {"commit", "insert", "write", "close"}
    BY <2>2 DEF Places
  <2>4. \A x \in ReqRow : x.pc = pc /\ SameButPc(x, req[q]) => Stage(x)
    BY <1>1, <2>2 DEF SameButPc, Stage
  <2>5. \A x \in ReqRow : x.pc = pc /\ SameButPc(x, req[q]) => OnRun(x)
    BY <1>1 DEF SameButPc, OnRun
  <2> QED
    BY <1>1, <1>2, <2>1, <2>3, <2>4, <2>5, GotoKeeps
<1>3. CASE req[q].op = "closeRun" /\ ~cycle[req[q].run].closed /\ Goto(q, "close")
  <2>1. "close" \in Places
    BY DEF Places
  <2>2. \A x \in ReqRow : x.pc = "close" /\ SameButPc(x, req[q]) => Stage(x) /\ OnRun(x)
    BY <1>1, <1>3 DEF SameButPc, Stage, OnRun
  <2> QED
    BY <1>1, <1>3, <2>1, <2>2, GotoKeeps
<1>4. CASE Answer(q) \/ Refuse(q)
  BY <1>1, <1>4, EndKeeps
<1> QED
  BY <1>2, <1>3, <1>4 DEF Require

LEMMA ReadForAttachKeeps ==
  ASSUME RunsInv, NEW q \in Requests, ReadForAttach(q)
  PROVE  RunsInv'
<1>1. /\ req \in [Requests -> ReqRow] /\ req[q] \in ReqRow
      /\ Stage(req[q]) /\ OnRun(req[q]) /\ req[q].pc = "attach" /\ UNCHANGED rowVars
  BY RequestIsGood DEF ReadForAttach, At
<1>2. PICK b \in BOOLEAN : b = RunExists(req[q].run)
  BY DEF RunExists
<1>3. PICK x : x = [req[q] EXCEPT !.seen = b, !.pc = "insert"]
  OBVIOUS
<1>4. "insert" \in Places
  BY DEF Places
<1>5. /\ x \in ReqRow /\ x.pc = "insert" /\ x.seen = b /\ x.op = req[q].op /\ x.run = req[q].run
      /\ x.build = req[q].build /\ x.status = req[q].status /\ x.cases = req[q].cases
  BY <1>1, <1>3, <1>4 DEF ReqRow
<1>6. Becomes(q, x)
  BY <1>1, <1>2, <1>3 DEF ReadForAttach, Becomes, ReqRow
<1>7. Stage(x) /\ OnRun(x)
  BY <1>1, <1>5 DEF Stage, OnRun
<1>8. Checked(x)
  BY <1>2, <1>5 DEF Checked, RunExists
<1> QED
  BY <1>1, <1>5, <1>6, <1>7, <1>8, RequestOnly DEF ReqGood

LEMMA CheckItemsKeeps ==
  ASSUME RunsInv, NEW q \in Requests, CheckItems(q)
  PROVE  RunsInv'
<1>1. Stage(req[q]) /\ OnRun(req[q]) /\ req[q].pc = "items" /\ UNCHANGED rowVars
  BY RequestIsGood DEF CheckItems, At
<1>2. ASSUME Goto(q, "save") PROVE RunsInv'
  <2>1. "save" \in Places
    BY DEF Places
  <2>2. \A x \in ReqRow : x.pc = "save" /\ SameButPc(x, req[q]) => Stage(x) /\ OnRun(x)
    BY <1>1 DEF SameButPc, Stage, OnRun
  <2> QED
    BY <1>1, <1>2, <2>1, <2>2, GotoKeeps
<1>3. Refuse(q) => RunsInv'
  BY <1>1, EndKeeps
<1> QED
  BY <1>2, <1>3 DEF CheckItems

LEMMA ResolveBulkKeeps ==
  ASSUME RunsInv, NEW q \in Requests, ResolveBulk(q)
  PROVE  RunsInv'
<1>1. Stage(req[q]) /\ OnRun(req[q]) /\ req[q].pc = "resolve" /\ UNCHANGED rowVars
  BY RequestIsGood DEF ResolveBulk, At
<1>2. ASSUME Goto(q, "each") PROVE RunsInv'
  <2>1. "each" \in Places
    BY DEF Places
  <2>2. \A x \in ReqRow : x.pc = "each" /\ SameButPc(x, req[q]) => Stage(x) /\ OnRun(x)
    BY <1>1 DEF SameButPc, Stage, OnRun
  <2> QED
    BY <1>1, <1>2, <2>1, <2>2, GotoKeeps
<1>3. Refuse(q) => RunsInv'
  BY <1>1, EndKeeps
<1> QED
  BY <1>2, <1>3 DEF ResolveBulk

LEMMA ReadExecutionKeeps ==
  ASSUME RunsInv, NEW q \in Requests, NEW i \in Rows, ReadExecution(q, i)
  PROVE  RunsInv'
<1>1. /\ req \in [Requests -> ReqRow] /\ req[q] \in ReqRow
      /\ Stage(req[q]) /\ OnRun(req[q]) /\ req[q].pc = "each" /\ UNCHANGED rowVars
  BY RequestIsGood DEF ReadExecution, At
<1>2. CASE MayAssign(q) /\ req' = [req EXCEPT ![q].row = i, ![q].pc = "write"]
  <2>1. PICK x : x = [req[q] EXCEPT !.row = i, !.pc = "write"]
    OBVIOUS
  <2>2. "write" \in Places
    BY DEF Places
  <2>3. /\ x \in ReqRow /\ x.pc = "write" /\ x.row = i /\ x.op = req[q].op /\ x.run = req[q].run
        /\ x.status = req[q].status /\ x.person = req[q].person
    BY <1>1, <2>1, <2>2 DEF ReqRow
  <2>4. Becomes(q, x)
    BY <1>1, <1>2, <2>1 DEF Becomes, ReqRow
  <2>5. Stage(x) /\ OnRun(x)
    BY <1>1, <2>3 DEF Stage, OnRun
  <2>6. Checked(x)
    BY <1>2, <2>3 DEF Checked, MayAssign
  <2> QED
    BY <1>1, <2>3, <2>4, <2>5, <2>6, RequestOnly DEF ReqGood
<1>3. CASE Refuse(q)
  BY <1>1, <1>3, EndKeeps
<1> QED
  BY <1>2, <1>3 DEF ReadExecution

LEMMA LinkBugKeeps ==
  ASSUME RunsInv, NEW q \in Requests, LinkBug(q)
  PROVE  RunsInv'
<1>1. Stage(req[q]) /\ req[q].pc = "link" /\ UNCHANGED rowVars
  BY RequestIsGood DEF LinkBug, At
<1>2. ASSUME Goto(q, "fail") PROVE RunsInv'
  <2>1. "fail" \in Places
    BY DEF Places
  <2>2. \A x \in ReqRow : x.pc = "fail" /\ SameButPc(x, req[q]) => Stage(x) /\ OnRun(x)
    BY <1>1 DEF SameButPc, Stage, OnRun
  <2> QED
    BY <1>1, <1>2, <2>1, <2>2, GotoKeeps
<1>3. Answer(q) => RunsInv'
  BY <1>1, EndKeeps
<1> QED
  BY <1>2, <1>3 DEF LinkBug

-----------------------------------------------------------------------------
(* Steps that write rows                                                    *)

LEMMA RequestWrites ==
  ASSUME ReqsInv, NEW q \in Requests, NEW x, Becomes(q, x), ReqGood(x)', x.pc # "commit",
         \A y : ReqGood(y) => ReqGood(y)'
  PROVE  ReqsInv'
<1>1. \A y : (\E p \in Requests \ {q} : y = req[p]) => ReqGood(y)'
  BY DEF ReqsInv
<1> QED
  BY <1>1, OneRequestMoves

LEMMA RequestEnds ==
  ASSUME ReqsInv, NEW q \in Requests, Answer(q) \/ Refuse(q) \/ Fail(q), \A y : ReqGood(y) => ReqGood(y)'
  PROVE  ReqsInv'
<1>1. PICK x : Idle(x) /\ Becomes(q, x)
  BY EndBecomes DEF ReqsInv
<1>2. ReqGood(x)' /\ x.pc # "commit"
  BY <1>1, IdleGood DEF Idle
<1> QED
  BY <1>1, <1>2, RequestWrites

LEMMA RowsWritten ==
  ASSUME UNCHANGED <<cycle, deleting, members>>
  PROVE  \A y : ReqGood(y) => ReqGood(y)'
<1>1. ASSUME NEW y, ReqGood(y) PROVE ReqGood(y)'
  BY <1>1 DEF ReqGood, OnRun, Checked
<1> QED
  BY <1>1

(* A run that is opened                                                     *)
LEMMA RunOpens ==
  ASSUME RowsInv, NEW r \in Runs, NEW c \in CycleRow, cycle[r].state = "none", c.state = "live", ~c.closed,
         cycle' = [cycle EXCEPT ![r] = c], UNCHANGED <<item, exec, deleting, doomed, members, leave, history>>
  PROVE  RowsInv' /\ \A y : ReqGood(y) => ReqGood(y)'
<1> USE DEF RowsInv
<1>1. RowsTyped'
  BY DEF RowsTyped
<1>2. cycle'[r] = c /\ \A s \in Runs \ {r} : cycle'[s] = cycle[s]
  BY DEF RowsTyped
<1>3. RowsAgree'
  BY <1>2 DEF RowsAgree
<1>4. DeletionsAgree'
  BY <1>2 DEF DeletionsAgree, RowsTyped
<1>5. DeletedRunIsEmpty'
  <2>1. \A i \in Rows : i[1] \in Runs
    BY DEF Rows
  <2> QED
    BY <1>2, <2>1 DEF DeletedRunIsEmpty
<1>6. AssigneesAgree'
  BY DEF AssigneesAgree
<1>7. ASSUME NEW y, ReqGood(y) PROVE ReqGood(y)'
  <2>1. OnRun(y)'
    BY <1>2, <1>7 DEF ReqGood, OnRun
  <2>2. Checked(y)'
    BY <1>2, <1>7 DEF ReqGood, OnRun, Checked
  <2> QED
    BY <1>7, <2>1, <2>2 DEF ReqGood
<1> QED
  BY <1>1, <1>3, <1>4, <1>5, <1>6, <1>7

LEMMA CreateCycleKeeps ==
  ASSUME RunsInv, NEW q \in Requests, NEW r \in Runs, CreateCycle(q, r)
  PROVE  RunsInv'
<1>1. PICK c : c = [cycle[r] EXCEPT !.state = "live"]
  OBVIOUS
<1>2. cycle \in [Runs -> CycleRow] /\ cycle[r].state = "none" /\ ~cycle[r].closed
  BY DEF RunsInv, RowsInv, RowsTyped, RowsAgree, CreateCycle
<1>3. c \in CycleRow /\ c.state = "live" /\ ~c.closed
  BY <1>1, <1>2 DEF CycleRow
<1>4. cycle' = [cycle EXCEPT ![r] = c]
  BY <1>1, <1>2 DEF CreateCycle, CycleRow
<1>5. RowsInv' /\ \A y : ReqGood(y) => ReqGood(y)'
  BY <1>2, <1>3, <1>4, RunOpens DEF RunsInv, CreateCycle
<1>6. PICK x : x = [NewRequest EXCEPT !.pc = "ok", !.run = r]
  OBVIOUS
<1>7. "ok" \in Places
  BY DEF Places
<1>8. Idle(x)
  BY <1>6, <1>7, NewRequestTyped DEF Idle, ReqRow
<1>9. ReqGood(x)' /\ x.pc # "commit" /\ Becomes(q, x)
  BY <1>6, <1>8, IdleGood DEF Idle, Becomes, CreateCycle
<1> QED
  BY <1>5, <1>9, RequestWrites DEF RunsInv

LEMMA InsertRunKeeps ==
  ASSUME RunsInv, NEW q \in Requests, NEW r \in Runs, InsertRun(q, r)
  PROVE  RunsInv'
<1>1. /\ req \in [Requests -> ReqRow] /\ req[q] \in ReqRow
      /\ req[q].op = "createRun" /\ req[q].build \in Builds
  BY RequestIsGood DEF InsertRun, At, Stage
<1>2. PICK c : c = NewCycle(req[q].build)
  OBVIOUS
<1>3. c \in CycleRow /\ c.state = "live" /\ ~c.closed
  BY <1>1, <1>2 DEF CycleRow, NewCycle
<1>4. RowsInv' /\ \A y : ReqGood(y) => ReqGood(y)'
  BY <1>2, <1>3, RunOpens DEF RunsInv, InsertRun
<1>5. PICK x : x = [req[q] EXCEPT !.run = r, !.pc = "attach"]
  OBVIOUS
<1>6. "attach" \in Places
  BY DEF Places
<1>7. x \in ReqRow /\ x.op = "createRun" /\ x.pc = "attach" /\ x.run = r /\ x.build \in Builds
  BY <1>1, <1>5, <1>6 DEF ReqRow
<1>8. Becomes(q, x)
  BY <1>1, <1>5 DEF InsertRun, Becomes, ReqRow
<1>9. cycle'[r].state = "live"
  BY <1>2, <1>3 DEF InsertRun, RunsInv, RowsInv, RowsTyped
<1>10. ReqGood(x)'
  BY <1>7, <1>9 DEF ReqGood, Stage, OnRun, Checked
<1> QED
  BY <1>4, <1>7, <1>8, <1>10, RequestWrites DEF RunsInv

(* The rows an attaching statement adds                                     *)
NewRows(q) == {NextRow(req[q].run, t) : t \in {u \in Missing(q) : FreeRows(req[q].run, u) # {}}}

LEMMA NewRowsFree ==
  ASSUME NEW q \in Requests, NEW i \in NewRows(q)
  PROVE  /\ i \in Rows /\ item[i] = "none" /\ i[1] = req[q].run
         /\ req[q].seen /\ i[2] \in req[q].cases
         /\ LiveRow(req[q].run, i[2]) = {} /\ i = NextRow(req[q].run, i[2])
<1>1. PICK t \in Missing(q) : FreeRows(req[q].run, t) # {} /\ i = NextRow(req[q].run, t)
  BY DEF NewRows
<1>2. i \in FreeRows(req[q].run, t)
  BY <1>1 DEF NextRow
<1>3. req[q].seen /\ t \in req[q].cases /\ LiveRow(req[q].run, t) = {}
  BY <1>1 DEF Missing
<1>4. i \in Rows /\ item[i] = "none" /\ i[1] = req[q].run /\ i[2] = t
  BY <1>2 DEF FreeRows
<1> QED
  BY <1>1, <1>3, <1>4

LEMMA InsertItemsWrites ==
  ASSUME NEW q \in Requests, InsertItems(q)
  PROVE  /\ item' = [i \in Rows |-> IF i \in NewRows(q) THEN "live" ELSE item[i]]
         /\ exec' = [i \in Rows |-> IF i \in NewRows(q) THEN [NoExecution EXCEPT !.state = "live"] ELSE exec[i]]
         /\ history' = IF req[q].overtaken \/ req[q].run \in deleting
                       THEN [history EXCEPT !.late = @ \cup NewRows(q)] ELSE history
         /\ UNCHANGED <<cycle, deleting, doomed, members, leave>>
  BY DEF InsertItems, NewRows, Opened

LEMMA InsertItemsRows ==
  ASSUME RunsInv, NEW q \in Requests, InsertItems(q)
  PROVE  RowsInv'
<1> DEFINE new == NewRows(q)
<1>0. RowsTyped /\ RowsAgree /\ DeletionsAgree /\ DeletedRunIsEmpty /\ AssigneesAgree
  BY DEF RunsInv, RowsInv
<1>1. \A i \in new : i \in Rows /\ item[i] = "none" /\ i[1] = req[q].run /\ req[q].seen
                     /\ LiveRow(req[q].run, i[2]) = {} /\ i = NextRow(req[q].run, i[2])
  BY NewRowsFree
<1>2. /\ item' = [i \in Rows |-> IF i \in new THEN "live" ELSE item[i]]
      /\ exec' = [i \in Rows |-> IF i \in new THEN [NoExecution EXCEPT !.state = "live"] ELSE exec[i]]
      /\ history' = IF req[q].overtaken \/ req[q].run \in deleting
                    THEN [history EXCEPT !.late = @ \cup new] ELSE history
      /\ UNCHANGED <<cycle, deleting, doomed, members, leave>>
  BY InsertItemsWrites
<1>3. Checked(req[q]) /\ req[q].pc = "insert"
  BY RequestIsGood DEF InsertItems, At
<1> HIDE DEF new
<1>4. PICK e : e = [NoExecution EXCEPT !.state = "live"]
  OBVIOUS
<1>5. e \in ExecRow /\ e.state = "live" /\ e.assignee = Nobody
  BY <1>4, TestRunsAssumption DEF ExecRow, NoExecution
<1>6. new \subseteq Rows
  BY <1>1
<1>7. /\ history' \in HistoryRow
      /\ history.late \subseteq history'.late /\ history'.dangling = history.dangling
      /\ history'.left = history.left
      /\ req[q].overtaken \/ req[q].run \in deleting => new \subseteq history'.late
  BY <1>0, <1>2, <1>6 DEF RowsTyped, HistoryRow
<1>8. RowsTyped'
  <2>1. item' \in [Rows -> {"none", "live", "deleted"}]
    BY <1>0, <1>2 DEF RowsTyped
  <2>2. exec' \in [Rows -> ExecRow]
    BY <1>0, <1>2, <1>4, <1>5 DEF RowsTyped
  <2> QED
    BY <1>0, <1>2, <1>7, <2>1, <2>2 DEF RowsTyped
<1>9. \A i \in Rows : /\ i \in new => item'[i] = "live" /\ exec'[i] = e
                      /\ i \notin new => item'[i] = item[i] /\ exec'[i] = exec[i]
  BY <1>2, <1>4
<1>10. RowsAgree'
  <2>1. \A i \in Rows : exec'[i].state = item'[i]
    BY <1>0, <1>5, <1>9 DEF RowsAgree
  <2>2. ASSUME NEW i \in Rows, NEW j \in Rows, item'[i] = "live", item'[j] = "live", SameCell(i, j) PROVE i = j
    <3>1. CASE i \in new /\ j \in new
      BY <1>1, <2>2, <3>1 DEF SameCell
    <3>2. CASE i \in new /\ j \notin new
      <4>1. j \in LiveRow(req[q].run, i[2])
        BY <1>1, <1>9, <2>2, <3>2 DEF SameCell, LiveRow, RowsOf
      <4> QED
        BY <1>1, <3>2, <4>1
    <3>3. CASE i \notin new /\ j \in new
      <4>1. i \in LiveRow(req[q].run, j[2])
        BY <1>1, <1>9, <2>2, <3>3 DEF SameCell, LiveRow, RowsOf
      <4> QED
        BY <1>1, <3>3, <4>1
    <3>4. CASE i \notin new /\ j \notin new
      BY <1>0, <1>9, <2>2, <3>4 DEF RowsAgree
    <3> QED
      BY <3>1, <3>2, <3>3, <3>4
  <2> QED
    BY <1>0, <1>2, <2>1, <2>2 DEF RowsAgree
<1>11. DeletionsAgree'
  <2>1. ASSUME NEW i \in Rows, item'[i] = "live", i[1] \in deleting PROVE i \in doomed \/ i \in history'.late
    BY <1>0, <1>1, <1>7, <1>9, <2>1 DEF DeletionsAgree
  <2> QED
    BY <1>0, <1>2, <2>1 DEF DeletionsAgree
<1>12. DeletedRunIsEmpty'
  <2>1. ASSUME NEW i \in Rows, item'[i] = "live", cycle[i[1]].state = "deleted" PROVE i \in history'.late
    BY <1>0, <1>1, <1>3, <1>7, <1>9, <2>1 DEF DeletedRunIsEmpty, Checked
  <2> QED
    BY <1>2, <2>1 DEF DeletedRunIsEmpty
<1>13. AssigneesAgree'
  BY <1>0, <1>2, <1>5, <1>7, <1>9, TestRunsAssumption DEF AssigneesAgree, RowsTyped
<1> QED
  BY <1>8, <1>10, <1>11, <1>12, <1>13 DEF RowsInv

LEMMA InsertItemsKeeps ==
  ASSUME RunsInv, NEW q \in Requests, InsertItems(q)
  PROVE  RunsInv'
<1>1. RowsInv'
  BY InsertItemsRows
<1>2. /\ Stage(req[q]) /\ OnRun(req[q]) /\ Checked(req[q]) /\ req[q].pc = "insert"
      /\ req \in [Requests -> ReqRow]
  BY RequestIsGood DEF InsertItems, At
<1>3. UNCHANGED <<cycle, deleting, members>> /\ \A y : ReqGood(y) => ReqGood(y)'
  BY RowsWritten DEF InsertItems
<1>4. CASE req[q].op = "recordResult" /\ Goto(q, "update")
  <2>1. "update" \in Places
    BY DEF Places
  <2>2. PICK x \in ReqRow : Becomes(q, x) /\ x.pc = "update" /\ SameButPc(x, req[q])
    BY <1>2, <1>4, <2>1, GotoBecomes
  <2>3. ReqGood(x)
    BY <1>2, <1>4, <2>2 DEF ReqGood, Stage, OnRun, Checked, SameButPc
  <2> QED
    BY <1>1, <1>3, <2>2, <2>3, RequestWrites DEF RunsInv
<1>5. CASE Answer(q)
  BY <1>1, <1>3, <1>5, RequestEnds DEF RunsInv
<1> QED
  BY <1>4, <1>5 DEF InsertItems

(* Rows that keep their executions and assignees                             *)
LEMMA ExecutionsWritten ==
  ASSUME RowsInv, NEW f \in [Rows -> ExecRow], exec' = f,
         \A i \in Rows : f[i].state = exec[i].state /\ f[i].assignee = exec[i].assignee,
         UNCHANGED <<cycle, item, deleting, doomed, members, leave, history>>
  PROVE  RowsInv'
<1> USE DEF RowsInv
<1>1. RowsTyped'
  BY DEF RowsTyped
<1>2. RowsAgree'
  BY DEF RowsAgree
<1>3. DeletionsAgree' /\ DeletedRunIsEmpty'
  BY DEF DeletionsAgree, DeletedRunIsEmpty
<1>4. AssigneesAgree'
  BY DEF AssigneesAgree
<1> QED
  BY <1>1, <1>2, <1>3, <1>4

LEMMA RowsUntouched ==
  ASSUME RowsInv, UNCHANGED <<cycle, item, exec, deleting, doomed, members, leave, history>>
  PROVE  RowsInv'
  BY DEF RowsInv, RowsTyped, RowsAgree, DeletionsAgree, DeletedRunIsEmpty, AssigneesAgree

LEMMA RetriesCounted ==
  ASSUME RowsTyped, NEW i \in Rows, NEW n \in 0..NoRetry, Retries(i, n) <= MaxRetries
  PROVE  Retries(i, n) \in 0..MaxRetries
<1>1. exec[i].retries \in 0..MaxRetries
  BY DEF RowsTyped, ExecRow
<1> QED
  BY <1>1, TestRunsAssumption DEF Retries, NoRetry

LEMMA UpdateResultKeeps ==
  ASSUME RunsInv, NEW q \in Requests, UpdateResult(q)
  PROVE  RunsInv'
<1>0. RowsInv /\ ReqsInv /\ RowsTyped
  BY DEF RunsInv, RowsInv
<1>1. \A y : ReqGood(y) => ReqGood(y)'
  BY RowsWritten DEF UpdateResult
<1>2. ReqsInv'
  BY <1>0, <1>1, RequestEnds DEF UpdateResult
<1>3. PICK rows : rows = UNION {LiveExecutions(req[q].run, t) : t \in req[q].cases}
  OBVIOUS
<1>4. PICK n : n = req[q].retry
  OBVIOUS
<1>5. n \in 0..NoRetry /\ req[q].status \in Statuses
  BY <1>4, RequestIsGood DEF ReqRow, UpdateResult, At, Stage
<1>6. UNCHANGED exec => RowsInv'
  BY <1>0, RowsUntouched DEF UpdateResult
<1>7. ASSUME /\ \A i \in rows : Retries(i, n) <= MaxRetries
             /\ exec' = [i \in Rows |-> IF i \in rows
                           THEN [exec[i] EXCEPT !.status = req[q].status, !.retries = Retries(i, n)]
                           ELSE exec[i]]
      PROVE  RowsInv'
  <2>1. PICK f : f = [i \in Rows |-> IF i \in rows
                         THEN [exec[i] EXCEPT !.status = req[q].status, !.retries = Retries(i, n)]
                         ELSE exec[i]]
    OBVIOUS
  <2>2. ASSUME NEW i \in Rows
        PROVE  f[i] \in ExecRow /\ f[i].state = exec[i].state /\ f[i].assignee = exec[i].assignee
    <3>1. exec[i] \in ExecRow
      BY <1>0 DEF RowsTyped
    <3>2. CASE i \in rows
      <4>1. Retries(i, n) \in 0..MaxRetries
        BY <1>0, <1>5, <1>7, <3>2, RetriesCounted
      <4>2. PICK k \in 0..MaxRetries : k = Retries(i, n)
        BY <4>1
      <4>3. f[i] = [exec[i] EXCEPT !.status = req[q].status, !.retries = k]
        BY <2>1, <3>2, <4>2
      <4> QED
        BY <1>5, <3>1, <4>3 DEF ExecRow
    <3>3. CASE i \notin rows
      BY <2>1, <3>1, <3>3
    <3> QED
      BY <3>2, <3>3
  <2>3. f \in [Rows -> ExecRow]
    <3>1. \A i \in Rows : f[i] \in ExecRow
      BY <2>2
    <3> QED
      BY <2>1, <3>1
  <2>4. UNCHANGED <<cycle, item, deleting, doomed, members, leave, history>>
    BY DEF UpdateResult
  <2>5. exec' = f
    BY <1>7, <2>1
  <2> QED
    BY <1>0, <2>2, <2>3, <2>4, <2>5, ExecutionsWritten
<1> QED
  BY <1>0, <1>2, <1>3, <1>4, <1>6, <1>7 DEF UpdateResult, RunsInv

LEMMA FailExecutionKeeps ==
  ASSUME RunsInv, NEW q \in Requests, FailExecution(q)
  PROVE  RunsInv'
<1>0. RowsInv /\ ReqsInv /\ exec \in [Rows -> ExecRow] /\ UNCHANGED <<cycle, item, deleting, doomed, members, leave, history>>
  BY DEF RunsInv, RowsInv, RowsTyped, FailExecution
<1>1. \A y : ReqGood(y) => ReqGood(y)'
  BY RowsWritten DEF FailExecution
<1>2. ReqsInv'
  BY <1>0, <1>1, RequestEnds DEF FailExecution
<1>3. PICK i : i = req[q].row
  OBVIOUS
<1>4. i \in Rows
  BY <1>3, RequestIsGood DEF FailExecution, At, Stage
<1>5. UNCHANGED exec => RowsInv'
  BY <1>0, RowsUntouched
<1>6. ASSUME exec' = [exec EXCEPT ![i].status = "Failed"] PROVE RowsInv'
  <2>1. exec[i] \in ExecRow
    BY <1>0, <1>4
  <2>2. PICK e : e = [exec[i] EXCEPT !.status = "Failed"]
    OBVIOUS
  <2>3. e \in ExecRow /\ e.state = exec[i].state /\ e.assignee = exec[i].assignee
    BY <2>1, <2>2, TestRunsAssumption DEF ExecRow
  <2>4. exec' = [exec EXCEPT ![i] = e]
    BY <1>6, <2>1, <2>2 DEF ExecRow
  <2>5. PICK f : f = [exec EXCEPT ![i] = e]
    OBVIOUS
  <2>6. f \in [Rows -> ExecRow] /\ \A j \in Rows : f[j].state = exec[j].state /\ f[j].assignee = exec[j].assignee
    BY <1>0, <1>4, <2>3, <2>5
  <2> QED
    BY <1>0, <2>4, <2>5, <2>6, ExecutionsWritten
<1> QED
  BY <1>0, <1>2, <1>3, <1>5, <1>6 DEF FailExecution, RunsInv

(* A run that is there and stays there, however it is closed or reopened     *)
LEMMA CycleWritten ==
  ASSUME RowsInv, NEW r \in Runs, NEW c \in CycleRow, c.state = cycle[r].state, c.state # "none",
         cycle' = [cycle EXCEPT ![r] = c], UNCHANGED <<item, exec, deleting, doomed, members, leave, history>>
  PROVE  RowsInv'
<1> USE DEF RowsInv
<1>1. RowsTyped'
  BY DEF RowsTyped
<1>2. cycle'[r] = c /\ \A s \in Runs \ {r} : cycle'[s] = cycle[s]
  BY DEF RowsTyped
<1>3. \A s \in Runs : cycle'[s].state = cycle[s].state
  BY <1>2
<1>4. RowsAgree'
  BY <1>2 DEF RowsAgree
<1>5. DeletionsAgree'
  BY <1>3 DEF DeletionsAgree, RowsTyped
<1>6. DeletedRunIsEmpty'
  <2>1. \A i \in Rows : i[1] \in Runs
    BY DEF Rows
  <2> QED
    BY <1>3, <2>1 DEF DeletedRunIsEmpty
<1>7. AssigneesAgree'
  BY DEF AssigneesAgree
<1> QED
  BY <1>1, <1>4, <1>5, <1>6, <1>7

LEMMA CloseRunKeeps ==
  ASSUME RunsInv, NEW q \in Requests, CloseRun(q)
  PROVE  RunsInv'
<1>1. PICK r : r = req[q].run
  OBVIOUS
<1>2. r \in Runs /\ cycle[r].state # "none" /\ cycle \in [Runs -> CycleRow]
  BY <1>1, RequestIsGood DEF CloseRun, At, OnRun, RunsInv, RowsInv, RowsTyped
<1>3. PICK c : c = [cycle[r] EXCEPT !.status = "Completed", !.ended = TRUE, !.closed = TRUE]
  OBVIOUS
<1>4. c \in CycleRow /\ c.state = cycle[r].state /\ c.status = "Completed"
  BY <1>2, <1>3 DEF CycleRow
<1>5. cycle' = [cycle EXCEPT ![r] = c]
  BY <1>1, <1>2, <1>3 DEF CloseRun
<1>6. RowsInv'
  BY <1>2, <1>4, <1>5, CycleWritten DEF CloseRun, RunsInv
<1>7. cycle'[r] = c /\ \A s \in Runs \ {r} : cycle'[s] = cycle[s]
  BY <1>2, <1>5
<1>8. ASSUME NEW y, ReqGood(y) PROVE ReqGood(y)'
  <2>1. OnRun(y)'
    BY <1>4, <1>7, <1>8 DEF ReqGood, OnRun
  <2>2. Checked(y)'
    BY <1>4, <1>7, <1>8 DEF ReqGood, OnRun, Checked, CloseRun
  <2> QED
    BY <1>8, <2>1, <2>2 DEF ReqGood
<1> QED
  BY <1>6, <1>8, RequestEnds DEF CloseRun, RunsInv

(* Rows that go, with their executions                                       *)
LEMMA DeleteRowsWrites ==
  ASSUME RowsTyped, NEW rows, DeleteRows(rows)
  PROVE  /\ item' \in [Rows -> {"none", "live", "deleted"}] /\ exec' \in [Rows -> ExecRow]
         /\ \A i \in Rows :
              /\ i \in rows => item'[i] = "deleted" /\ exec'[i].state = "deleted"
              /\ i \notin rows => item'[i] = item[i] /\ exec'[i] = exec[i]
<1>1. item' = [i \in Rows |-> IF i \in rows THEN "deleted" ELSE item[i]]
  BY DEF DeleteRows
<1>2. exec' = [i \in Rows |-> IF i \in rows THEN [exec[i] EXCEPT !.state = "deleted"] ELSE exec[i]]
  BY DEF DeleteRows, DeleteExecutions
<1>3. ASSUME NEW i \in Rows
      PROVE  exec[i] \in ExecRow /\ [exec[i] EXCEPT !.state = "deleted"] \in ExecRow
             /\ [exec[i] EXCEPT !.state = "deleted"].state = "deleted"
  BY DEF RowsTyped, ExecRow
<1>4. item' \in [Rows -> {"none", "live", "deleted"}]
  BY <1>1 DEF RowsTyped
<1>5. exec' \in [Rows -> ExecRow]
  BY <1>2, <1>3
<1> QED
  BY <1>1, <1>2, <1>3, <1>4, <1>5

LEMMA RemoveCasesKeeps ==
  ASSUME RunsInv, NEW q \in Requests, RemoveCases(q)
  PROVE  RunsInv'
<1>0. RowsTyped /\ RowsAgree /\ DeletionsAgree /\ DeletedRunIsEmpty /\ AssigneesAgree
  BY DEF RunsInv, RowsInv
<1>1. PICK rows : rows = UNION {LiveRow(req[q].run, t) : t \in req[q].cases}
  OBVIOUS
<1>2. DeleteRows(rows) /\ Answer(q) /\ UNCHANGED <<cycle, deleting, doomed, members, leave, history>>
  BY <1>1 DEF RemoveCases
<1>3. /\ item' \in [Rows -> {"none", "live", "deleted"}] /\ exec' \in [Rows -> ExecRow]
      /\ \A i \in Rows :
           /\ i \in rows => item'[i] = "deleted" /\ exec'[i].state = "deleted"
           /\ i \notin rows => item'[i] = item[i] /\ exec'[i] = exec[i]
  BY <1>0, <1>2, DeleteRowsWrites
<1>4. RowsTyped'
  BY <1>0, <1>2, <1>3 DEF RowsTyped
<1>5. RowsAgree'
  BY <1>0, <1>2, <1>3 DEF RowsAgree
<1>6. DeletionsAgree'
  BY <1>0, <1>2, <1>3 DEF DeletionsAgree
<1>7. DeletedRunIsEmpty'
  BY <1>0, <1>2, <1>3 DEF DeletedRunIsEmpty
<1>8. AssigneesAgree'
  BY <1>0, <1>2, <1>3 DEF AssigneesAgree
<1>9. \A y : ReqGood(y) => ReqGood(y)'
  BY <1>2, RowsWritten
<1>10. ReqsInv'
  BY <1>2, <1>9, RequestEnds DEF RunsInv
<1> QED
  BY <1>4, <1>5, <1>6, <1>7, <1>8, <1>10 DEF RunsInv, RowsInv

LEMMA MarkDeletedKeeps ==
  ASSUME RunsInv, NEW q \in Requests, MarkDeleted(q)
  PROVE  RunsInv'
<1>0. RowsTyped /\ RowsAgree /\ DeletionsAgree /\ DeletedRunIsEmpty /\ AssigneesAgree /\ ReqsInv
  BY DEF RunsInv, RowsInv
<1>1. PICK r : r = req[q].run
  OBVIOUS
<1>2. /\ r \in Runs /\ r \notin deleting /\ req[q].pc = "delete"
      /\ req \in [Requests -> ReqRow] /\ Stage(req[q]) /\ OnRun(req[q])
      /\ UNCHANGED <<cycle, item, exec, members, leave, history>>
  BY <1>1, RequestIsGood DEF MarkDeleted, At, OnRun
<1>3. CASE /\ cycle[r].state = "live" /\ deleting' = deleting \cup {r} /\ doomed' = doomed \cup RowsOf(r)
           /\ Goto(q, "commit")
  <2>1. "commit" \in Places
    BY DEF Places
  <2>2. PICK x \in ReqRow : Becomes(q, x) /\ x.pc = "commit" /\ SameButPc(x, req[q])
    BY <1>2, <1>3, <2>1, GotoBecomes
  <2>3. RowsTyped'
    BY <1>0, <1>2, <1>3 DEF RowsTyped, RowsOf
  <2>4. RowsAgree' /\ DeletedRunIsEmpty' /\ AssigneesAgree'
    BY <1>0, <1>2 DEF RowsAgree, DeletedRunIsEmpty, AssigneesAgree
  <2>5. DeletionsAgree'
    BY <1>0, <1>2, <1>3 DEF DeletionsAgree, RowsOf
  <2>6. ReqGood(x)'
    BY <1>1, <1>2, <1>3, <2>2 DEF ReqGood, Stage, OnRun, Checked, SameButPc
  <2>7. ASSUME NEW y, ReqGood(y) PROVE ReqGood(y)'
    BY <1>2, <1>3, <2>7 DEF ReqGood, OnRun, Checked
  <2>8. \A p \in Requests \ {q} : ~(At(p, "commit") /\ req[p].run = x.run)
    <3>1. ASSUME NEW p \in Requests, At(p, "commit") PROVE req[p].run \in deleting
      BY <1>0, <3>1 DEF ReqsInv, ReqGood, Checked, At
    <3> QED
      BY <1>1, <1>2, <2>2, <3>1 DEF SameButPc
  <2>9. \A y : (\E p \in Requests \ {q} : y = req[p]) => ReqGood(y)'
    BY <1>0, <2>7 DEF ReqsInv
  <2>10. ReqsInv'
    BY <1>0, <2>2, <2>6, <2>8, <2>9, OneRequestMoves
  <2> QED
    BY <2>3, <2>4, <2>5, <2>10 DEF RunsInv, RowsInv
<1>4. CASE Answer(q) /\ UNCHANGED <<deleting, doomed>>
  <2>1. UNCHANGED rowVars
    BY <1>2, <1>4 DEF rowVars
  <2> QED
    BY <1>4, <2>1, EndKeeps
<1> QED
  BY <1>1, <1>3, <1>4 DEF MarkDeleted

-----------------------------------------------------------------------------
(* Steps that overtake requests                                              *)

(* The requests after such a step: the others are where they were.           *)
LEMMA RequestsSettle ==
  ASSUME ReqsInv, NEW f \in [Requests -> ReqRow], req' = f,
         \A p \in Requests : ReqGood(f[p])',
         \A p \in Requests : f[p].pc = "commit" => req[p].pc = "commit" /\ f[p].run = req[p].run
  PROVE  ReqsInv'
<1>1. \A p \in Requests : ReqGood(req[p])'
  BY DEF ReqGood, OnRun, Checked
<1>2. OneCommit'
  BY DEF ReqsInv, OneCommit, At
<1> QED
  BY <1>1, <1>2 DEF ReqsInv

(* A request that knows not it was overtaken                                 *)
LEMMA OvertakenRequest ==
  ASSUME req \in [Requests -> ReqRow], NEW p \in Requests, NEW y, y = [req[p] EXCEPT !.overtaken = TRUE]
  PROVE  /\ y \in ReqRow /\ y.overtaken /\ y.pc = req[p].pc /\ y.run = req[p].run
         /\ y.status = req[p].status /\ y.person = req[p].person /\ y.seen = req[p].seen
         /\ (Stage(req[p]) => Stage(y))
<1>1. req[p] \in ReqRow
  OBVIOUS
<1>2. /\ y \in ReqRow /\ y.overtaken /\ y.pc = req[p].pc /\ y.run = req[p].run
      /\ y.status = req[p].status /\ y.person = req[p].person /\ y.seen = req[p].seen
      /\ y.op = req[p].op /\ y.build = req[p].build /\ y.cases = req[p].cases /\ y.row = req[p].row
  BY <1>1 DEF ReqRow
<1>3. Stage(req[p]) => Stage(y)
  BY <1>2 DEF Stage
<1> QED
  BY <1>2, <1>3

LEMMA EndOvertaking ==
  ASSUME ReqsInv, NEW q \in Requests, NEW RS, req' = [Overtaken(RS) EXCEPT ![q] = Ended(q, "ok")],
         \A p \in Requests \ {q} : \A y : p \notin RS /\ y = req[p] => ReqGood(y)',
         \A p \in Requests \ {q} : \A y : p \in RS /\ y = [req[p] EXCEPT !.overtaken = TRUE] => ReqGood(y)'
  PROVE  ReqsInv'
<1>0. req \in [Requests -> ReqRow]
  BY DEF ReqsInv
<1>1. PICK x : x = Ended(q, "ok")
  OBVIOUS
<1>2. PICK f : f = [p \in Requests |-> IF p = q THEN x
                                       ELSE IF p \in RS THEN [req[p] EXCEPT !.overtaken = TRUE] ELSE req[p]]
  OBVIOUS
<1>3. req' = f
  BY <1>1, <1>2 DEF Overtaken
<1>4. Idle(x) /\ ReqGood(x)' /\ x.pc # "commit"
  BY <1>0, <1>1, EndedIdle, IdleGood DEF Idle
<1>5. ASSUME NEW p \in Requests
      PROVE  ReqGood(f[p])' /\ (f[p].pc = "commit" => req[p].pc = "commit" /\ f[p].run = req[p].run)
  <2>1. CASE p = q
    BY <1>2, <1>4, <2>1
  <2>2. CASE p # q /\ p \in RS
    <3>1. PICK y : y = [req[p] EXCEPT !.overtaken = TRUE]
      OBVIOUS
    <3>2. f[p] = y /\ ReqGood(y)' /\ y.pc = req[p].pc /\ y.run = req[p].run
      BY <1>0, <1>2, <2>2, <3>1, OvertakenRequest
    <3> QED
      BY <3>2
  <2>3. CASE p # q /\ p \notin RS
    <3>1. PICK y : y = req[p]
      OBVIOUS
    <3>2. f[p] = y /\ ReqGood(y)'
      BY <1>2, <2>3, <3>1
    <3> QED
      BY <3>1, <3>2
  <2> QED
    BY <2>1, <2>2, <2>3
<1>6. f \in [Requests -> ReqRow]
  <2>1. \A p \in Requests : f[p] \in ReqRow
    BY <1>5 DEF ReqGood
  <2> QED
    BY <1>2, <2>1
<1> QED
  BY <1>3, <1>5, <1>6, RequestsSettle

LEMMA SaveCycleKeeps ==
  ASSUME RunsInv, NEW q \in Requests, SaveCycle(q)
  PROVE  RunsInv'
<1>1. PICK r : r = req[q].run
  OBVIOUS
<1>2. /\ r \in Runs /\ cycle[r].state # "none" /\ cycle \in [Runs -> CycleRow]
      /\ req[q].status \in {"Planning", "In Progress", "Completed"}
      /\ UNCHANGED <<item, exec, deleting, doomed, members, leave, history>>
  BY <1>1, RequestIsGood DEF SaveCycle, At, OnRun, Stage, RunsInv, RowsInv, RowsTyped
<1>3. PICK c : c = [cycle[r] EXCEPT !.status = req[q].status, !.ended = req[q].status = "Completed"]
  OBVIOUS
<1>4. c \in CycleRow /\ c.state = cycle[r].state
  BY <1>2, <1>3 DEF CycleRow
<1>5. cycle' = [cycle EXCEPT ![r] = c]
  BY <1>1, <1>2, <1>3 DEF SaveCycle
<1>6. RowsInv'
  BY <1>2, <1>4, <1>5, CycleWritten DEF RunsInv
<1>7. cycle'[r] = c /\ \A s \in Runs \ {r} : cycle'[s] = cycle[s]
  BY <1>2, <1>5
<1>8. PICK RS : RS = {p \in Requests : At(p, "close") /\ req[p].run = r}
  OBVIOUS
<1>9. req \in [Requests -> ReqRow] /\ ReqsInv
  BY DEF RunsInv, ReqsInv
<1>10. ASSUME NEW p \in Requests \ {q}, NEW y, p \notin RS, y = req[p] PROVE ReqGood(y)'
  <2>1. ReqGood(y) /\ ~(y.pc = "close" /\ y.run = r)
    BY <1>8, <1>9, <1>10 DEF ReqsInv, At
  <2>2. OnRun(y)' /\ Checked(y)'
    BY <1>2, <1>4, <1>7, <2>1 DEF ReqGood, OnRun, Checked
  <2> QED
    BY <2>1, <2>2 DEF ReqGood
<1>11. ASSUME NEW p \in Requests \ {q}, NEW y, p \in RS, y = [req[p] EXCEPT !.overtaken = TRUE] PROVE ReqGood(y)'
  <2>1. y \in ReqRow /\ Stage(y) /\ y.overtaken /\ y.pc = "close" /\ y.run = r
    BY <1>8, <1>9, <1>11, OvertakenRequest DEF ReqsInv, ReqGood, At
  <2>2. OnRun(y)' /\ Checked(y)'
    BY <1>2, <1>4, <1>7, <2>1 DEF OnRun, Checked
  <2> QED
    BY <2>1, <2>2 DEF ReqGood
<1>12. req' = [Overtaken(RS) EXCEPT ![q] = Ended(q, "ok")]
  BY <1>1, <1>8 DEF SaveCycle
<1>13. ReqsInv'
  BY <1>9, <1>10, <1>11, <1>12, EndOvertaking
<1> QED
  BY <1>6, <1>13 DEF RunsInv

LEMMA DeleteCommitRows ==
  ASSUME RunsInv, NEW q \in Requests, NEW r, r = req[q].run, DeleteCommit(q)
  PROVE  RowsInv'
<1>0. RowsTyped /\ RowsAgree /\ DeletionsAgree /\ DeletedRunIsEmpty /\ AssigneesAgree
  BY DEF RunsInv, RowsInv
<1>1. r \in Runs /\ r \in deleting
  BY RequestIsGood DEF DeleteCommit, At, OnRun, Checked
<1>2. PICK rows : rows = {i \in doomed : i[1] = r}
  OBVIOUS
<1>3. /\ cycle' = [cycle EXCEPT ![r].state = "deleted"] /\ DeleteRows(rows)
      /\ deleting' = deleting \ {r} /\ doomed' = {i \in doomed : i[1] # r}
      /\ UNCHANGED <<members, leave, history>>
  BY <1>2 DEF DeleteCommit
<1>4. /\ item' \in [Rows -> {"none", "live", "deleted"}] /\ exec' \in [Rows -> ExecRow]
      /\ \A i \in Rows :
           /\ i \in rows => item'[i] = "deleted" /\ exec'[i].state = "deleted"
           /\ i \notin rows => item'[i] = item[i] /\ exec'[i] = exec[i]
  BY <1>0, <1>3, DeleteRowsWrites
<1>5. cycle \in [Runs -> CycleRow] /\ cycle[r] \in CycleRow
  BY <1>0, <1>1 DEF RowsTyped
<1>6. cycle' \in [Runs -> CycleRow] /\ cycle'[r].state = "deleted" /\ \A s \in Runs \ {r} : cycle'[s] = cycle[s]
  BY <1>1, <1>3, <1>5 DEF CycleRow
<1>7. RowsTyped'
  BY <1>0, <1>3, <1>4, <1>6 DEF RowsTyped
<1>8. RowsAgree'
  BY <1>0, <1>4, <1>6 DEF RowsAgree
<1>9. \A i \in Rows : i[1] \in Runs
  BY DEF Rows
<1>10. DeletionsAgree'
  BY <1>0, <1>2, <1>3, <1>4, <1>6, <1>9 DEF DeletionsAgree, RowsTyped
<1>11. DeletedRunIsEmpty'
  <2>1. ASSUME NEW i \in Rows, item'[i] = "live", cycle'[i[1]].state = "deleted" PROVE i \in history.late
    <3>1. i \notin rows /\ item[i] = "live"
      BY <1>4, <2>1
    <3>2. CASE i[1] = r
      BY <1>0, <1>1, <1>2, <3>1, <3>2 DEF DeletionsAgree
    <3>3. CASE i[1] # r
      BY <1>0, <1>6, <1>9, <2>1, <3>1, <3>3 DEF DeletedRunIsEmpty
    <3> QED
      BY <3>2, <3>3
  <2> QED
    BY <1>3, <2>1 DEF DeletedRunIsEmpty
<1>12. AssigneesAgree'
  BY <1>0, <1>3, <1>4 DEF AssigneesAgree
<1> QED
  BY <1>7, <1>8, <1>10, <1>11, <1>12 DEF RowsInv

LEMMA DeleteCommitKeeps ==
  ASSUME RunsInv, NEW q \in Requests, DeleteCommit(q)
  PROVE  RunsInv'
<1>1. PICK r : r = req[q].run
  OBVIOUS
<1>2. RowsInv'
  BY <1>1, DeleteCommitRows
<1>3. /\ r \in Runs /\ cycle \in [Runs -> CycleRow] /\ req \in [Requests -> ReqRow] /\ ReqsInv
      /\ req[q].pc = "commit"
  BY <1>1, RequestIsGood DEF DeleteCommit, At, OnRun, RunsInv, RowsInv, RowsTyped
<1>4. /\ cycle' = [cycle EXCEPT ![r].state = "deleted"] /\ deleting' = deleting \ {r}
      /\ UNCHANGED <<members, leave, history>>
  BY <1>1 DEF DeleteCommit
<1>5. cycle[r] \in CycleRow
  BY <1>3
<1>6. /\ cycle'[r].state = "deleted" /\ cycle'[r].closed = cycle[r].closed /\ cycle'[r].status = cycle[r].status
      /\ \A s \in Runs \ {r} : cycle'[s] = cycle[s]
  BY <1>3, <1>4, <1>5 DEF CycleRow
<1>7. PICK RS : RS = {p \in Requests : At(p, "insert") /\ req[p].run = r}
  OBVIOUS
<1>8. ASSUME NEW p \in Requests \ {q}, NEW y, p \notin RS, y = req[p] PROVE ReqGood(y)'
  <2>1. ReqGood(y) /\ ~(y.pc = "insert" /\ y.run = r)
    BY <1>3, <1>7, <1>8 DEF ReqsInv, At
  <2>2. ~(y.pc = "commit" /\ y.run = r)
    BY <1>1, <1>3, <1>8 DEF ReqsInv, OneCommit, At
  <2>3. OnRun(y)'
    BY <1>6, <2>1 DEF ReqGood, OnRun
  <2>4. Checked(y)'
    BY <1>4, <1>6, <2>1, <2>2 DEF ReqGood, OnRun, Checked
  <2> QED
    BY <2>1, <2>3, <2>4 DEF ReqGood
<1>9. ASSUME NEW p \in Requests \ {q}, NEW y, p \in RS, y = [req[p] EXCEPT !.overtaken = TRUE] PROVE ReqGood(y)'
  <2>1. y \in ReqRow /\ Stage(y) /\ y.overtaken /\ y.pc = "insert" /\ y.run = r
    BY <1>3, <1>7, <1>9, OvertakenRequest DEF ReqsInv, ReqGood, At
  <2>2. OnRun(y)' /\ Checked(y)'
    BY <1>3, <1>6, <2>1 DEF OnRun, Checked
  <2> QED
    BY <2>1, <2>2 DEF ReqGood
<1>10. req' = [Overtaken(RS) EXCEPT ![q] = Ended(q, "ok")]
  BY <1>1, <1>7 DEF DeleteCommit
<1>11. ReqsInv'
  BY <1>3, <1>8, <1>9, <1>10, EndOvertaking
<1> QED
  BY <1>2, <1>11 DEF RunsInv

(* The requests when a membership ends                                       *)
LEMMA LoseMemberRequests ==
  ASSUME ReqsInv, NEW m \in People, LoseMember(m)
  PROVE  ReqsInv'
<1>1. members' = members \ {m} /\ UNCHANGED <<cycle, item, deleting, doomed>>
  BY DEF LoseMember
<1>2. PICK RS : RS = {q \in Requests : At(q, "write") /\ req[q].person = m}
  OBVIOUS
<1>3. PICK f : f = [q \in Requests |-> IF q \in RS THEN [req[q] EXCEPT !.overtaken = TRUE] ELSE req[q]]
  OBVIOUS
<1>4. req' = f /\ req \in [Requests -> ReqRow]
  BY <1>2, <1>3 DEF LoseMember, Overtaken, ReqsInv
<1>5. ASSUME NEW p \in Requests
      PROVE  ReqGood(f[p])' /\ (f[p].pc = "commit" => req[p].pc = "commit" /\ f[p].run = req[p].run)
  <2>0. ReqGood(req[p])
    BY DEF ReqsInv
  <2>1. CASE p \in RS
    <3>1. PICK y : y = [req[p] EXCEPT !.overtaken = TRUE]
      OBVIOUS
    <3>2. /\ f[p] = y /\ y \in ReqRow /\ Stage(y) /\ y.overtaken /\ y.pc = "write"
          /\ y.run = req[p].run /\ req[p].pc = "write"
      BY <1>2, <1>3, <1>4, <2>0, <2>1, <3>1, OvertakenRequest DEF ReqGood, At
    <3>3. OnRun(y)' /\ Checked(y)'
      BY <1>1, <2>0, <3>2 DEF ReqGood, OnRun, Checked
    <3> QED
      BY <3>2, <3>3 DEF ReqGood
  <2>2. CASE p \notin RS
    <3>1. PICK y : y = req[p]
      OBVIOUS
    <3>2. f[p] = y /\ ReqGood(y) /\ ~(y.pc = "write" /\ y.person = m)
      BY <1>2, <1>3, <2>0, <2>2, <3>1 DEF At
    <3>3. OnRun(y)' /\ Checked(y)'
      BY <1>1, <3>2 DEF ReqGood, OnRun, Checked
    <3> QED
      BY <3>1, <3>2, <3>3 DEF ReqGood
  <2> QED
    BY <2>1, <2>2
<1>6. f \in [Requests -> ReqRow]
  <2>1. \A p \in Requests : f[p] \in ReqRow
    BY <1>5 DEF ReqGood
  <2> QED
    BY <1>3, <2>1
<1> QED
  BY <1>4, <1>5, <1>6, RequestsSettle

(* The COMMIT of removeProjectMember: what it does not clear was assigned    *)
(* since its UPDATE.                                                         *)
LEMMA LeaveCommitKeeps ==
  ASSUME RunsInv, NEW m \in People, LeaveCommit(m)
  PROVE  RunsInv'
<1>0. RowsTyped /\ RowsAgree /\ DeletionsAgree /\ DeletedRunIsEmpty /\ AssigneesAgree /\ ReqsInv
  BY DEF RunsInv, RowsInv
<1>1. members' = members \ {m} /\ UNCHANGED <<cycle, item, deleting, doomed, history>>
  BY DEF LeaveCommit, LoseMember
<1>2. exec' = [i \in Rows |-> IF i \in leave.rows \cap AssignedTo(m)
                              THEN [exec[i] EXCEPT !.assignee = Nobody] ELSE exec[i]]
  BY DEF LeaveCommit, ClearAssignments
<1>3. ASSUME NEW i \in Rows
      PROVE  /\ exec'[i] \in ExecRow /\ exec'[i].state = exec[i].state
             /\ exec'[i].assignee = Nobody \/ exec'[i].assignee = exec[i].assignee
             /\ exec[i].state = "live" /\ exec'[i].assignee = m => i \notin leave.rows
  <2>1. exec[i] \in ExecRow
    BY <1>0 DEF RowsTyped
  <2>2. PICK e : e = [exec[i] EXCEPT !.assignee = Nobody]
    OBVIOUS
  <2>3. e \in ExecRow /\ e.state = exec[i].state /\ e.assignee = Nobody /\ Nobody # m
    BY <2>1, <2>2, TestRunsAssumption DEF ExecRow
  <2>4. CASE i \in leave.rows \cap AssignedTo(m)
    BY <1>2, <2>2, <2>3, <2>4
  <2>5. CASE i \notin leave.rows \cap AssignedTo(m)
    <3>1. exec'[i] = exec[i]
      BY <1>2, <2>5
    <3> QED
      BY <2>1, <2>5, <3>1 DEF AssignedTo
  <2> QED
    BY <2>4, <2>5
<1>4. leave' \in [people : SUBSET members', rows : SUBSET Rows] /\ leave'.people = leave.people \ {m}
      /\ leave'.rows = {i \in leave.rows : exec[i].assignee # m} /\ m \in leave.people
  BY <1>0, <1>1 DEF LeaveCommit, LeaveEnds, RowsTyped
<1>5. RowsTyped'
  <2>1. exec' \in [Rows -> ExecRow]
    BY <1>2, <1>3
  <2> QED
    BY <1>0, <1>1, <1>4, <2>1 DEF RowsTyped
<1>6. RowsAgree' /\ DeletionsAgree' /\ DeletedRunIsEmpty'
  BY <1>0, <1>1, <1>3 DEF RowsAgree, DeletionsAgree, DeletedRunIsEmpty
<1>7. AssigneesAgree'
  <2>1. Nobody \notin leave.people
    BY <1>0, TestRunsAssumption DEF RowsTyped
  <2>2. ASSUME NEW i \in Rows, exec'[i].state = "live", exec'[i].assignee \notin members' \cup {Nobody}
        PROVE  i \in history.dangling \cup history.left
    <3>1. exec[i].state = "live" /\ exec'[i].assignee = exec[i].assignee
      BY <1>3, <2>2
    <3>2. CASE exec[i].assignee = m
      BY <1>0, <1>3, <1>4, <3>1, <3>2 DEF AssigneesAgree
    <3>3. CASE exec[i].assignee # m
      BY <1>0, <1>1, <2>2, <3>1, <3>3 DEF AssigneesAgree
    <3> QED
      BY <3>2, <3>3
  <2>3. ASSUME NEW i \in Rows, exec'[i].state = "live", exec'[i].assignee \in leave'.people
        PROVE  i \in leave'.rows \cup history.dangling
    BY <1>0, <1>3, <1>4, <2>1, <2>3 DEF AssigneesAgree
  <2> QED
    BY <1>1, <2>2, <2>3 DEF AssigneesAgree
<1>8. ReqsInv'
  BY <1>0, LoseMemberRequests DEF LeaveCommit
<1> QED
  BY <1>5, <1>6, <1>7, <1>8 DEF RunsInv, RowsInv

(* The other steps of members                                                *)
LEMMA MembersKeep ==
  ASSUME RunsInv, NEW m \in People,
         AddProjectMember(m) \/ RemoveProjectMember(m) \/ LeaveRollback(m) \/ RemoveWorkspaceMember(m)
  PROVE  RunsInv'
<1>0. RowsTyped /\ RowsAgree /\ DeletionsAgree /\ DeletedRunIsEmpty /\ AssigneesAgree /\ ReqsInv
  BY DEF RunsInv, RowsInv
<1>1. UNCHANGED <<cycle, item, exec, deleting, doomed>> /\ history'.late = history.late
  BY <1>0 DEF AddProjectMember, RemoveProjectMember, LeaveRollback, RemoveWorkspaceMember, LoseMember, RowsTyped, HistoryRow
<1>2. AssignedTo(m) \subseteq Rows
  BY DEF AssignedTo
<1>3. RowsAgree' /\ DeletionsAgree' /\ DeletedRunIsEmpty'
  BY <1>0, <1>1 DEF RowsAgree, DeletionsAgree, DeletedRunIsEmpty
<1>4. ASSUME members \subseteq members', UNCHANGED <<req, history>>, members' \subseteq People,
             leave' \in [people : SUBSET members', rows : SUBSET Rows],
             \A i \in Rows : exec[i].state = "live" /\ exec[i].assignee \in leave'.people =>
               i \in leave'.rows \cup history.dangling
      PROVE  RunsInv'
  <2>1. RowsTyped'
    BY <1>0, <1>1, <1>4 DEF RowsTyped
  <2>2. AssigneesAgree'
    BY <1>0, <1>1, <1>4 DEF AssigneesAgree
  <2>3. ReqsInv'
    <3>1. ASSUME NEW p \in Requests PROVE ReqGood(req[p])'
      BY <1>0, <1>1, <1>4 DEF ReqsInv, ReqGood, OnRun, Checked
    <3> QED
      BY <1>0, <1>4, <3>1 DEF ReqsInv, OneCommit, At
  <2> QED
    BY <1>3, <2>1, <2>2, <2>3 DEF RunsInv, RowsInv
<1>5. CASE AddProjectMember(m)
  <2>1. members' = members \cup {m} /\ UNCHANGED <<leave, req, history>>
    BY <1>5 DEF AddProjectMember
  <2> QED
    BY <1>0, <1>4, <2>1 DEF RowsTyped, AssigneesAgree
<1>6. CASE RemoveProjectMember(m)
  <2>1. /\ UNCHANGED <<members, req, history>> /\ m \in members
        /\ leave' = [people |-> leave.people \cup {m}, rows |-> leave.rows \cup AssignedTo(m)]
    BY <1>6 DEF RemoveProjectMember
  <2>2. leave'.people = leave.people \cup {m} /\ leave'.rows = leave.rows \cup AssignedTo(m)
    BY <2>1
  <2>3. leave' \in [people : SUBSET members', rows : SUBSET Rows]
    BY <1>0, <1>2, <2>1 DEF RowsTyped
  <2>4. ASSUME NEW i \in Rows, exec[i].state = "live", exec[i].assignee \in leave'.people
        PROVE  i \in leave'.rows \cup history.dangling
    BY <1>0, <2>2, <2>4 DEF AssigneesAgree, AssignedTo
  <2> QED
    BY <1>0, <1>4, <2>1, <2>3, <2>4 DEF RowsTyped
<1>7. CASE LeaveRollback(m)
  <2>1. /\ UNCHANGED <<members, req, history>>
        /\ leave' = [people |-> leave.people \ {m}, rows |-> {i \in leave.rows : exec[i].assignee # m}]
    BY <1>7 DEF LeaveRollback, LeaveEnds
  <2>2. leave'.people = leave.people \ {m} /\ leave'.rows = {i \in leave.rows : exec[i].assignee # m}
    BY <2>1
  <2>3. leave' \in [people : SUBSET members', rows : SUBSET Rows]
    BY <1>0, <2>1 DEF RowsTyped
  <2>4. ASSUME NEW i \in Rows, exec[i].state = "live", exec[i].assignee \in leave'.people
        PROVE  i \in leave'.rows \cup history.dangling
    BY <1>0, <2>2, <2>4 DEF AssigneesAgree
  <2> QED
    BY <1>0, <1>4, <2>1, <2>3, <2>4 DEF RowsTyped
<1>8. CASE RemoveWorkspaceMember(m)
  <2>1. /\ members' = members \ {m} /\ m \notin leave.people /\ leave' = leave
        /\ history' = [history EXCEPT !.left = @ \cup AssignedTo(m)]
    BY <1>8 DEF RemoveWorkspaceMember, LoseMember
  <2>2. /\ history' \in HistoryRow /\ history'.dangling = history.dangling
        /\ history'.left = history.left \cup AssignedTo(m)
    BY <1>0, <1>2, <2>1 DEF RowsTyped, HistoryRow
  <2>3. RowsTyped'
    BY <1>0, <1>1, <2>1, <2>2 DEF RowsTyped
  <2>4. ASSUME NEW i \in Rows, exec[i].state = "live", exec[i].assignee \notin (members \ {m}) \cup {Nobody}
        PROVE  i \in history'.dangling \cup history'.left
    BY <1>0, <2>2, <2>4 DEF AssigneesAgree, AssignedTo
  <2>5. AssigneesAgree'
    BY <1>0, <1>1, <2>1, <2>2, <2>4 DEF AssigneesAgree
  <2>6. ReqsInv'
    BY <1>0, <1>8, LoseMemberRequests DEF RemoveWorkspaceMember
  <2> QED
    BY <1>3, <2>3, <2>5, <2>6 DEF RunsInv, RowsInv
<1> QED
  BY <1>5, <1>6, <1>7, <1>8

LEMMA CrashKeeps ==
  ASSUME RunsInv, NEW q \in Requests, Crash(q)
  PROVE  RunsInv'
<1>0. RowsTyped /\ RowsAgree /\ DeletionsAgree /\ DeletedRunIsEmpty /\ AssigneesAgree /\ ReqsInv
  BY DEF RunsInv, RowsInv
<1>1. PICK r : r = req[q].run
  OBVIOUS
<1>2. UNCHANGED <<cycle, item, exec, members, leave, history>> /\ Fail(q)
  BY DEF Crash
<1>3. \/ At(q, "commit") /\ deleting' = deleting \ {r} /\ doomed' = {i \in doomed : i[1] # r}
      \/ UNCHANGED <<deleting, doomed>>
  BY <1>1 DEF Crash
<1>4. RowsTyped' /\ RowsAgree' /\ DeletedRunIsEmpty' /\ AssigneesAgree'
  BY <1>0, <1>2, <1>3 DEF RowsTyped, RowsAgree, DeletedRunIsEmpty, AssigneesAgree
<1>5. DeletionsAgree'
  BY <1>0, <1>2, <1>3 DEF DeletionsAgree
<1>6. PICK x : Idle(x) /\ Becomes(q, x)
  BY <1>0, <1>2, EndBecomes DEF ReqsInv
<1>7. ReqGood(x)' /\ x.pc # "commit"
  BY <1>6, IdleGood DEF Idle
<1>8. ASSUME NEW p \in Requests \ {q}, NEW y, y = req[p] PROVE ReqGood(y)'
  <2>1. ReqGood(y)
    BY <1>0, <1>8 DEF ReqsInv
  <2>2. y.pc = "commit" /\ y.run = r => ~At(q, "commit")
    BY <1>0, <1>1, <1>8 DEF ReqsInv, OneCommit, At
  <2>3. OnRun(y)' /\ Checked(y)'
    BY <1>2, <1>3, <2>1, <2>2 DEF ReqGood, OnRun, Checked
  <2> QED
    BY <2>1, <2>3 DEF ReqGood
<1>9. ReqsInv'
  BY <1>0, <1>6, <1>7, <1>8, OneRequestMoves
<1> QED
  BY <1>4, <1>5, <1>9 DEF RunsInv, RowsInv

(* The statement of a bulk update that writes one row                        *)
LEMMA WriteExecutionRows ==
  ASSUME RunsInv, NEW q \in Requests, WriteExecution(q)
  PROVE  RowsInv'
<1>0. RowsInv /\ RowsTyped /\ RowsAgree /\ DeletionsAgree /\ DeletedRunIsEmpty /\ AssigneesAgree
  BY DEF RunsInv, RowsInv
<1>1. PICK i : i = req[q].row
  OBVIOUS
<1>2. PICK s : s = req[q].status
  OBVIOUS
<1>3. PICK p : p = req[q].person
  OBVIOUS
<1>4. /\ i \in Rows /\ s \in Statuses \cup {"Untested"} /\ p \in People \cup {Nobody}
      /\ ~req[q].overtaken => p \in members \cup {Nobody}
      /\ UNCHANGED <<cycle, item, deleting, doomed, members, leave>>
  BY <1>1, <1>2, <1>3, RequestIsGood DEF WriteExecution, At, Stage, Checked, ReqRow
<1>5. CASE UNCHANGED <<exec, history>>
  BY <1>0, <1>4, <1>5, RowsUntouched
<1>6. CASE /\ exec' = [exec EXCEPT ![i].status = IF "status" \in req[q].sets THEN s ELSE @,
                                   ![i].assignee = IF "assignee" \in req[q].sets THEN p ELSE @]
           /\ history' = [history EXCEPT
                 !.dangling = IF "assignee" \notin req[q].sets THEN @
                              ELSE IF CheckOvertaken(q) THEN @ \cup {i} ELSE @ \ {i},
                 !.left     = IF "assignee" \in req[q].sets THEN @ \ {i} ELSE @]
  <2>1. exec[i] \in ExecRow /\ exec \in [Rows -> ExecRow]
    BY <1>0, <1>4 DEF RowsTyped
  <2>2. PICK e : e = [exec[i] EXCEPT !.status = IF "status" \in req[q].sets THEN s ELSE exec[i].status,
                                     !.assignee = IF "assignee" \in req[q].sets THEN p ELSE exec[i].assignee]
    OBVIOUS
  <2>3. /\ e \in ExecRow /\ e.state = exec[i].state
        /\ e.assignee = IF "assignee" \in req[q].sets THEN p ELSE exec[i].assignee
    BY <1>4, <2>1, <2>2 DEF ExecRow
  <2>4. exec' = [exec EXCEPT ![i] = e]
    BY <1>4, <1>6, <2>1, <2>2 DEF ExecRow
  <2>5. exec' \in [Rows -> ExecRow] /\ exec'[i] = e /\ \A j \in Rows \ {i} : exec'[j] = exec[j]
    BY <1>4, <2>1, <2>3, <2>4
  <2>6. PICK d : d = IF "assignee" \notin req[q].sets THEN history.dangling
                     ELSE IF CheckOvertaken(q) THEN history.dangling \cup {i} ELSE history.dangling \ {i}
    OBVIOUS
  <2>7. PICK l : l = IF "assignee" \in req[q].sets THEN history.left \ {i} ELSE history.left
    OBVIOUS
  <2>8. d \subseteq Rows /\ l \subseteq Rows /\ history \in HistoryRow
    BY <1>0, <1>4, <2>6, <2>7 DEF RowsTyped, HistoryRow
  <2>9. /\ history' \in HistoryRow
        /\ history'.late = history.late /\ history'.dangling = d /\ history'.left = l
    <3>1. history' = [history EXCEPT !.dangling = d, !.left = l]
      BY <1>6, <2>6, <2>7, <2>8 DEF HistoryRow
    <3> QED
      BY <2>8, <3>1 DEF HistoryRow
  <2>10. RowsTyped'
    BY <1>0, <1>4, <2>5, <2>9 DEF RowsTyped
  <2>11. RowsAgree'
    BY <1>0, <1>4, <2>3, <2>5 DEF RowsAgree
  <2>12. DeletionsAgree' /\ DeletedRunIsEmpty'
    BY <1>0, <1>4, <2>9 DEF DeletionsAgree, DeletedRunIsEmpty
  <2>13. AssigneesAgree'
    <3>1. ASSUME NEW j \in Rows, exec'[j].state = "live"
          PROVE  /\ exec'[j].assignee \notin members \cup {Nobody} => j \in d \cup l
                 /\ exec'[j].assignee \in leave.people => j \in leave.rows \cup d
      <4>1. CASE j # i
        BY <1>0, <2>5, <2>6, <2>7, <3>1, <4>1 DEF AssigneesAgree
      <4>2. CASE j = i /\ "assignee" \in req[q].sets
        BY <1>3, <1>4, <2>3, <2>5, <2>6, <3>1, <4>2 DEF CheckOvertaken
      <4>3. CASE j = i /\ "assignee" \notin req[q].sets
        BY <1>0, <2>3, <2>5, <2>6, <2>7, <3>1, <4>3 DEF AssigneesAgree
      <4> QED
        BY <4>1, <4>2, <4>3
    <3> QED
      BY <1>4, <2>9, <3>1 DEF AssigneesAgree
  <2> QED
    BY <2>10, <2>11, <2>12, <2>13 DEF RowsInv
<1> QED
  BY <1>1, <1>2, <1>3, <1>5, <1>6 DEF WriteExecution

LEMMA WriteExecutionKeeps ==
  ASSUME RunsInv, NEW q \in Requests, WriteExecution(q)
  PROVE  RunsInv'
<1>1. RowsInv'
  BY WriteExecutionRows
<1>2. /\ req \in [Requests -> ReqRow] /\ req[q] \in ReqRow /\ req[q].pc = "write"
      /\ Stage(req[q]) /\ OnRun(req[q]) /\ ReqsInv
  BY RequestIsGood DEF WriteExecution, At, RunsInv
<1>3. UNCHANGED <<cycle, deleting, members>> /\ \A y : ReqGood(y) => ReqGood(y)'
  BY RowsWritten DEF WriteExecution
<1>4. CASE Answer(q) \/ Fail(q)
  BY <1>1, <1>2, <1>3, <1>4, RequestEnds DEF RunsInv
<1>5. CASE req' = [req EXCEPT ![q].todo = @ \ {req[q].row}, ![q].pc = "each"]
  <2>1. PICK rows : rows = req[q].todo \ {req[q].row}
    OBVIOUS
  <2>2. rows \subseteq Rows /\ "each" \in Places
    BY <1>2, <2>1 DEF ReqRow, Places
  <2>3. PICK x : x = [req[q] EXCEPT !.todo = rows, !.pc = "each"]
    OBVIOUS
  <2>4. x \in ReqRow /\ x.pc = "each" /\ x.op = req[q].op /\ x.run = req[q].run /\ x.status = req[q].status
    BY <1>2, <2>2, <2>3 DEF ReqRow
  <2>5. Becomes(q, x)
    BY <1>2, <1>5, <2>1, <2>3 DEF Becomes, ReqRow
  <2>6. ReqGood(x)
    BY <1>2, <2>4 DEF ReqGood, Stage, OnRun, Checked
  <2> QED
    BY <1>1, <1>2, <1>3, <2>4, <2>5, <2>6, RequestWrites DEF RunsInv
<1> QED
  BY <1>4, <1>5 DEF WriteExecution

-----------------------------------------------------------------------------
(* The invariant                                                             *)

LEMMA RunsInvInit == TestRunsInit => RunsInv
<1> SUFFICES ASSUME TestRunsInit PROVE RunsInv
  OBVIOUS
<1>1. PICK opened \in SUBSET Runs, b \in Builds :
        /\ cycle = [r \in Runs |-> IF r \in opened THEN NewCycle(b) ELSE NoCycle]
        /\ item = [i \in Rows |-> IF i[1] \in opened /\ i[3] = 1 THEN "live" ELSE "none"]
  BY DEF TestRunsInit
<1>2. /\ exec = [i \in Rows |-> [NoExecution EXCEPT !.state = item[i]]]
      /\ deleting = {} /\ doomed = {} /\ members = People /\ leave = [people |-> {}, rows |-> {}]
      /\ req = [q \in Requests |-> NewRequest] /\ history = [late |-> {}, dangling |-> {}, left |-> {}]
  BY DEF TestRunsInit
<1>3. NewCycle(b) \in CycleRow /\ NoCycle \in CycleRow
  BY DEF NewCycle, NoCycle, CycleRow
<1>4. ASSUME NEW i \in Rows
      PROVE  /\ item[i] \in {"none", "live", "deleted"} /\ exec[i] \in ExecRow
             /\ exec[i].state = item[i] /\ exec[i].assignee = Nobody
  <2>1. item[i] \in {"none", "live", "deleted"}
    BY <1>1
  <2>2. exec[i] = [NoExecution EXCEPT !.state = item[i]]
    BY <1>2
  <2> QED
    BY <2>1, <2>2, TestRunsAssumption DEF ExecRow, NoExecution
<1>5. RowsTyped
  <2>1. cycle \in [Runs -> CycleRow]
    BY <1>1, <1>3
  <2>2. item \in [Rows -> {"none", "live", "deleted"}]
    BY <1>1
  <2>3. exec \in [Rows -> ExecRow]
    BY <1>2, <1>4
  <2> QED
    BY <1>2, <2>1, <2>2, <2>3 DEF RowsTyped, HistoryRow
<1>6. RowsAgree
  <2>1. ASSUME NEW i \in Rows, NEW j \in Rows, item[i] = "live", item[j] = "live", SameCell(i, j) PROVE i = j
    <3>1. i[3] = 1 /\ j[3] = 1
      BY <1>1, <2>1
    <3>2. i = <<i[1], i[2], i[3]>> /\ j = <<j[1], j[2], j[3]>>
      BY DEF Rows
    <3> QED
      BY <2>1, <3>1, <3>2 DEF SameCell
  <2>2. ASSUME NEW r \in Runs, cycle[r].state = "none" PROVE cycle[r].build = NoBuild /\ ~cycle[r].closed
    BY <1>1, <2>2 DEF NewCycle, NoCycle
  <2> QED
    BY <1>4, <2>1, <2>2 DEF RowsAgree
<1>7. DeletionsAgree
  BY <1>2 DEF DeletionsAgree
<1>8. DeletedRunIsEmpty
  <2>1. \A i \in Rows : i[1] \in Runs
    BY DEF Rows
  <2> QED
    BY <1>1, <2>1 DEF DeletedRunIsEmpty, NewCycle, NoCycle
<1>9. AssigneesAgree
  BY <1>2, <1>4 DEF AssigneesAgree
<1>10. NewRequest \in ReqRow /\ ReqGood(NewRequest)
  BY NewRequestTyped, IdleGood
<1>11. \A q \in Requests : req[q] = NewRequest
  BY <1>2
<1>12. req \in [Requests -> ReqRow]
  BY <1>2, <1>10
<1>13. OneCommit
  BY <1>11 DEF OneCommit, At, NewRequest
<1>14. \A q \in Requests : ReqGood(req[q])
  BY <1>10, <1>11
<1> QED
  BY <1>5, <1>6, <1>7, <1>8, <1>9, <1>12, <1>13, <1>14 DEF RunsInv, RowsInv, ReqsInv

LEMMA AnyCallKeeps ==
  ASSUME RunsInv, NEW q \in Requests, AnyCall(q)
  PROVE  RunsInv'
<1>1. CASE \E b \in Builds, cs \in SUBSET Cases : CallCreateRun(q, b, cs)
  BY <1>1, CallsKeep
<1>2. CASE \E r \in Runs : CreateCycle(q, r)
  BY <1>2, CreateCycleKeeps
<1>3. ASSUME NEW r \in Known
      PROVE  /\ \A t \in Cases, s \in Statuses, n \in {0, NoRetry} : CallRecordResult(q, r, t, s, n) => RunsInv'
             /\ CallOnRun(q, "closeRun", r) \/ CallOnRun(q, "deleteCycle", r) => RunsInv'
             /\ \A cs \in SUBSET Cases : CallOnCases(q, "addCases", r, cs) \/ CallOnCases(q, "removeCases", r, cs) => RunsInv'
             /\ \A s \in {"In Progress", "Completed", "Planning"} : CallUpdateCycle(q, r, s) => RunsInv'
  BY CallsKeep
<1>4. ASSUME NEW r \in Known, NEW rows \in SUBSET RowsOf(r)
      PROVE  /\ \A s \in Settable : CallBulk(q, r, rows, {"status"}, s, Nobody) => RunsInv'
             /\ \A p \in People \cup {Nobody} : CallBulk(q, r, rows, {"assignee"}, "Untested", p) => RunsInv'
  <2>1. rows \in SUBSET Rows /\ "Untested" \in Settable
    BY DEF RowsOf, Settable
  <2>2. \A S \in SUBSET {"status", "assignee"}, s \in Settable, p \in People \cup {Nobody} :
          CallBulk(q, r, rows, S, s, p) => RunsInv'
    BY <2>1, CallsKeep
  <2> QED
    BY <2>1, <2>2
<1>5. ASSUME NEW r \in Known, NEW i \in RowsOf(r)
      PROVE  /\ CallLinkBug(q, i) => RunsInv'
             /\ \A s \in Settable : CallUpdateExecution(q, i, {"status"}, s, Nobody) => RunsInv'
             /\ \A p \in People \cup {Nobody} : CallUpdateExecution(q, i, {"assignee"}, "Untested", p) => RunsInv'
             /\ \A s \in Settable, p \in People \cup {Nobody} :
                  CallUpdateExecution(q, i, {"status", "assignee"}, s, p) => RunsInv'
  <2>1. i \in Rows /\ i[1] \in Known /\ "Untested" \in Settable
    BY DEF RowsOf, Settable
  <2>2. \A S \in SUBSET {"status", "assignee"}, s \in Settable, p \in People \cup {Nobody} :
          CallUpdateExecution(q, i, S, s, p) => RunsInv'
    BY <2>1, CallsKeep
  <2> QED
    BY <2>1, <2>2, CallsKeep
<1>6. CASE \E r \in Known :
         \/ \E t \in Cases, s \in Statuses, n \in {0, NoRetry} : CallRecordResult(q, r, t, s, n)
         \/ CallOnRun(q, "closeRun", r) \/ CallOnRun(q, "deleteCycle", r)
         \/ \E cs \in SUBSET Cases \ {{}} : CallOnCases(q, "addCases", r, cs) \/ CallOnCases(q, "removeCases", r, cs)
         \/ \E s \in {"In Progress", "Completed", "Planning"} : CallUpdateCycle(q, r, s)
         \/ \E rows \in SUBSET RowsOf(r) \ {{}} :
              \/ \E s \in Settable : CallBulk(q, r, rows, {"status"}, s, Nobody)
              \/ \E p \in People \cup {Nobody} : CallBulk(q, r, rows, {"assignee"}, "Untested", p)
         \/ \E i \in RowsOf(r) :
              \/ CallLinkBug(q, i)
              \/ \E s \in Settable : CallUpdateExecution(q, i, {"status"}, s, Nobody)
              \/ \E p \in People \cup {Nobody} : CallUpdateExecution(q, i, {"assignee"}, "Untested", p)
              \/ \E s \in Settable, p \in People \cup {Nobody} :
                   CallUpdateExecution(q, i, {"status", "assignee"}, s, p)
  BY <1>3, <1>4, <1>5, <1>6, Zenon
<1> QED
  BY <1>1, <1>2, <1>6 DEF AnyCall

LEMMA RunsInvNext == RunsInv /\ [TestRunsNext]_runVars => RunsInv'
<1> SUFFICES ASSUME RunsInv, [TestRunsNext]_runVars PROVE RunsInv'
  OBVIOUS
<1>1. ASSUME NEW q \in Requests, Ingest(q) PROVE RunsInv'
  BY <1>1, LookupsKeep, InsertRunKeeps, RequireKeeps, ReadForAttachKeeps, InsertItemsKeeps, UpdateResultKeeps,
     CloseRunKeeps DEF Ingest
<1>2. ASSUME NEW q \in Requests, RunPage(q) PROVE RunsInv'
  BY <1>2, RemoveCasesKeeps, MarkDeletedKeeps, DeleteCommitKeeps, CheckItemsKeeps, SaveCycleKeeps, ResolveBulkKeeps,
     ReadExecutionKeeps, WriteExecutionKeeps, LinkBugKeeps, FailExecutionKeeps DEF RunPage
<1>3. ASSUME NEW q \in Requests, AnyCall(q) \/ Crash(q) PROVE RunsInv'
  BY <1>3, AnyCallKeeps, CrashKeeps
<1>4. ASSUME NEW m \in People,
             AddProjectMember(m) \/ RemoveProjectMember(m) \/ LeaveCommit(m) \/ LeaveRollback(m) \/ RemoveWorkspaceMember(m)
      PROVE  RunsInv'
  BY <1>4, LeaveCommitKeeps, MembersKeep
<1>5. CASE UNCHANGED runVars
  <2>1. RowsInv' /\ UNCHANGED <<cycle, deleting, members, req>>
    BY <1>5, RowsUntouched DEF runVars, RunsInv
  <2>2. ReqsInv'
    BY <2>1 DEF RunsInv, ReqsInv, ReqGood, OnRun, Checked, OneCommit, At
  <2> QED
    BY <2>1, <2>2 DEF RunsInv
<1> QED
  BY <1>1, <1>2, <1>3, <1>4, <1>5 DEF TestRunsNext

LEMMA RunsInvHolds == TestRunsSpec => []RunsInv
<1> QED
  BY RunsInvInit, RunsInvNext, PTL DEF TestRunsSpec

-----------------------------------------------------------------------------
(* The theorems                                                              *)

(* Every row and every request stays of its type: a status is one that was   *)
(* asked for, a retry count is within its bound, an assignee is a person     *)
(* (legacy.service.ts, automation.service.ts).                               *)
THEOREM TestRunsTyping == TestRunsSpec => []TestRunsTypeOK
<1>1. ASSUME RunsInv PROVE TestRunsTypeOK
  <2>1. RowsTyped /\ req \in [Requests -> ReqRow]
    BY <1>1 DEF RunsInv, RowsInv, ReqsInv
  <2>2. \A q \in Requests :
          /\ req[q].run \in Runs \cup {NoRun} /\ req[q].build \in Builds \cup {NoBuild}
          /\ req[q].cases \subseteq Cases /\ req[q].todo \subseteq Rows /\ req[q].retry \in 0..NoRetry
          /\ req[q].pc \in Places
    BY <2>1 DEF ReqRow
  <2> QED
    BY <2>1, <2>2 DEF TestRunsTypeOK, RowsTyped, CycleRow, ExecRow, Places
<1> QED
  BY <1>1, RunsInvHolds, PTL

(* "There is exactly one result row per (run, case)" (recordResult): however *)
(* attachments of the same case race, a run has one live row of it, and an   *)
(* execution is live exactly when its cycle_item is (attachCases,            *)
(* removeCycleTestCases, deleteCycle).                                       *)
THEOREM OneResultPerCaseHolds == TestRunsSpec => []OneResultPerCase
<1>1. ASSUME RunsInv PROVE OneResultPerCase
  <2>1. RowsAgree
    BY <1>1 DEF RunsInv, RowsInv
  <2>2. ASSUME NEW r \in Runs, NEW t \in Cases PROVE Cardinality(LiveRow(r, t)) <= 1
    <3>1. CASE LiveRow(r, t) = {}
      BY <3>1, FS_EmptySet
    <3>2. CASE LiveRow(r, t) # {}
      <4>1. PICK i : i \in LiveRow(r, t)
        BY <3>2
      <4>2. LiveRow(r, t) = {i}
        BY <2>1, <4>1 DEF LiveRow, RowsOf, RowsAgree, SameCell
      <4> QED
        BY <4>2, FS_Singleton
    <3> QED
      BY <3>1, <3>2
  <2> QED
    BY <2>1, <2>2 DEF OneResultPerCase, RowsAgree
<1> QED
  BY <1>1, RunsInvHolds, PTL

(* A deleted run holds no live row but those of an attachment its deletion   *)
(* overlapped: the EXISTS of attachCases closes the rest (attachCases,       *)
(* deleteCycle).                                                             *)
THEOREM DeletedRunIsEmptyHolds == TestRunsSpec => []DeletedRunIsEmpty
<1>1. RunsInv => DeletedRunIsEmpty
  BY DEF RunsInv, RowsInv
<1> QED
  BY <1>1, RunsInvHolds, PTL

(* A live execution points at a member or at nobody, but where a request     *)
(* relied on a membership whose removal was under way (removeProjectMember,  *)
(* updateExecution), or where the member was removed from the workspace.     *)
THEOREM AssigneesAreMembersHolds == TestRunsSpec => []AssigneesAreMembers
<1>1. RunsInv => AssigneesAreMembers
  BY DEF RunsInv, RowsInv, AssigneesAgree, AssigneesAreMembers
<1> QED
  BY <1>1, RunsInvHolds, PTL

(* A retried close that is answered leaves a reopened run alone, unless the  *)
(* reopening came between its own read and its write (closeRun,              *)
(* updateCycle).                                                             *)
THEOREM ReopenedStaysOpenHolds == TestRunsSpec => ReopenedStaysOpen
<1>1. ASSUME RunsInv
      PROVE  \A r \in Runs, q \in Requests :
               cycle[r].closed /\ cycle[r].status # "Completed" /\ At(q, "close") /\ req[q].run = r => req[q].overtaken
  BY <1>1, RequestIsGood DEF Checked, At
<1>2. RunsInv =>
        [\A r \in Runs, q \in Requests :
           cycle[r].closed /\ cycle[r].status # "Completed" /\ At(q, "close") /\ req[q].run = r /\ req'[q].pc = "ok" =>
             req[q].overtaken]_runVars
  BY <1>1
<1> QED
  BY <1>2, RunsInvHolds, PTL DEF ReopenedStaysOpen

-----------------------------------------------------------------------------
(* The result store                                                          *)

(* The result of a case is that of its one live row.                         *)
ResultsAgree ==
    /\ \A i \in Rows : item[i] = "live" =>
         StoreResult[<<i[1], i[2]>>] = [status |-> exec[i].status, retries |-> exec[i].retries]
    /\ \A r \in Runs, t \in Cases : (\A i \in Rows : i[1] = r /\ i[2] = t => item[i] # "live") =>
         StoreResult[<<r, t>>] = Store!Absent

LEMMA ResultsRead == RunsInv => ResultsAgree
<1> SUFFICES ASSUME RunsInv PROVE ResultsAgree
  OBVIOUS
<1>1. RowsAgree
  BY DEF RunsInv, RowsInv
<1>2. ASSUME NEW i \in Rows, item[i] = "live"
      PROVE  StoreResult[<<i[1], i[2]>>] = [status |-> exec[i].status, retries |-> exec[i].retries]
  <2>1. LiveExecutions(i[1], i[2]) = {i}
    BY <1>1, <1>2 DEF LiveExecutions, RowsAgree, SameCell
  <2>2. <<i[1], i[2]>> \in Runs \X Cases
    BY DEF Rows
  <2>3. PICK p \in Runs \X Cases : p = <<i[1], i[2]>> /\ p[1] = i[1] /\ p[2] = i[2]
    BY <2>2
  <2>4. (CHOOSE j \in LiveExecutions(p[1], p[2]) : TRUE) = i
    BY <2>1, <2>3
  <2>5. LiveExecutions(p[1], p[2]) # {}
    BY <2>1, <2>3
  <2>6. StoreResult[p] = [status |-> exec[i].status, retries |-> exec[i].retries]
    BY <2>4, <2>5 DEF StoreResult
  <2> QED
    BY <2>3, <2>6
<1>3. ASSUME NEW r \in Runs, NEW t \in Cases, \A i \in Rows : i[1] = r /\ i[2] = t => item[i] # "live"
      PROVE  StoreResult[<<r, t>>] = Store!Absent
  <2>1. LiveExecutions(r, t) = {}
    BY <1>1, <1>3 DEF LiveExecutions, RowsAgree
  <2>0. <<r, t>> \in Runs \X Cases /\ <<r, t>>[1] = r /\ <<r, t>>[2] = t
    OBVIOUS
  <2>2. PICK p \in Runs \X Cases : p = <<r, t>> /\ p[1] = r /\ p[2] = t
    BY <2>0
  <2>3. StoreResult[p] = [status |-> "Absent", retries |-> 0]
    BY <2>1, <2>2 DEF StoreResult
  <2> QED
    BY <2>2, <2>3 DEF Store!Absent
<1> QED
  BY <1>2, <1>3 DEF ResultsAgree

LEMMA ResultsReadNext == RunsInv' => ResultsAgree'
<1> QED
  BY ResultsRead, PTL

LEMMA CellStays ==
  ASSUME ResultsAgree, ResultsAgree', NEW r \in Runs, NEW t \in Cases,
         \A i \in Rows : i[1] = r /\ i[2] = t => (item'[i] = "live" <=> item[i] = "live"),
         \A i \in Rows : i[1] = r /\ i[2] = t /\ item[i] = "live" =>
           exec'[i].status = exec[i].status /\ exec'[i].retries = exec[i].retries
  PROVE  StoreResult'[<<r, t>>] = StoreResult[<<r, t>>]
<1>1. CASE \E i \in Rows : i[1] = r /\ i[2] = t /\ item[i] = "live"
  <2>1. PICK i \in Rows : i[1] = r /\ i[2] = t /\ item[i] = "live"
    BY <1>1
  <2>2. StoreResult[<<r, t>>] = [status |-> exec[i].status, retries |-> exec[i].retries]
    BY <2>1 DEF ResultsAgree
  <2>3. StoreResult'[<<r, t>>] = [status |-> exec'[i].status, retries |-> exec'[i].retries]
    BY <2>1 DEF ResultsAgree
  <2> QED
    BY <2>1, <2>2, <2>3
<1>2. CASE \A i \in Rows : i[1] = r /\ i[2] = t => item[i] # "live"
  BY <1>2 DEF ResultsAgree, Store!Absent
<1> QED
  BY <1>1, <1>2

LEMMA ResultsWhole ==
  /\ StoreResult = [p \in Runs \X Cases |-> StoreResult[p]]
  /\ StoreResult' = [p \in Runs \X Cases |-> StoreResult'[p]]
  /\ StoreRun = [r \in Runs |-> StoreRun[r]] /\ StoreRun' = [r \in Runs |-> StoreRun'[r]]
  /\ \A r \in Runs :
       /\ StoreRun[r] = [state |-> cycle[r].state, build |-> cycle[r].build, closed |-> cycle[r].closed]
       /\ StoreRun'[r] = [state |-> cycle'[r].state, build |-> cycle'[r].build, closed |-> cycle'[r].closed]
  BY DEF StoreResult, StoreRun

(* A step of the server as the store sees it                                 *)
StoreStep == Store!StoreNext \/ UNCHANGED <<StoreRun, StoreResult>>

LEMMA RowsUnseen ==
  ASSUME UNCHANGED <<cycle, exec>>
  PROVE  StoreStep
<1>1. StoreRun' = StoreRun
  BY DEF StoreRun
<1>2. StoreResult' = StoreResult
  BY DEF StoreResult, LiveExecutions
<1> QED
  BY <1>1, <1>2 DEF StoreStep

LEMMA CyclesUnseen ==
  ASSUME UNCHANGED cycle
  PROVE  StoreRun' = StoreRun
  BY DEF StoreRun

LEMMA ResultsUnseen ==
  ASSUME UNCHANGED exec
  PROVE  StoreResult' = StoreResult
  BY DEF StoreResult, LiveExecutions

LEMMA EveryCellStays ==
  ASSUME ResultsAgree, ResultsAgree', UNCHANGED item,
         \A i \in Rows : exec'[i].status = exec[i].status /\ exec'[i].retries = exec[i].retries
  PROVE  StoreResult' = StoreResult
<1>1. \A r \in Runs, t \in Cases : StoreResult'[<<r, t>>] = StoreResult[<<r, t>>]
  BY CellStays
<1>2. \A p \in Runs \X Cases : StoreResult'[p] = StoreResult[p]
  BY <1>1
<1> QED
  BY <1>2, ResultsWhole

(* createRun's INSERT and createCycleForUser's open a run without cases      *)
LEMMA Opens ==
  ASSUME UNCHANGED exec, NEW r \in Runs, NEW b \in Builds \cup {NoBuild}, cycle[r].state = "none",
         b = NoBuild \/ LiveRuns(b) = {},
         cycle \in [Runs -> CycleRow], NEW c \in CycleRow, cycle' = [cycle EXCEPT ![r] = c],
         c.state = "live", c.build = b, c.closed = FALSE
  PROVE  StoreStep
<1>1. StoreRun[r].state = "none"
  BY DEF StoreRun
<1>2. b = NoBuild \/ Store!LiveRuns(b) = {}
  <2>1. Store!LiveRuns(b) = LiveRuns(b)
    BY DEF Store!LiveRuns, LiveRuns, StoreRun
  <2> QED
    BY <2>1
<1>3. StoreRun' = [StoreRun EXCEPT ![r] = [state |-> "live", build |-> b, closed |-> FALSE]]
  BY DEF StoreRun
<1>4. StoreResult' = Store!WithCases(r, {})
  <2>1. Store!WithCases(r, {}) = [p \in Runs \X Cases |-> StoreResult[p]]
    BY DEF Store!WithCases
  <2> QED
    BY <2>1, ResultsUnseen, ResultsWhole
<1>5. Store!Open(r, b, {})
  BY <1>1, <1>2, <1>3, <1>4 DEF Store!Open
<1>6. {} \in SUBSET Cases
  OBVIOUS
<1>7. Store!StoreNext
  BY <1>5, <1>6 DEF Store!StoreNext
<1> QED
  BY <1>7 DEF StoreStep

LEMMA CreateCycleMaps ==
  ASSUME RunsInv, NEW q \in Requests, NEW r \in Runs, CreateCycle(q, r)
  PROVE  StoreStep
<1>1. PICK c : c = [cycle[r] EXCEPT !.state = "live"]
  OBVIOUS
<1>2. cycle \in [Runs -> CycleRow] /\ cycle[r].state = "none" /\ cycle[r].closed = FALSE /\ cycle[r].build = NoBuild
  BY DEF RunsInv, RowsInv, RowsTyped, CycleRow, RowsAgree, CreateCycle
<1>3. c \in CycleRow /\ c.state = "live" /\ c.closed = FALSE /\ c.build = NoBuild
  BY <1>1, <1>2 DEF CycleRow
<1>4. cycle' = [cycle EXCEPT ![r] = c] /\ UNCHANGED exec
  BY <1>1, <1>2 DEF CreateCycle, CycleRow
<1> QED
  BY <1>2, <1>3, <1>4, Opens

LEMMA InsertRunMaps ==
  ASSUME RunsInv, NEW q \in Requests, NEW r \in Runs, InsertRun(q, r)
  PROVE  StoreStep
<1>1. req[q] \in ReqRow /\ req[q].build \in Builds \cup {NoBuild}
  BY RequestIsGood DEF ReqRow
<1>2. PICK b \in Builds \cup {NoBuild} : b = req[q].build
  BY <1>1
<1>3. PICK c : c = NewCycle(b)
  OBVIOUS
<1>4. c \in CycleRow /\ c.state = "live" /\ c.closed = FALSE /\ c.build = b
  BY <1>3 DEF CycleRow, NewCycle
<1>5. cycle' = [cycle EXCEPT ![r] = c] /\ UNCHANGED exec /\ cycle[r].state = "none" /\ LiveRuns(b) = {}
  BY <1>2, <1>3 DEF InsertRun, NoOtherRun
<1>6. cycle \in [Runs -> CycleRow]
  BY DEF RunsInv, RowsInv, RowsTyped
<1> QED
  BY <1>4, <1>5, <1>6, Opens

LEMMA CloseRunMaps ==
  ASSUME RunsInv, NEW q \in Requests, CloseRun(q)
  PROVE  StoreStep
<1>1. PICK r : r = req[q].run
  OBVIOUS
<1>2. r \in Runs /\ cycle[r].state # "none" /\ cycle \in [Runs -> CycleRow] /\ cycle[r] \in CycleRow
  BY <1>1, RequestIsGood DEF CloseRun, At, OnRun, RunsInv, RowsInv, RowsTyped
<1>3. PICK c : c = [cycle[r] EXCEPT !.status = "Completed", !.ended = TRUE, !.closed = TRUE]
  OBVIOUS
<1>4. c.state = cycle[r].state /\ c.build = cycle[r].build /\ c.closed = TRUE
  BY <1>2, <1>3 DEF CycleRow
<1>5. cycle' = [cycle EXCEPT ![r] = c] /\ UNCHANGED exec
  BY <1>1, <1>2, <1>3 DEF CloseRun
<1>6. StoreRun' = [StoreRun EXCEPT ![r].closed = TRUE]
  <2>1. PICK d : d = TRUE
    OBVIOUS
  <2>2. StoreRun[r] = [state |-> cycle[r].state, build |-> cycle[r].build, closed |-> cycle[r].closed]
    BY <1>2, ResultsWhole
  <2>3. cycle'[r] = c /\ c.closed = d
    BY <1>2, <1>4, <1>5, <2>1
  <2>4. StoreRun'[r] = [state |-> cycle[r].state, build |-> cycle[r].build, closed |-> d]
    BY <1>2, <1>4, <2>3, ResultsWhole
  <2>5. StoreRun'[r] = [StoreRun[r] EXCEPT !.closed = d]
    BY <2>2, <2>4
  <2>6. \A s \in Runs \ {r} : StoreRun'[s] = StoreRun[s]
    BY <1>2, <1>5 DEF StoreRun
  <2>7. StoreRun' = [StoreRun EXCEPT ![r].closed = d]
    BY <1>2, <2>5, <2>6, ResultsWhole
  <2> QED
    BY <2>1, <2>7, Zenon
<1>7. Store!Close(r)
  <2>1. StoreRun[r].state # "none"
    BY <1>2, ResultsWhole
  <2>2. StoreResult' = StoreResult
    BY <1>5, ResultsUnseen
  <2> QED
    BY <1>6, <2>1, <2>2 DEF Store!Close
<1> QED
  BY <1>2, <1>7 DEF StoreStep, Store!StoreNext

LEMMA SaveCycleMaps ==
  ASSUME RunsInv, NEW q \in Requests, SaveCycle(q)
  PROVE  StoreStep
<1>1. PICK r : r = req[q].run
  OBVIOUS
<1>2. r \in Runs /\ cycle \in [Runs -> CycleRow] /\ cycle[r] \in CycleRow
  BY <1>1, RequestIsGood DEF SaveCycle, At, OnRun, RunsInv, RowsInv, RowsTyped
<1>3. PICK c : c = [cycle[r] EXCEPT !.status = req[q].status, !.ended = req[q].status = "Completed"]
  OBVIOUS
<1>4. c.state = cycle[r].state /\ c.build = cycle[r].build /\ c.closed = cycle[r].closed
  BY <1>2, <1>3 DEF CycleRow
<1>5. cycle' = [cycle EXCEPT ![r] = c] /\ UNCHANGED exec
  BY <1>1, <1>2, <1>3 DEF SaveCycle
<1>6. StoreRun' = StoreRun
  BY <1>2, <1>4, <1>5 DEF StoreRun
<1> QED
  BY <1>5, <1>6, ResultsUnseen DEF StoreStep

(* attachCases and addCycleTestCases attach the cases that are missing       *)
LEMMA InsertItemsMaps ==
  ASSUME RunsInv, ResultsAgree, ResultsAgree', NEW q \in Requests, InsertItems(q)
  PROVE  StoreStep
<1>1. PICK r : r = req[q].run
  OBVIOUS
<1>2. PICK ts : ts = Missing(q)
  OBVIOUS
<1>3. r \in Runs /\ cycle[r].state # "none" /\ ts \in SUBSET Cases
  BY <1>1, <1>2, RequestIsGood DEF InsertItems, At, OnRun, ReqRow, Missing
<1>4. /\ \A i \in Rows : i \in NewRows(q) => item'[i] = "live" /\ exec'[i] = [NoExecution EXCEPT !.state = "live"]
      /\ \A i \in Rows : i \notin NewRows(q) => item'[i] = item[i] /\ exec'[i] = exec[i]
      /\ UNCHANGED cycle
  BY InsertItemsWrites
<1>5. [NoExecution EXCEPT !.state = "live"].status = "Untested" /\ [NoExecution EXCEPT !.state = "live"].retries = 0
  BY DEF NoExecution
<1>6. ASSUME NEW t \in ts PROVE StoreResult[<<r, t>>] = Store!Absent /\ StoreResult'[<<r, t>>] = Store!Fresh
  <2>1. LiveRow(r, t) = {} /\ FreeRows(r, t) # {}
    BY <1>1, <1>2 DEF Missing, InsertItems
  <2>2. StoreResult[<<r, t>>] = Store!Absent
    <3>1. \A i \in Rows : i[1] = r /\ i[2] = t => item[i] # "live"
      BY <2>1 DEF LiveRow, RowsOf
    <3> QED
      BY <1>3, <3>1 DEF ResultsAgree
  <2>3. PICK i \in NewRows(q) : i = NextRow(r, t)
    BY <1>1, <1>2, <2>1 DEF NewRows
  <2>4. i \in Rows /\ i[1] = r /\ i[2] = t
    BY <2>1, <2>3 DEF NextRow, FreeRows
  <2>5. item'[i] = "live" /\ exec'[i].status = "Untested" /\ exec'[i].retries = 0
    BY <1>4, <1>5, <2>3, <2>4
  <2>6. StoreResult'[<<i[1], i[2]>>] = [status |-> exec'[i].status, retries |-> exec'[i].retries]
    BY <2>4, <2>5 DEF ResultsAgree
  <2> QED
    BY <2>2, <2>4, <2>5, <2>6 DEF Store!Fresh
<1>7. ASSUME NEW u \in Runs, NEW t \in Cases, ~(u = r /\ t \in ts) PROVE StoreResult'[<<u, t>>] = StoreResult[<<u, t>>]
  <2>1. \A i \in NewRows(q) : i[1] = r /\ i[2] \in ts
    <3>1. ASSUME NEW i \in NewRows(q) PROVE i[1] = r /\ i[2] \in ts
      BY <1>1, <1>2, NewRowsFree DEF Missing
    <3> QED
      BY <3>1
  <2>2. \A i \in Rows : i[1] = u /\ i[2] = t => item'[i] = item[i] /\ exec'[i] = exec[i]
    BY <1>4, <1>7, <2>1
  <2> QED
    BY <2>2, CellStays
<1>8. StoreResult' = Store!WithCases(r, ts)
  <2>1. ASSUME NEW p \in Runs \X Cases
        PROVE  StoreResult'[p] = IF p[1] = r /\ p[2] \in ts /\ StoreResult[p] = Store!Absent
                                 THEN Store!Fresh ELSE StoreResult[p]
    <3>1. p = <<p[1], p[2]>> /\ p[1] \in Runs /\ p[2] \in Cases
      OBVIOUS
    <3>2. CASE p[1] = r /\ p[2] \in ts
      BY <1>6, <3>1, <3>2
    <3>3. CASE ~(p[1] = r /\ p[2] \in ts)
      BY <1>7, <3>1, <3>3
    <3> QED
      BY <3>2, <3>3
  <2> QED
    BY <2>1, ResultsWhole DEF Store!WithCases
<1>9. StoreRun' = StoreRun /\ StoreRun[r].state # "none"
  BY <1>3, <1>4, CyclesUnseen, ResultsWhole
<1>10. Store!Attach(r, ts)
  BY <1>8, <1>9 DEF Store!Attach
<1> QED
  BY <1>3, <1>10 DEF StoreStep, Store!StoreNext

(* The cases that a statement takes out of a run                             *)
LEMMA RowsGo ==
  ASSUME RunsInv, ResultsAgree, ResultsAgree', NEW rows, DeleteRows(rows),
         NEW r \in Runs, NEW ts \in SUBSET Cases,
         \A i \in Rows : i[1] = r /\ i[2] \in ts /\ item[i] = "live" => i \in rows,
         \A i \in rows : ~(i[1] = r /\ i[2] \in ts) => item[i] # "live"
  PROVE  \A p \in Runs \X Cases : StoreResult'[p] = IF p[1] = r /\ p[2] \in ts THEN Store!Absent ELSE StoreResult[p]
<1>1. /\ \A i \in Rows : i \in rows => item'[i] = "deleted"
      /\ \A i \in Rows : i \notin rows => item'[i] = item[i] /\ exec'[i] = exec[i]
  BY DeleteRowsWrites DEF RunsInv, RowsInv
<1>2. ASSUME NEW t \in ts PROVE StoreResult'[<<r, t>>] = Store!Absent
  <2>1. \A i \in Rows : i[1] = r /\ i[2] = t => item'[i] # "live"
    BY <1>1
  <2> QED
    BY <2>1 DEF ResultsAgree
<1>3. ASSUME NEW u \in Runs, NEW t \in Cases, ~(u = r /\ t \in ts) PROVE StoreResult'[<<u, t>>] = StoreResult[<<u, t>>]
  <2>1. \A i \in Rows : i[1] = u /\ i[2] = t /\ item[i] = "live" => item'[i] = item[i] /\ exec'[i] = exec[i]
    BY <1>1, <1>3
  <2>2. \A i \in Rows : i[1] = u /\ i[2] = t /\ item[i] # "live" => item'[i] # "live"
    BY <1>1
  <2> QED
    BY <2>1, <2>2, CellStays
<1>4. ASSUME NEW p \in Runs \X Cases
      PROVE  StoreResult'[p] = IF p[1] = r /\ p[2] \in ts THEN Store!Absent ELSE StoreResult[p]
  <2>1. p = <<p[1], p[2]>> /\ p[1] \in Runs /\ p[2] \in Cases
    OBVIOUS
  <2> QED
    BY <1>2, <1>3, <2>1
<1> QED
  BY <1>4

LEMMA RemoveCasesMaps ==
  ASSUME RunsInv, ResultsAgree, ResultsAgree', NEW q \in Requests, RemoveCases(q)
  PROVE  StoreStep
<1>1. PICK r : r = req[q].run
  OBVIOUS
<1>2. PICK ts : ts = req[q].cases
  OBVIOUS
<1>3. r \in Runs /\ ts \in SUBSET Cases
  BY <1>1, <1>2, RequestIsGood DEF RemoveCases, At, OnRun, ReqRow
<1>4. PICK rows : rows = UNION {LiveRow(r, t) : t \in ts}
  OBVIOUS
<1>5. DeleteRows(rows) /\ UNCHANGED cycle
  BY <1>1, <1>2, <1>4 DEF RemoveCases
<1>6. \A i \in Rows : i[1] = r /\ i[2] \in ts /\ item[i] = "live" => i \in rows
  BY <1>4 DEF LiveRow, RowsOf
<1>7. \A i \in rows : ~(i[1] = r /\ i[2] \in ts) => item[i] # "live"
  BY <1>4 DEF LiveRow, RowsOf
<1>8. StoreResult' = [p \in Runs \X Cases |-> IF p[1] = r /\ p[2] \in ts THEN Store!Absent ELSE StoreResult[p]]
  <2>1. \A p \in Runs \X Cases : StoreResult'[p] = IF p[1] = r /\ p[2] \in ts THEN Store!Absent ELSE StoreResult[p]
    BY <1>3, <1>5, <1>6, <1>7, RowsGo
  <2> QED
    BY <2>1, ResultsWhole
<1>9. Store!Withdraw(r, ts)
  BY <1>5, <1>8, CyclesUnseen DEF Store!Withdraw
<1> QED
  BY <1>3, <1>9 DEF StoreStep, Store!StoreNext

(* The commit of deleteCycle: the rows of a case stay if a statement it      *)
(* overlapped has added them.                                                *)
LEMMA DeleteCommitMaps ==
  ASSUME RunsInv, ResultsAgree, ResultsAgree', NEW q \in Requests, DeleteCommit(q)
  PROVE  StoreStep
<1>0. RowsAgree /\ DeletionsAgree /\ cycle \in [Runs -> CycleRow]
  BY DEF RunsInv, RowsInv, RowsTyped
<1>1. PICK r : r = req[q].run
  OBVIOUS
<1>2. r \in Runs /\ r \in deleting /\ cycle[r].state = "live"
  BY <1>0, <1>1, RequestIsGood DEF DeleteCommit, At, OnRun, Checked, DeletionsAgree
<1>3. PICK rows : rows = {i \in doomed : i[1] = r}
  OBVIOUS
<1>4. DeleteRows(rows) /\ cycle' = [cycle EXCEPT ![r].state = "deleted"]
  BY <1>1, <1>3 DEF DeleteCommit
<1>5. PICK kept : kept = {t \in Cases : \E i \in Rows : i[1] = r /\ i[2] = t /\ item[i] = "live" /\ i \notin rows}
  OBVIOUS
<1>6. PICK gone \in SUBSET Cases : gone = Cases \ kept
  OBVIOUS
<1>7. \A i \in Rows : i[1] = r /\ i[2] \in gone /\ item[i] = "live" => i \in rows
  BY <1>5, <1>6
<1>8. \A i \in rows : ~(i[1] = r /\ i[2] \in gone) => item[i] # "live"
  <2>1. ASSUME NEW i \in rows, item[i] = "live", i[2] \notin gone PROVE FALSE
    <3>1. i \in Rows /\ i[2] \in Cases /\ i[1] = r
      BY <1>3 DEF RunsInv, RowsInv, RowsTyped, Rows
    <3>2. PICK j \in Rows : j[1] = r /\ j[2] = i[2] /\ item[j] = "live" /\ j \notin rows
      BY <1>5, <1>6, <2>1, <3>1
    <3> QED
      BY <1>0, <2>1, <3>1, <3>2 DEF RowsAgree, SameCell
  <2> QED
    BY <1>3, <2>1
<1>9. \A p \in Runs \X Cases : StoreResult'[p] = IF p[1] = r /\ p[2] \in gone THEN Store!Absent ELSE StoreResult[p]
  BY <1>2, <1>4, <1>7, <1>8, RowsGo
<1>10. StoreResult' = [p \in Runs \X Cases |-> IF p[1] = r /\ p[2] \notin kept THEN Store!Absent ELSE StoreResult[p]]
  <2>1. \A p \in Runs \X Cases : p[2] \in gone <=> p[2] \notin kept
    BY <1>6
  <2> QED
    BY <1>9, <2>1, ResultsWhole
<1>11. StoreRun[r].state = "live" /\ StoreRun' = [StoreRun EXCEPT ![r].state = "deleted"]
  BY <1>0, <1>2, <1>4 DEF StoreRun, CycleRow
<1>12. Store!Delete(r, kept)
  BY <1>10, <1>11 DEF Store!Delete
<1>13. kept \in SUBSET Cases
  BY <1>5
<1> QED
  BY <1>2, <1>12, <1>13 DEF StoreStep, Store!StoreNext

(* One row written: the result of its cell, and of no other, changes.        *)
LEMMA RowWritten ==
  ASSUME RunsInv, ResultsAgree, ResultsAgree', UNCHANGED <<cycle, item>>, NEW i \in Rows, item[i] = "live",
         \A j \in Rows \ {i} : exec'[j] = exec[j]
  PROVE  /\ StoreRun' = StoreRun /\ StoreRun[i[1]].state = cycle[i[1]].state
         /\ i[1] \in Runs /\ i[2] \in Cases
         /\ StoreResult[<<i[1], i[2]>>] = [status |-> exec[i].status, retries |-> exec[i].retries]
         /\ StoreResult[<<i[1], i[2]>>] # Store!Absent
         /\ StoreResult' = [StoreResult EXCEPT ![<<i[1], i[2]>>] = [status |-> exec'[i].status, retries |-> exec'[i].retries]]
<1>1. i[1] \in Runs /\ i[2] \in Cases /\ RowsAgree /\ exec[i] \in ExecRow
  BY DEF Rows, RunsInv, RowsInv, RowsTyped
<1>2. StoreRun' = StoreRun /\ StoreRun[i[1]].state = cycle[i[1]].state
  BY <1>1, CyclesUnseen, ResultsWhole
<1>3. StoreResult[<<i[1], i[2]>>] = [status |-> exec[i].status, retries |-> exec[i].retries]
  BY DEF ResultsAgree
<1>4. exec[i].status # "Absent"
  BY <1>1, TestRunsAssumption DEF ExecRow
<1>5. StoreResult'[<<i[1], i[2]>>] = [status |-> exec'[i].status, retries |-> exec'[i].retries]
  BY DEF ResultsAgree
<1>6. ASSUME NEW r \in Runs, NEW t \in Cases, ~(r = i[1] /\ t = i[2]) PROVE StoreResult'[<<r, t>>] = StoreResult[<<r, t>>]
  <2>1. \A j \in Rows : j[1] = r /\ j[2] = t => exec'[j] = exec[j]
    BY <1>6
  <2> QED
    BY <2>1, CellStays
<1>7. PICK c \in Runs \X Cases : c = <<i[1], i[2]>>
  BY <1>1
<1>8. \A p \in Runs \X Cases : p # c => StoreResult'[p] = StoreResult[p]
  BY <1>6, <1>7
<1>9. StoreResult' = [StoreResult EXCEPT ![c] = [status |-> exec'[i].status, retries |-> exec'[i].retries]]
  BY <1>5, <1>7, <1>8, ResultsWhole
<1>10. StoreResult[<<i[1], i[2]>>] # Store!Absent
  BY <1>3, <1>4 DEF Store!Absent
<1> QED
  BY <1>1, <1>2, <1>3, <1>7, <1>9, <1>10

(* recordResult                                                              *)
LEMMA UpdateResultMaps ==
  ASSUME RunsInv, ResultsAgree, ResultsAgree', NEW q \in Requests, UpdateResult(q)
  PROVE  StoreStep
<1>0. RowsAgree /\ exec \in [Rows -> ExecRow] /\ UNCHANGED <<cycle, item>>
  BY DEF RunsInv, RowsInv, RowsTyped, UpdateResult
<1>1. PICK r : r = req[q].run
  OBVIOUS
<1>2. PICK n : n = req[q].retry
  OBVIOUS
<1>3. PICK s : s = req[q].status
  OBVIOUS
<1>4. r \in Runs /\ cycle[r].state # "none" /\ n \in 0..NoRetry /\ s \in Statuses /\ \E t \in Cases : req[q].cases = {t}
  BY <1>1, <1>2, <1>3, RequestIsGood DEF ReqRow, UpdateResult, At, Stage, OnRun
<1>5. PICK t \in Cases : req[q].cases = {t}
  BY <1>4
<1>6. PICK rows : rows = LiveExecutions(r, t)
  OBVIOUS
<1>7. UNION {LiveExecutions(req[q].run, u) : u \in req[q].cases} = rows
  BY <1>1, <1>5, <1>6
<1>8. CASE UNCHANGED exec
  BY <1>0, <1>8, RowsUnseen
<1>9. CASE /\ rows # {}
           /\ exec' = [i \in Rows |-> IF i \in rows
                         THEN [exec[i] EXCEPT !.status = s, !.retries = Retries(i, n)] ELSE exec[i]]
  <2>1. PICK i : i \in rows
    BY <1>9
  <2>2. i \in Rows /\ i[1] = r /\ i[2] = t /\ item[i] = "live"
    BY <1>0, <1>6, <2>1 DEF LiveExecutions, RowsAgree
  <2>3. rows = {i}
    BY <1>0, <1>6, <2>1, <2>2 DEF LiveExecutions, RowsAgree, SameCell
  <2>4. exec[i] \in ExecRow
    BY <1>0, <2>2
  <2>5. PICK k : k = Retries(i, n)
    OBVIOUS
  <2>6. exec'[i] = [exec[i] EXCEPT !.status = s, !.retries = k]
    BY <1>9, <2>2, <2>3, <2>5
  <2>7. exec'[i].status = s /\ exec'[i].retries = k
    BY <2>4, <2>6 DEF ExecRow
  <2>8. \A j \in Rows \ {i} : exec'[j] = exec[j]
    BY <1>9, <2>3
  <2>9. /\ StoreRun' = StoreRun /\ StoreRun[r].state = cycle[r].state
        /\ StoreResult[<<r, t>>] = [status |-> exec[i].status, retries |-> exec[i].retries]
        /\ StoreResult' = [StoreResult EXCEPT ![<<r, t>>] = [status |-> exec'[i].status, retries |-> exec'[i].retries]]
    BY <1>0, <2>2, <2>8, RowWritten
  <2>10. PICK old : old = StoreResult[<<r, t>>]
    OBVIOUS
  <2>11. old.status = exec[i].status /\ old.retries = exec[i].retries /\ old.status # "Absent"
    BY <2>4, <2>9, <2>10, TestRunsAssumption DEF ExecRow
  <2>12. Store!Reported(old, s, n) = [status |-> s, retries |-> k]
    BY <2>5, <2>11 DEF Store!Reported, Store!NoRetry, NoRetry, Retries
  <2>13. StoreResult' = [StoreResult EXCEPT ![<<r, t>>] = Store!Reported(@, s, n)]
    BY <2>7, <2>9, <2>10, <2>12
  <2>14. Store!Report(r, t, s, n)
    BY <1>4, <2>9, <2>13 DEF Store!Report
  <2>15. n \in 0..Store!NoRetry
    BY <1>4 DEF NoRetry, Store!NoRetry
  <2> QED
    BY <1>4, <2>14, <2>15 DEF StoreStep, Store!StoreNext
<1> QED
  BY <1>1, <1>2, <1>3, <1>7, <1>8, <1>9 DEF UpdateResult

(* A person, or a bug linked, sets a result                                  *)
LEMMA JudgeMaps ==
  ASSUME RunsInv, ResultsAgree, ResultsAgree', UNCHANGED <<cycle, item>>, NEW i \in Rows, item[i] = "live",
         NEW s \in Statuses \cup {"Untested"}, exec'[i].status = s, exec'[i].retries = exec[i].retries,
         \A j \in Rows \ {i} : exec'[j] = exec[j]
  PROVE  StoreStep
<1>2. exec'[i].status = s /\ exec'[i].retries = exec[i].retries /\ \A j \in Rows \ {i} : exec'[j] = exec[j]
  OBVIOUS
<1>3. /\ StoreRun' = StoreRun /\ i[1] \in Runs /\ i[2] \in Cases
      /\ StoreResult[<<i[1], i[2]>>] = [status |-> exec[i].status, retries |-> exec[i].retries]
      /\ StoreResult[<<i[1], i[2]>>] # Store!Absent
      /\ StoreResult' = [StoreResult EXCEPT ![<<i[1], i[2]>>] = [status |-> exec'[i].status, retries |-> exec'[i].retries]]
  BY <1>2, RowWritten
<1>4. PICK old : old = StoreResult[<<i[1], i[2]>>]
  OBVIOUS
<1>5. [old EXCEPT !.status = s] = [status |-> exec'[i].status, retries |-> exec'[i].retries]
  BY <1>2, <1>3, <1>4
<1>6. StoreResult' = [StoreResult EXCEPT ![<<i[1], i[2]>>].status = s]
  BY <1>3, <1>4, <1>5
<1>7. Store!Judge(i[1], i[2], s)
  BY <1>3, <1>6 DEF Store!Judge
<1> QED
  BY <1>3, <1>7 DEF StoreStep, Store!StoreNext

LEMMA FailExecutionMaps ==
  ASSUME RunsInv, ResultsAgree, ResultsAgree', NEW q \in Requests, FailExecution(q)
  PROVE  StoreStep
<1>1. PICK i : i = req[q].row
  OBVIOUS
<1>2. i \in Rows /\ "Failed" \in Statuses /\ UNCHANGED <<cycle, item>> /\ RowsAgree
  BY <1>1, RequestIsGood, TestRunsAssumption DEF FailExecution, At, Stage, RunsInv, RowsInv
<1>3. CASE UNCHANGED exec
  BY <1>2, <1>3, RowsUnseen
<1>4. CASE exec[i].state = "live" /\ exec' = [exec EXCEPT ![i].status = "Failed"]
  <2>1. item[i] = "live"
    BY <1>2, <1>4 DEF RowsAgree
  <2>2. exec \in [Rows -> ExecRow] /\ exec[i] \in ExecRow
    BY <1>2 DEF RunsInv, RowsInv, RowsTyped
  <2>3. exec'[i].status = "Failed" /\ exec'[i].retries = exec[i].retries /\ \A j \in Rows \ {i} : exec'[j] = exec[j]
    BY <1>2, <1>4, <2>2 DEF ExecRow
  <2> QED
    BY <1>2, <2>1, <2>3, JudgeMaps
<1> QED
  BY <1>1, <1>3, <1>4 DEF FailExecution

LEMMA WriteExecutionMaps ==
  ASSUME RunsInv, ResultsAgree, ResultsAgree', NEW q \in Requests, WriteExecution(q)
  PROVE  StoreStep
<1>1. PICK i : i = req[q].row
  OBVIOUS
<1>2. PICK s : s = req[q].status
  OBVIOUS
<1>3. PICK p : p = req[q].person
  OBVIOUS
<1>4. i \in Rows /\ s \in Statuses \cup {"Untested"} /\ UNCHANGED <<cycle, item>> /\ RowsAgree
  BY <1>1, <1>2, RequestIsGood DEF WriteExecution, At, Stage, RunsInv, RowsInv
<1>5. exec \in [Rows -> ExecRow] /\ exec[i] \in ExecRow
  BY <1>4 DEF RunsInv, RowsInv, RowsTyped
<1>6. CASE UNCHANGED exec
  BY <1>4, <1>6, RowsUnseen
<1>7. CASE /\ exec[i].state = "live"
           /\ exec' = [exec EXCEPT ![i].status = IF "status" \in req[q].sets THEN s ELSE @,
                                   ![i].assignee = IF "assignee" \in req[q].sets THEN p ELSE @]
  <2>1. item[i] = "live"
    BY <1>4, <1>7 DEF RowsAgree
  <2>2. /\ exec'[i].retries = exec[i].retries /\ \A j \in Rows \ {i} : exec'[j] = exec[j]
        /\ exec'[i].status = IF "status" \in req[q].sets THEN s ELSE exec[i].status
    BY <1>4, <1>5, <1>7 DEF ExecRow
  <2>3. CASE "status" \notin req[q].sets
    <3>1. \A j \in Rows : exec'[j].status = exec[j].status /\ exec'[j].retries = exec[j].retries
      BY <2>2, <2>3
    <3>2. StoreResult' = StoreResult
      BY <1>4, <3>1, EveryCellStays
    <3> QED
      BY <1>4, <3>2, CyclesUnseen DEF StoreStep
  <2>4. CASE "status" \in req[q].sets
    BY <1>4, <2>1, <2>2, <2>4, JudgeMaps
  <2> QED
    BY <2>3, <2>4
<1> QED
  BY <1>1, <1>2, <1>3, <1>6, <1>7 DEF WriteExecution

LEMMA LeaveCommitMaps ==
  ASSUME RunsInv, ResultsAgree, ResultsAgree', NEW m \in People, LeaveCommit(m)
  PROVE  StoreStep
<1>1. UNCHANGED <<cycle, item>> /\ exec \in [Rows -> ExecRow]
  BY DEF LeaveCommit, LoseMember, RunsInv, RowsInv, RowsTyped
<1>2. ASSUME NEW i \in Rows PROVE exec'[i].status = exec[i].status /\ exec'[i].retries = exec[i].retries
  <2>1. exec'[i] = exec[i] \/ exec'[i] = [exec[i] EXCEPT !.assignee = Nobody]
    BY DEF LeaveCommit, ClearAssignments
  <2>2. exec[i] \in ExecRow
    BY <1>1
  <2> QED
    BY <2>1, <2>2 DEF ExecRow
<1>3. StoreResult' = StoreResult
  BY <1>1, <1>2, EveryCellStays
<1> QED
  BY <1>1, <1>3, CyclesUnseen DEF StoreStep

-----------------------------------------------------------------------------
LEMMA CallsUnseen ==
  ASSUME RunsInv, NEW q \in Requests, AnyCall(q)
  PROVE  StoreStep
<1>1. CASE \E r \in Runs : CreateCycle(q, r)
  BY <1>1, CreateCycleMaps
<1>2. ASSUME NEW x, Request(q, x) PROVE StoreStep
  BY <1>2, RowsUnseen DEF Request, rowVars
<1>3. CASE ~\E r \in Runs : CreateCycle(q, r)
  <2>1. /\ \A b, cs : CallCreateRun(q, b, cs) => StoreStep
        /\ \A r, t, s, n : CallRecordResult(q, r, t, s, n) => StoreStep
        /\ \A op, r : CallOnRun(q, op, r) => StoreStep
    BY <1>2 DEF CallCreateRun, CallRecordResult, CallOnRun
  <2>2. /\ \A op, r, cs : CallOnCases(q, op, r, cs) => StoreStep
        /\ \A r, s : CallUpdateCycle(q, r, s) => StoreStep
    BY <1>2 DEF CallOnCases, CallUpdateCycle
  <2>3. /\ \A r, rows, S, s, p : CallBulk(q, r, rows, S, s, p) => StoreStep
        /\ \A i, S, s, p : CallUpdateExecution(q, i, S, s, p) => StoreStep
        /\ \A i : CallLinkBug(q, i) => StoreStep
    BY <1>2 DEF CallBulk, CallUpdateExecution, CallLinkBug
  <2> QED
    BY <1>3, <2>1, <2>2, <2>3, Zenon DEF AnyCall
<1> QED
  BY <1>1, <1>3

LEMMA StoreStarts == TestRunsInit => Store!StoreInit
<1> SUFFICES ASSUME TestRunsInit PROVE Store!StoreInit
  OBVIOUS
<1>1. PICK opened \in SUBSET Runs, b \in Builds :
        cycle = [r \in Runs |-> IF r \in opened THEN NewCycle(b) ELSE NoCycle]
  BY DEF TestRunsInit
<1>2. StoreRun \in [Runs -> [state : {"none", "live"}, build : Builds \cup {NoBuild}, closed : {FALSE}]]
  <2>1. ASSUME NEW r \in Runs
        PROVE  StoreRun[r] \in [state : {"none", "live"}, build : Builds \cup {NoBuild}, closed : {FALSE}]
    <3>1. cycle[r].state \in {"none", "live"} /\ cycle[r].build \in Builds \cup {NoBuild} /\ cycle[r].closed \in {FALSE}
      BY <1>1 DEF NewCycle, NoCycle
    <3>2. StoreRun[r] = [state |-> cycle[r].state, build |-> cycle[r].build, closed |-> cycle[r].closed]
      BY ResultsWhole
    <3>3. PICK no : no = {FALSE}
      OBVIOUS
    <3>4. cycle[r].closed \in no
      BY <3>1, <3>3
    <3>5. StoreRun[r] \in [state : {"none", "live"}, build : Builds \cup {NoBuild}, closed : no]
      BY <3>1, <3>2, <3>4
    <3> QED
      BY <3>3, <3>5, Zenon
  <2> QED
    BY <2>1, ResultsWhole
<1>3. RunsInv /\ ResultsAgree
  BY RunsInvInit, ResultsRead
<1>4. \A i \in Rows : exec[i].status = "Untested" /\ exec[i].retries = 0
  BY DEF TestRunsInit, NoExecution
<1>5. ASSUME NEW r \in Runs, NEW t \in Cases PROVE StoreResult[<<r, t>>] \in {Store!Absent, Store!Fresh}
  <2>1. CASE \E i \in Rows : i[1] = r /\ i[2] = t /\ item[i] = "live"
    <3>1. PICK i \in Rows : i[1] = r /\ i[2] = t /\ item[i] = "live"
      BY <2>1
    <3>2. StoreResult[<<r, t>>] = [status |-> exec[i].status, retries |-> exec[i].retries]
      BY <1>3, <3>1 DEF ResultsAgree
    <3> QED
      BY <1>4, <3>2 DEF Store!Fresh
  <2>2. CASE \A i \in Rows : i[1] = r /\ i[2] = t => item[i] # "live"
    BY <1>3, <2>2 DEF ResultsAgree
  <2> QED
    BY <2>1, <2>2
<1>6. \A p \in Runs \X Cases : StoreResult[p] \in {Store!Absent, Store!Fresh}
  <2>1. \A p \in Runs \X Cases : p = <<p[1], p[2]>> /\ p[1] \in Runs /\ p[2] \in Cases
    OBVIOUS
  <2> QED
    BY <1>5, <2>1
<1>7. StoreResult \in [Runs \X Cases -> {Store!Absent, Store!Fresh}]
  BY <1>6, ResultsWhole
<1> QED
  BY <1>2, <1>7 DEF Store!StoreInit

LEMMA StepsMap == RunsInv /\ RunsInv' /\ [TestRunsNext]_runVars => StoreStep
<1> SUFFICES ASSUME RunsInv, RunsInv', [TestRunsNext]_runVars PROVE StoreStep
  OBVIOUS
<1>0. ResultsAgree /\ ResultsAgree'
  BY ResultsRead, ResultsReadNext
<1>1. ASSUME NEW q \in Requests,
             LookupRun(q) \/ InsertLost(q) \/ RelookupRun(q) \/ Require(q) \/ ReadForAttach(q) \/ CheckItems(q)
               \/ ResolveBulk(q) \/ (\E i \in Rows : ReadExecution(q, i)) \/ LinkBug(q)
      PROVE  StoreStep
  <2>1. UNCHANGED rowVars
    BY <1>1 DEF LookupRun, InsertLost, RelookupRun, Require, ReadForAttach, CheckItems, ResolveBulk, ReadExecution, LinkBug
  <2> QED
    BY <2>1, RowsUnseen DEF rowVars
<1>2. ASSUME NEW q \in Requests, MarkDeleted(q) \/ Crash(q) PROVE StoreStep
  BY <1>2, RowsUnseen DEF MarkDeleted, Crash
<1>3. ASSUME NEW q \in Requests, Ingest(q) PROVE StoreStep
  BY <1>0, <1>1, <1>3, InsertRunMaps, InsertItemsMaps, UpdateResultMaps, CloseRunMaps DEF Ingest
<1>4. ASSUME NEW q \in Requests, RunPage(q) PROVE StoreStep
  BY <1>0, <1>1, <1>2, <1>4, RemoveCasesMaps, DeleteCommitMaps, SaveCycleMaps, WriteExecutionMaps, FailExecutionMaps
     DEF RunPage
<1>5. ASSUME NEW q \in Requests, AnyCall(q) PROVE StoreStep
  BY <1>5, CallsUnseen
<1>6. ASSUME NEW m \in People,
             AddProjectMember(m) \/ RemoveProjectMember(m) \/ LeaveCommit(m) \/ LeaveRollback(m) \/ RemoveWorkspaceMember(m)
      PROVE  StoreStep
  <2>1. LeaveCommit(m) \/ UNCHANGED <<cycle, item, exec>>
    BY <1>6 DEF AddProjectMember, RemoveProjectMember, LeaveRollback, RemoveWorkspaceMember, LoseMember
  <2> QED
    BY <1>0, <2>1, LeaveCommitMaps, RowsUnseen
<1>7. CASE UNCHANGED runVars
  BY <1>7, RowsUnseen DEF runVars
<1> QED
  BY <1>2, <1>3, <1>4, <1>5, <1>6, <1>7 DEF TestRunsNext

(* Statement by statement, under any interleaving of requests and with a     *)
(* crash between any two, the server does what ResultStore says in one step  *)
(* each: shards racing to create a build's run end up with one (createRun),  *)
(* a case attached again keeps its result (attachCases), a report counts a   *)
(* retry (recordResult), and results go only with their case or their run    *)
(* (removeCycleTestCases, deleteCycle).                                      *)
THEOREM ServerImplementsResultStore == TestRunsSpec => ImplementsResultStore
<1>1. TestRunsInit => Store!StoreInit
  BY StoreStarts
<1>2. RunsInv /\ RunsInv' /\ [TestRunsNext]_runVars => [Store!StoreNext]_(Store!storeVars)
  BY StepsMap DEF StoreStep, Store!storeVars
<1> QED
  BY <1>1, <1>2, RunsInvHolds, PTL DEF TestRunsSpec, ImplementsResultStore, Store!StoreSpec

=============================================================================
