------------------------------ MODULE TestRuns ------------------------------
(***************************************************************************)
(* Test runs on the server: the rows of cycles, cycle_items and executions *)
(* of one project, written by the people on the run page                   *)
(* (legacy.service.ts) and by the reporters of CI builds                   *)
(* (automation.service.ts).                                                *)
(*                                                                         *)
(* Every statement is a step of its own, in READ COMMITTED: a statement    *)
(* that writes what it selected (attachCases) reads in one step and writes *)
(* in a later one, and the transactions others can see the middle of,      *)
(* deleteCycle's and removeProjectMember's, are two steps.  A request may  *)
(* die between any two steps.                                              *)
(* Left out: timestamps but ended_at and closed_at, notifications, the     *)
(* activity log, defects, evidence, test cases that do not exist (refused  *)
(* before anything is written) and importRunHistory.                       *)
(***************************************************************************)
EXTENDS Naturals, FiniteSets

CONSTANTS Runs,      \* ids of cycles
          Cases,     \* test cases of the project
          MaxRows,   \* bound on the cycle_items of one run and case over time
          Builds,    \* external ids
          NoBuild,   \* NULL
          People,    \* who may be assigned
          Nobody,    \* NULL
          Requests,  \* requests, each made once
          NoRun,     \* no id yet
          MaxRetries,\* bound on retry_count
          Statuses   \* what a result may be set to

ASSUME TestRunsAssumption ==
    /\ NoBuild \notin Builds /\ Nobody \notin People /\ NoRun \notin Runs
    /\ MaxRows \in Nat \ {0} /\ MaxRetries \in Nat
    /\ "Failed" \in Statuses /\ {"Untested", "Absent"} \cap Statuses = {}

(* A row of cycle_items with its row of executions: the n-th for its run   *)
(* and case.                                                               *)
Rows == Runs \X Cases \X (1..MaxRows)
NoRow == <<>>

VARIABLES cycle,     \* the rows of cycles
          item,      \* cycle_items: "none", "live" or "deleted"
          exec,      \* executions, in one row with the cycle_item they belong to
          deleting,  \* runs whose deleteCycle transaction is open
          doomed,    \* the rows it has marked
          members,   \* project_members
          leave,     \* the people whose removal from the project is open, and the rows it has updated
          req,       \* the requests
          history    \* what became of the rows (a history variable)

runVars == <<cycle, item, exec, deleting, doomed, members, leave, req, history>>
rowVars == <<cycle, item, exec, deleting, doomed, members, leave, history>>

NewRequest == [op |-> "none", pc |-> "new", run |-> NoRun, build |-> NoBuild, cases |-> {},
               status |-> "Untested", retry |-> MaxRetries + 1, person |-> Nobody, sets |-> {},
               todo |-> {}, row |-> NoRow, seen |-> FALSE, overtaken |-> FALSE]

(* retryCount not supplied.                                                *)
NoRetry == MaxRetries + 1

NoExecution == [state |-> "none", status |-> "Untested", retries |-> 0, assignee |-> Nobody]

(* A project without runs, or with one that a build has opened.            *)
NewCycle(b) == [state |-> "live", build |-> b, status |-> "In Progress", ended |-> FALSE, closed |-> FALSE]
NoCycle == [state |-> "none", build |-> NoBuild, status |-> "Planning", ended |-> FALSE, closed |-> FALSE]

(* history.late: rows added by a statement that overlapped the deletion of *)
(* their run; history.dangling: rows assigned by a request whose check of  *)
(* the membership was overtaken by the removal; history.left: rows that a  *)
(* removal from the workspace has left assigned.  No guard reads it.       *)
TestRunsInit ==
    /\ \E opened \in SUBSET Runs, b \in Builds :
         /\ Cardinality(opened) <= 1
         /\ cycle = [r \in Runs |-> IF r \in opened THEN NewCycle(b) ELSE NoCycle]
         /\ item = [i \in Rows |-> IF i[1] \in opened /\ i[3] = 1 THEN "live" ELSE "none"]
    /\ exec = [i \in Rows |-> [NoExecution EXCEPT !.state = item[i]]]
    /\ deleting = {} /\ doomed = {} /\ members = People
    /\ leave = [people |-> {}, rows |-> {}]
    /\ req = [q \in Requests |-> NewRequest]
    /\ history = [late |-> {}, dangling |-> {}, left |-> {}]

-----------------------------------------------------------------------------
RowsOf(r) == {i \in Rows : i[1] = r /\ item[i] = "live"}
LiveRow(r, t) == {i \in RowsOf(r) : i[2] = t}
LiveExecutions(r, t) == {i \in Rows : i[1] = r /\ i[2] = t /\ exec[i].state = "live"}
FreeRows(r, t) == {i \in Rows : i[1] = r /\ i[2] = t /\ item[i] = "none"}
NextRow(r, t) == CHOOSE i \in FreeRows(r, t) : TRUE

At(q, pc) == req[q].pc = pc
Goto(q, pc) == req' = [req EXCEPT ![q].pc = pc]
(* What is left of a request is its answer: the run, a refusal (4xx) or an *)
(* error (5xx).                                                            *)
Ended(q, pc) == [NewRequest EXCEPT !.pc = pc, !.run = IF pc = "ok" THEN req[q].run ELSE NoRun]
Answer(q) == req' = [req EXCEPT ![q] = Ended(q, "ok")]
Refuse(q) == req' = [req EXCEPT ![q] = Ended(q, "refused")]
Fail(q) == req' = [req EXCEPT ![q] = Ended(q, "error")]
IsEnded(q) == req[q].pc \in {"ok", "refused", "error"}

(* The requests of RS are overtaken by a change they will not see.         *)
Overtaken(RS) == [q \in Requests |-> IF q \in RS THEN [req[q] EXCEPT !.overtaken = TRUE] ELSE req[q]]

-----------------------------------------------------------------------------
(* Where requests start.  The id of a run is known once it is there.       *)

Known == {r \in Runs : cycle[r].state # "none"}
Request(q, r) == At(q, "new") /\ req' = [req EXCEPT ![q] = r] /\ UNCHANGED rowVars

CallCreateRun(q, b, cs) ==
    Request(q, [NewRequest EXCEPT !.op = "createRun", !.pc = "lookup", !.build = b, !.cases = cs])

CallRecordResult(q, r, t, s, n) ==
    Request(q, [NewRequest EXCEPT !.op = "recordResult", !.pc = "require", !.run = r, !.cases = {t},
                                  !.status = s, !.retry = n])

CallOnRun(q, op, r) == Request(q, [NewRequest EXCEPT !.op = op, !.pc = "require", !.run = r])

CallOnCases(q, op, r, cs) ==
    Request(q, [NewRequest EXCEPT !.op = op, !.pc = "require", !.run = r, !.cases = cs])

CallUpdateCycle(q, r, s) ==
    Request(q, [NewRequest EXCEPT !.op = "updateCycle", !.pc = "require", !.run = r, !.status = s])

CallBulk(q, r, rows, sets, s, p) ==
    Request(q, [NewRequest EXCEPT !.op = "bulk", !.pc = "require", !.run = r, !.todo = rows,
                                  !.sets = sets, !.status = s, !.person = p])

(* One row, and neither its run nor the selection is looked up first.      *)
CallUpdateExecution(q, i, sets, s, p) ==
    Request(q, [NewRequest EXCEPT !.op = "bulk", !.pc = "each", !.run = i[1], !.todo = {i},
                                  !.sets = sets, !.status = s, !.person = p])

CallLinkBug(q, i) ==
    Request(q, [NewRequest EXCEPT !.op = "linkBug", !.pc = "link", !.run = i[1], !.row = i])

(* createCycleForUser: one INSERT, with no external id.                    *)
CreateCycle(q, r) ==
    /\ At(q, "new") /\ cycle[r].state = "none"
    /\ cycle' = [cycle EXCEPT ![r].state = "live"]
    /\ req' = [req EXCEPT ![q] = [NewRequest EXCEPT !.pc = "ok", !.run = r]]
    /\ UNCHANGED <<item, exec, deleting, doomed, members, leave, history>>

-----------------------------------------------------------------------------
(* createRun                                                               *)

LiveRuns(b) == {r \in Runs : cycle[r].state = "live" /\ cycle[r].build = b}

Reuse(q) == \E r \in LiveRuns(req[q].build) : req' = [req EXCEPT ![q].run = r, ![q].pc = "attach"]

LookupRun(q) ==
    /\ At(q, "lookup")
    /\ IF LiveRuns(req[q].build) # {} THEN Reuse(q) ELSE Goto(q, "create")
    /\ UNCHANGED rowVars

(* idx_cycles_project_external_id                                          *)
NoOtherRun(b) == LiveRuns(b) = {}

(* The INSERT; a row that a deletion is about to take out of the index     *)
(* makes it wait.                                                          *)
InsertRun(q, r) ==
    /\ At(q, "create") /\ cycle[r].state = "none"
    /\ NoOtherRun(req[q].build)
    /\ cycle' = [cycle EXCEPT ![r] = NewCycle(req[q].build)]
    /\ req' = [req EXCEPT ![q].run = r, ![q].pc = "attach"]
    /\ UNCHANGED <<item, exec, deleting, doomed, members, leave, history>>

InsertLost(q) ==
    /\ At(q, "create")
    /\ LiveRuns(req[q].build) # {} /\ LiveRuns(req[q].build) \cap deleting = {}
    /\ Goto(q, "relookup")
    /\ UNCHANGED rowVars

RelookupRun(q) ==
    /\ At(q, "relookup")
    /\ IF LiveRuns(req[q].build) # {} THEN Reuse(q) ELSE Fail(q)
    /\ UNCHANGED rowVars

-----------------------------------------------------------------------------
(* attachCases and addCycleTestCases                                       *)

(* The guard forgotten *)
RunExistsIgnored(r) == TRUE

(* EXISTS (SELECT 1 FROM cycles ... deleted_at IS NULL)                    *)
RunExists(r) == cycle[r].state = "live"

ReadForAttach(q) ==
    /\ At(q, "attach")
    /\ req' = [req EXCEPT ![q].seen = RunExists(req[q].run), ![q].pc = "insert"]
    /\ UNCHANGED rowVars

(* ON CONFLICT DO NOTHING: a case already in the run is left alone; one    *)
(* whose row is being deleted makes the statement wait.  Without an id     *)
(* left the model stops.                                                   *)
Missing(q) == IF req[q].seen THEN {t \in req[q].cases : LiveRow(req[q].run, t) = {}} ELSE {}

(* The result of a case attached again overwritten *)
OpenedOver(q, new) ==
    [i \in Rows |-> IF i \in new \/ (i[1] = req[q].run /\ i[2] \in req[q].cases /\ item[i] = "live")
                    THEN [NoExecution EXCEPT !.state = "live"] ELSE exec[i]]

(* The executions opened for the new items                                 *)
Opened(q, new) == [i \in Rows |-> IF i \in new THEN [NoExecution EXCEPT !.state = "live"] ELSE exec[i]]

InsertItems(q) ==
    /\ At(q, "insert")
    /\ LET r == req[q].run
           new == {NextRow(r, t) : t \in {u \in Missing(q) : FreeRows(r, u) # {}}}
       IN  /\ req[q].seen => \A t \in req[q].cases : LiveRow(r, t) \cap doomed = {}
           /\ \A t \in Missing(q) : FreeRows(r, t) # {}
           /\ item' = [i \in Rows |-> IF i \in new THEN "live" ELSE item[i]]
           /\ exec' = Opened(q, new)
           /\ history' = IF req[q].overtaken \/ r \in deleting
                         THEN [history EXCEPT !.late = @ \cup new] ELSE history
    /\ IF req[q].op = "recordResult" THEN Goto(q, "update") ELSE Answer(q)
    /\ UNCHANGED <<cycle, deleting, doomed, members, leave>>

-----------------------------------------------------------------------------
(* requireRun, requireCycleAccess: the read most handlers start with       *)

AfterRequire(op) ==
    CASE op \in {"recordResult", "addCases"} -> "attach"
      [] op = "removeCases" -> "remove"
      [] op = "deleteCycle" -> "delete"
      [] op = "updateCycle" -> "items"
      [] op = "bulk" -> "resolve"

(* closed_at not looked at *)
RequireNotClosed(q) ==
    /\ At(q, "require")
    /\ IF cycle[req[q].run].state # "live" THEN Refuse(q)
       ELSE Goto(q, IF req[q].op = "closeRun" THEN "close" ELSE AfterRequire(req[q].op))
    /\ UNCHANGED rowVars

(* closeRun stops here when the run is closed already.                     *)
Require(q) ==
    /\ At(q, "require")
    /\ IF cycle[req[q].run].state # "live" THEN Refuse(q)
       ELSE IF req[q].op # "closeRun" THEN Goto(q, AfterRequire(req[q].op))
       ELSE IF cycle[req[q].run].closed THEN Answer(q) ELSE Goto(q, "close")
    /\ UNCHANGED rowVars

-----------------------------------------------------------------------------
(* recordResult and closeRun                                               *)

Retries(i, n) == IF n # NoRetry THEN n
                 ELSE IF exec[i].status # "Untested" THEN exec[i].retries + 1 ELSE exec[i].retries

UpdateResult(q) ==
    /\ At(q, "update")
    /\ LET rows == UNION {LiveExecutions(req[q].run, t) : t \in req[q].cases}
           n == req[q].retry
       IN  \/ rows = {} /\ Refuse(q) /\ UNCHANGED exec
           \/ /\ rows # {} /\ rows \cap leave.rows = {} /\ \A i \in rows : Retries(i, n) <= MaxRetries
              /\ exec' = [i \in Rows |-> IF i \in rows
                            THEN [exec[i] EXCEPT !.status = req[q].status, !.retries = Retries(i, n)]
                            ELSE exec[i]]
              /\ Answer(q)
    /\ UNCHANGED <<cycle, item, deleting, doomed, members, leave, history>>

(* The row of a run whose deletion is open is locked.                      *)
CloseRun(q) ==
    /\ At(q, "close") /\ req[q].run \notin deleting
    /\ cycle' = [cycle EXCEPT ![req[q].run] = [@ EXCEPT !.status = "Completed", !.ended = TRUE, !.closed = TRUE]]
    /\ Answer(q)
    /\ UNCHANGED <<item, exec, deleting, doomed, members, leave, history>>

-----------------------------------------------------------------------------
(* removeCycleTestCases, deleteCycle, updateCycle                          *)

(* The execution left behind *)
ExecutionsKept(rows) == exec

DeleteExecutions(rows) == [i \in Rows |-> IF i \in rows THEN [exec[i] EXCEPT !.state = "deleted"] ELSE exec[i]]

DeleteRows(rows) ==
    /\ item' = [i \in Rows |-> IF i \in rows THEN "deleted" ELSE item[i]]
    /\ exec' = DeleteExecutions(rows)

(* One transaction, of which nobody sees the middle: the rows are locked   *)
(* by the first statement and named by id in the second.                   *)
RemoveCases(q) ==
    /\ At(q, "remove")
    /\ LET rows == UNION {LiveRow(req[q].run, t) : t \in req[q].cases}
       IN  rows \cap (doomed \cup leave.rows) = {} /\ DeleteRows(rows)
    /\ Answer(q)
    /\ UNCHANGED <<cycle, deleting, doomed, members, leave, history>>

(* UPDATE cycles, then UPDATE cycle_items, whose snapshot decides which    *)
(* rows go with the run.                                                   *)
MarkDeleted(q) ==
    /\ At(q, "delete") /\ req[q].run \notin deleting
    /\ \/ /\ cycle[req[q].run].state = "live" /\ RowsOf(req[q].run) \cap leave.rows = {}
          /\ deleting' = deleting \cup {req[q].run}
          /\ doomed' = doomed \cup RowsOf(req[q].run)
          /\ Goto(q, "commit")
       \/ cycle[req[q].run].state # "live" /\ Answer(q) /\ UNCHANGED <<deleting, doomed>>
    /\ UNCHANGED <<cycle, item, exec, members, leave, history>>

DeleteCommit(q) ==
    /\ At(q, "commit")
    /\ LET r == req[q].run
       IN  /\ cycle' = [cycle EXCEPT ![r].state = "deleted"]
           /\ DeleteRows({i \in doomed : i[1] = r})
           /\ deleting' = deleting \ {r} /\ doomed' = {i \in doomed : i[1] # r}
           /\ req' = [Overtaken({p \in Requests : At(p, "insert") /\ req[p].run = r}) EXCEPT ![q] = Ended(q, "ok")]
    /\ UNCHANGED <<members, leave, history>>

(* A run without cases is neither started nor completed.                   *)
CheckItems(q) ==
    /\ At(q, "items")
    /\ IF req[q].status # "Planning" /\ RowsOf(req[q].run) = {} THEN Refuse(q) ELSE Goto(q, "save")
    /\ UNCHANGED rowVars

SaveCycle(q) ==
    /\ At(q, "save") /\ req[q].run \notin deleting
    /\ LET r == req[q].run
       IN  /\ cycle' = [cycle EXCEPT ![r] = [@ EXCEPT !.status = req[q].status, !.ended = req[q].status = "Completed"]]
           /\ req' = [Overtaken({p \in Requests : At(p, "close") /\ req[p].run = r}) EXCEPT ![q] = Ended(q, "ok")]
    /\ UNCHANGED <<item, exec, deleting, doomed, members, leave, history>>

-----------------------------------------------------------------------------
(* bulkUpdateExecutionStatus and bulkAssignExecutions: updateExecution for *)
(* one row after the other.  A request sets the status, "Untested" too,    *)
(* the assignee, Nobody to clear it, or both.                              *)

MayAssign(q) == req[q].person \in members \cup {Nobody}

ResolveBulk(q) ==
    /\ At(q, "resolve")
    /\ IF MayAssign(q) /\ \A i \in req[q].todo : i[1] = req[q].run /\ exec[i].state = "live"
       THEN Goto(q, "each") ELSE Refuse(q)
    /\ UNCHANGED rowVars

ReadExecution(q, i) ==
    /\ At(q, "each") /\ i \in req[q].todo
    /\ IF exec[i].state = "live" /\ MayAssign(q)
       THEN req' = [req EXCEPT ![q].row = i, ![q].pc = "write"]
       ELSE Refuse(q)
    /\ UNCHANGED rowVars

(* The assignee is checked, and the removal of its membership not over     *)
CheckOvertaken(q) == req[q].overtaken \/ req[q].person \in leave.people

(* A row that has gone since makes the handler throw when it compares.     *)
WriteExecution(q) ==
    /\ At(q, "write") /\ req[q].row \notin leave.rows
    /\ LET i == req[q].row
           s == req[q].status
           p == req[q].person
           assigns == "assignee" \in req[q].sets
       IN  \/ exec[i].state # "live" /\ Fail(q) /\ UNCHANGED <<exec, history>>
           \/ /\ exec[i].state = "live"
              /\ exec' = [exec EXCEPT ![i].status = IF "status" \in req[q].sets THEN s ELSE @,
                                      ![i].assignee = IF assigns THEN p ELSE @]
              /\ history' = [history EXCEPT
                    !.dangling = IF ~assigns THEN @ ELSE IF CheckOvertaken(q) THEN @ \cup {i} ELSE @ \ {i},
                    !.left     = IF assigns THEN @ \ {i} ELSE @]
              /\ IF req[q].todo = {i} THEN Answer(q)
                 ELSE req' = [req EXCEPT ![q].todo = @ \ {i}, ![q].pc = "each"]
    /\ UNCHANGED <<cycle, item, deleting, doomed, members, leave>>

(* failLinkedExecutions                                                    *)
LinkBug(q) ==
    /\ At(q, "link")
    /\ LET e == exec[req[q].row]
       IN  IF e.state = "live" /\ e.status # "Failed" THEN Goto(q, "fail") ELSE Answer(q)
    /\ UNCHANGED rowVars

(* The status stored in the words of the wire *)
FailExecutionWire(q) ==
    /\ At(q, "fail")
    /\ exec' = [exec EXCEPT ![req[q].row].status = "fail"]
    /\ Answer(q)
    /\ UNCHANGED <<cycle, item, deleting, doomed, members, leave, history>>

FailExecution(q) ==
    /\ At(q, "fail") /\ req[q].row \notin leave.rows
    /\ LET i == req[q].row
       IN  exec' = IF exec[i].state = "live" THEN [exec EXCEPT ![i].status = "Failed"] ELSE exec
    /\ Answer(q)
    /\ UNCHANGED <<cycle, item, deleting, doomed, members, leave, history>>

-----------------------------------------------------------------------------
(* The membership of the project                                           *)

AssignedTo(p) == {i \in Rows : exec[i].state = "live" /\ exec[i].assignee = p}

AddProjectMember(p) ==
    /\ p \notin members
    /\ members' = members \cup {p}
    /\ UNCHANGED <<cycle, item, exec, deleting, doomed, leave, req, history>>

(* The transaction of removeProjectMember up to its UPDATE, which locks    *)
(* the rows it finds.  Until the COMMIT everybody sees the membership and  *)
(* may rely on it.                                                         *)
RemoveProjectMember(p) ==
    /\ p \in members \ leave.people
    /\ leave' = [people |-> leave.people \cup {p}, rows |-> leave.rows \cup AssignedTo(p)]
    /\ UNCHANGED <<cycle, item, exec, deleting, doomed, members, req, history>>

LeaveEnds(p) ==
    leave' = [people |-> leave.people \ {p}, rows |-> {i \in leave.rows : exec[i].assignee # p}]

(* The assignments of a removed member kept *)
AssignmentsKept(p) == exec

ClearAssignments(p) ==
    [i \in Rows |-> IF i \in leave.rows \cap AssignedTo(p)
                    THEN [exec[i] EXCEPT !.assignee = Nobody] ELSE exec[i]]

(* Writes of rows that have checked the membership are overtaken.          *)
LoseMember(p) ==
    /\ members' = members \ {p}
    /\ req' = Overtaken({q \in Requests : At(q, "write") /\ req[q].person = p})
    /\ UNCHANGED <<cycle, item, deleting, doomed>>

(* A row whose deletion is open makes the UPDATE wait.                     *)
LeaveCommit(p) ==
    /\ p \in leave.people /\ leave.rows \cap AssignedTo(p) \cap doomed = {}
    /\ exec' = ClearAssignments(p)
    /\ LeaveEnds(p) /\ LoseMember(p)
    /\ UNCHANGED history

LeaveRollback(p) ==
    /\ p \in leave.people
    /\ LeaveEnds(p)
    /\ UNCHANGED <<cycle, item, exec, deleting, doomed, members, req, history>>

(* Removed from the workspace, and so from every project of it: nothing    *)
(* looks at the rows.                                                      *)
RemoveWorkspaceMember(p) ==
    /\ p \in members \ leave.people
    /\ LoseMember(p)
    /\ history' = [history EXCEPT !.left = @ \cup AssignedTo(p)]
    /\ UNCHANGED <<exec, leave>>

(* A request dies, and the transaction it has open is rolled back.         *)
Crash(q) ==
    /\ ~At(q, "new") /\ ~IsEnded(q)
    /\ Fail(q)
    /\ deleting' = IF At(q, "commit") THEN deleting \ {req[q].run} ELSE deleting
    /\ doomed' = IF At(q, "commit") THEN {i \in doomed : i[1] # req[q].run} ELSE doomed
    /\ UNCHANGED <<cycle, item, exec, members, leave, history>>

-----------------------------------------------------------------------------
(* The steps of a request on the server                                    *)
Ingest(q) ==
    \/ LookupRun(q) \/ (\E r \in Runs : InsertRun(q, r)) \/ InsertLost(q) \/ RelookupRun(q)
    \/ Require(q) \/ ReadForAttach(q) \/ InsertItems(q) \/ UpdateResult(q) \/ CloseRun(q)

RunPage(q) ==
    \/ RemoveCases(q) \/ MarkDeleted(q) \/ DeleteCommit(q) \/ CheckItems(q) \/ SaveCycle(q)
    \/ ResolveBulk(q) \/ (\E i \in Rows : ReadExecution(q, i)) \/ WriteExecution(q)
    \/ LinkBug(q) \/ FailExecution(q)

(* EXECUTION_STATUSES                                                      *)
Settable == Statuses \cup {"Untested"}

(* Anybody calls anything.                                                 *)
AnyCall(q) ==
    \/ \E b \in Builds, cs \in SUBSET Cases : CallCreateRun(q, b, cs)
    \/ \E r \in Runs : CreateCycle(q, r)
    \/ \E r \in Known :
         \/ \E t \in Cases, s \in Statuses, n \in {0, NoRetry} : CallRecordResult(q, r, t, s, n)
         \/ CallOnRun(q, "closeRun", r) \/ CallOnRun(q, "deleteCycle", r)
         \/ \E cs \in SUBSET Cases \ {{}} : CallOnCases(q, "addCases", r, cs) \/ CallOnCases(q, "removeCases", r, cs)
         \/ \E s \in {"In Progress", "Completed", "Planning"} : CallUpdateCycle(q, r, s)
         \/ \E rows \in SUBSET RowsOf(r) \ {{}} :
              \/ \E s \in Settable : CallBulk(q, r, rows, {"status"}, s, Nobody)
              \/ \E p \in People \cup {Nobody} : CallBulk(q, r, rows, {"assignee"}, "Untested", p)
         \/ \E i \in RowsOf(r) :
              \/ CallLinkBug(q, i)
              \/ \E s \in Settable : CallUpdateExecution(q, i, {"status"}, s, Nobody)
              \/ \E p \in People \cup {Nobody} : CallUpdateExecution(q, i, {"assignee"}, "Untested", p)
              \/ \E s \in Settable, p \in People \cup {Nobody} :
                   CallUpdateExecution(q, i, {"status", "assignee"}, s, p)

TestRunsNext ==
    \/ \E q \in Requests : AnyCall(q) \/ Ingest(q) \/ RunPage(q) \/ Crash(q)
    \/ \E p \in People : \/ AddProjectMember(p) \/ RemoveProjectMember(p) \/ LeaveCommit(p)
                         \/ LeaveRollback(p) \/ RemoveWorkspaceMember(p)

TestRunsSpec == TestRunsInit /\ [][TestRunsNext]_runVars

-----------------------------------------------------------------------------
TestRunsTypeOK ==
    /\ cycle \in [Runs -> [state : {"none", "live", "deleted"}, build : Builds \cup {NoBuild},
                           status : {"Planning", "In Progress", "Completed"}, ended : BOOLEAN, closed : BOOLEAN]]
    /\ item \in [Rows -> {"none", "live", "deleted"}]
    /\ exec \in [Rows -> [state : {"none", "live", "deleted"}, status : Statuses \cup {"Untested"},
                          retries : 0..MaxRetries, assignee : People \cup {Nobody}]]
    /\ deleting \subseteq Runs /\ doomed \subseteq Rows /\ members \subseteq People
    /\ leave.people \subseteq members /\ leave.rows \subseteq Rows
    /\ \A q \in Requests :
         /\ req[q].run \in Runs \cup {NoRun} /\ req[q].build \in Builds \cup {NoBuild}
         /\ req[q].cases \subseteq Cases /\ req[q].todo \subseteq Rows /\ req[q].retry \in 0..NoRetry
         /\ req[q].pc \in {"new", "lookup", "create", "relookup", "require", "attach", "insert", "update", "close",
                           "remove", "delete", "commit", "items", "save", "resolve", "each", "write", "link",
                           "fail", "ok", "refused", "error"}

(* "There is exactly one result row per (run, case)" (recordResult): the   *)
(* cases of a run are there once, each with its result, and the result of  *)
(* a removed case is gone with it.                                         *)
OneResultPerCase ==
    /\ \A r \in Runs, t \in Cases : Cardinality(LiveRow(r, t)) <= 1
    /\ \A i \in Rows : exec[i].state = item[i]

(* A deleted run holds no cases but those of a statement that was under    *)
(* way while the deletion was: the EXISTS of attachCases closes the window *)
(* after requireRun, not the one inside the statement.                     *)
DeletedRunIsEmpty ==
    \A i \in Rows : item[i] = "live" /\ cycle[i[1]].state = "deleted" => i \in history.late

(* "a member removed from the project must not leave executions/bugs still *)
(* pointing at them" (removeProjectMember).  A row does only if it was     *)
(* assigned by a request that relied on the membership while the removal   *)
(* was under way, or if the removal was one from the workspace.            *)
AssigneesAreMembers ==
    \A i \in Rows : exec[i].state = "live" /\ exec[i].assignee \notin members \cup {Nobody} =>
      i \in history.dangling \cup history.left

(* Statement by statement, the server does what ResultStore says in one    *)
(* step each: "two live shards racing to create the run both end up with   *)
(* the same one" (createRun); a case attached again keeps its result; a    *)
(* report counts a retry unless it is the first, or the first since a      *)
(* person set the result back to Untested, or brings its own count; a      *)
(* result is gone only with its case or its run.                           *)
StoreRun == [r \in Runs |-> [state |-> cycle[r].state, build |-> cycle[r].build, closed |-> cycle[r].closed]]
StoreResult ==
    [p \in Runs \X Cases |->
       IF LiveExecutions(p[1], p[2]) = {} THEN [status |-> "Absent", retries |-> 0]
       ELSE LET i == CHOOSE i \in LiveExecutions(p[1], p[2]) : TRUE
            IN  [status |-> exec[i].status, retries |-> exec[i].retries]]
Store == INSTANCE ResultStore WITH run <- StoreRun, result <- StoreResult
ImplementsResultStore == Store!StoreSpec

(* A retried close leaves a run alone that a person has reopened since the *)
(* first one, unless the reopening came between its own two statements.    *)
ReopenedStaysOpen ==
    [][\A r \in Runs, q \in Requests :
         cycle[r].closed /\ cycle[r].status # "Completed" /\ At(q, "close") /\ req[q].run = r /\ req'[q].pc = "ok" =>
           req[q].overtaken]_runVars

=============================================================================
