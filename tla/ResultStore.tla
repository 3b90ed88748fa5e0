---------------------------- MODULE ResultStore ----------------------------
(***************************************************************************)
(* What the server promises to those who report results: runs with at most *)
(* one result for each case.  Every change takes effect at once.  TestRuns *)
(* implements it statement by statement, Reporter is built on it.          *)
(***************************************************************************)
EXTENDS Naturals, FiniteSets

CONSTANTS Runs, Cases, Builds, NoBuild, Statuses, MaxRetries

VARIABLES run,     \* the runs: state, external id, closed
          result   \* the result of each case in each run, if it has one

storeVars == <<run, result>>

(* A report that does not say which attempt it is.                         *)
NoRetry == MaxRetries + 1

Absent == [status |-> "Absent", retries |-> 0]
Fresh == [status |-> "Untested", retries |-> 0]

StoreInit ==
    /\ run \in [Runs -> [state : {"none", "live"}, build : Builds \cup {NoBuild}, closed : {FALSE}]]
    /\ result \in [Runs \X Cases -> {Absent, Fresh}]

LiveRuns(b) == {r \in Runs : run[r].state = "live" /\ run[r].build = b}

(* The result after a report: the latest wins, and a retry is counted.     *)
Reported(old, s, n) ==
    [status |-> s,
     retries |-> IF n # NoRetry THEN n
                 ELSE IF old.status \in {"Absent", "Untested"} THEN old.retries ELSE old.retries + 1]

WithCases(r, ts) == [p \in Runs \X Cases |-> IF p[1] = r /\ p[2] \in ts /\ result[p] = Absent THEN Fresh ELSE result[p]]

(* A run is opened, with cases in it or without; a build has one at a time. *)
Open(r, b, ts) ==
    /\ run[r].state = "none"
    /\ b = NoBuild \/ LiveRuns(b) = {}
    /\ run' = [run EXCEPT ![r] = [state |-> "live", build |-> b, closed |-> FALSE]]
    /\ result' = WithCases(r, ts)

Attach(r, ts) ==
    /\ run[r].state # "none"
    /\ result' = WithCases(r, ts)
    /\ UNCHANGED run

Report(r, t, s, n) ==
    /\ run[r].state # "none"
    /\ result' = [result EXCEPT ![<<r, t>>] = Reported(@, s, n)]
    /\ UNCHANGED run

Close(r) ==
    /\ run[r].state # "none"
    /\ run' = [run EXCEPT ![r].closed = TRUE]
    /\ UNCHANGED result

(* A person sets a result, back to Untested too; the retry count stays.     *)
Judge(r, t, s) ==
    /\ result[<<r, t>>] # Absent
    /\ result' = [result EXCEPT ![<<r, t>>].status = s]
    /\ UNCHANGED run

Withdraw(r, ts) ==
    /\ result' = [p \in Runs \X Cases |-> IF p[1] = r /\ p[2] \in ts THEN Absent ELSE result[p]]
    /\ UNCHANGED run

(* A run is deleted, and with it the results of its cases; those of kept   *)
(* are added while it is.                                                  *)
Delete(r, kept) ==
    /\ run[r].state = "live"
    /\ run' = [run EXCEPT ![r].state = "deleted"]
    /\ result' = [p \in Runs \X Cases |-> IF p[1] = r /\ p[2] \notin kept THEN Absent ELSE result[p]]

StoreNext ==
    \E r \in Runs :
        \/ \E b \in Builds \cup {NoBuild}, ts \in SUBSET Cases : Open(r, b, ts)
        \/ \E ts \in SUBSET Cases : Attach(r, ts) \/ Withdraw(r, ts) \/ Delete(r, ts)
        \/ \E t \in Cases, s \in Statuses \cup {"Untested"} : Judge(r, t, s)
        \/ \E t \in Cases, s \in Statuses, n \in 0..NoRetry : Report(r, t, s, n)
        \/ Close(r)

StoreSpec == StoreInit /\ [][StoreNext]_storeVars

=============================================================================
