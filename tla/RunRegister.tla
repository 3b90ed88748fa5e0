----------------------------- MODULE RunRegister -----------------------------
(***************************************************************************)
(* What the run table of the Review Board promises to the rest of the      *)
(* system, with no queue, heartbeat or clock in sight: a project has at    *)
(* most one analysis open; an execution of an analysis reads the test      *)
(* cases at some point after its run was opened; it writes its findings    *)
(* only if that run is still open, and closes it in the same step; a run   *)
(* that is over is never opened again.                                     *)
(*                                                                         *)
(* AnalysisRuns implements this specification; ReviewBoard is built on it. *)
(***************************************************************************)
EXTENDS Sequences

CONSTANTS Runs,      \* run ids that may be drawn
          Workers,   \* executions of runAnalysis that can be in flight together
          NoRun

VARIABLES open,     \* the runs that are queued or running
          over,     \* the runs that were completed or failed
          written,  \* the runs whose findings were written, in that order
          exec      \* the run each execution works on, and whether it has read

registerVars == <<open, over, written, exec>>

NoExec == [phase |-> "none", id |-> NoRun]

RegisterInit ==
    /\ open = {}
    /\ over = {}
    /\ written = <<>>
    /\ exec = [w \in Workers |-> NoExec]

Open(r) ==
    /\ open = {}
    /\ r \notin over
    /\ open' = {r}
    /\ UNCHANGED <<over, written, exec>>

CloseRun(r) ==
    /\ open' = open \ {r}
    /\ over' = over \cup {r}

(* The run ended without findings: expired, or never queued *)
Expire(r) ==
    /\ r \in open
    /\ CloseRun(r)
    /\ UNCHANGED <<written, exec>>

Begin(w, r) ==
    /\ exec[w].phase = "none"
    /\ r \in open
    /\ exec' = [exec EXCEPT ![w] = [phase |-> "claimed", id |-> r]]
    /\ UNCHANGED <<open, over, written>>

Read(w) ==
    /\ exec[w].phase = "claimed"
    /\ exec' = [exec EXCEPT ![w].phase = "read"]
    /\ UNCHANGED <<open, over, written>>

Commit(w) ==
    /\ exec[w].phase = "read"
    /\ exec[w].id \in open
    /\ CloseRun(exec[w].id)
    /\ written' = Append(written, exec[w].id)
    /\ exec' = [exec EXCEPT ![w] = NoExec]

(* The execution crashed, failed, or found its run closed *)
Abandon(w) ==
    /\ exec[w].phase # "none"
    /\ \/ UNCHANGED <<open, over>>
       \/ exec[w].id \in open /\ CloseRun(exec[w].id)
    /\ exec' = [exec EXCEPT ![w] = NoExec]
    /\ UNCHANGED written

RegisterNext ==
    \/ \E r \in Runs : Open(r) \/ Expire(r) \/ (\E w \in Workers : Begin(w, r))
    \/ \E w \in Workers : Read(w) \/ Commit(w) \/ Abandon(w)

RegisterSpec == RegisterInit /\ [][RegisterNext]_registerVars

(* A run does not stay open for ever: whoever asks for it, it is closed *)
Closing == \E r \in Runs : r \in open /\ open' = open \ {r}

FairRegisterSpec == RegisterSpec /\ WF_registerVars(RegisterNext /\ Closing)
==============================================================================
