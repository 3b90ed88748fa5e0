----------------------------- MODULE MCSyncRuns -----------------------------
(* An instance of SyncRuns for TLC: a backlog, then nothing new.           *)
EXTENDS SyncRuns

CONSTANTS t1, t2

BacklogThenNothing == [r \in SyncRunIds |-> IF r = 1 THEN {t1, t2} ELSE {}]
=============================================================================
