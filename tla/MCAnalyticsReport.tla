-------------------------- MODULE MCAnalyticsReport ---------------------------
(* Small instances of AnalyticsReport: interchangeable jobs and executions. *)
EXTENDS AnalyticsReport, TLC

ReportSymmetry == Permutations(Jobs) \cup Permutations(Executions)
===============================================================================
