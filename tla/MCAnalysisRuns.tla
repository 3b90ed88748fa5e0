--------------------------- MODULE MCAnalysisRuns ----------------------------
(* Small instance of AnalysisRuns: interchangeable runs, requests, workers. *)
EXTENDS AnalysisRuns, TLC

RunsSymmetry ==
    Permutations(Runs) \cup Permutations(Starters) \cup Permutations(Workers)
==============================================================================
