----------------------------- MODULE MCTestRuns -----------------------------
(* Requests and runs are interchangeable.                                  *)
EXTENDS TestRuns, TLC

RequestsSymmetry == Permutations(Requests) \cup Permutations(Runs)

=============================================================================
