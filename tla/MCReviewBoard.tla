---------------------------- MODULE MCReviewBoard ----------------------------
(* Small instances of ReviewBoard. *)
EXTENDS ReviewBoard, TLC

CONSTANTS k1, k2

(* The two contents score as similar to each other *)
TwoSimilar == {k1, k2} :> 7

OldPair == {{1, 2}}

NoPairs == {}

BoardSymmetry ==
    Permutations(Runs) \cup Permutations(Workers) \cup Permutations(Reviewers)
==============================================================================
