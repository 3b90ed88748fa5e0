\* Three test cases, three pairs, at most two findings per run, no edit request;
\* a third content matches nothing.
SPECIFICATION BoardSpec
CONSTANTS
  k1 = k1
  k2 = k2
  Unrecorded = Unrecorded
  NoCase = NoCase
  NoRun = NoRun
  Cases = {1, 2, 3}
  Contents = {k1, k2, k3}
  WithSteps = {k1}
  Similarity <- TwoSimilar
  Suites = {su1}
  Runs = {r1, r2}
  Workers = {w1}
  Reviewers = {}
  OldPairs <- NoPairs
  MaxPairs = 2
  MaxCandidates = 1
SYMMETRY BoardSymmetry
INVARIANTS PendingFromOneRun
PROPERTIES RemovalLeavesAMatch RunSettlesBoard
