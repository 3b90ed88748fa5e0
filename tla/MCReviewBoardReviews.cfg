\* One pair, with a finding recorded before V143; two runs, an edit
\* request, and test cases that change in content and in state.
SPECIFICATION BoardSpec
CONSTANTS
  k1 = k1
  k2 = k2
  Unrecorded = Unrecorded
  NoCase = NoCase
  NoRun = NoRun
  Cases = {1, 2}
  Contents = {k1, k2}
  WithSteps = {k1}
  Similarity <- TwoSimilar
  Suites = {su1, su2}
  Runs = {r1, r2}
  Workers = {w1}
  Reviewers = {v1}
  OldPairs <- OldPair
  MaxPairs = 1
  MaxCandidates = 1
SYMMETRY BoardSymmetry
INVARIANTS BoardTypeOK ActionableMatches
PROPERTIES DecisionsAreFinal KeptMeansSeen EditedStaysCurrent
