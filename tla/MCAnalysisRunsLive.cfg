\* Liveness: no symmetry, one request at a time, two workers.
SPECIFICATION FairRunsSpec
CONSTANTS
  Runs = {r1, r2}
  Starters = {s1}
  Workers = {w1, w2}
  NoRun = NoRun
  NoWorker = NoWorker
  RunReclaim = 0
  RunLease = 1
  MaxStalls = 1
PROPERTIES EveryRunEnds ImplementsRunRegister
