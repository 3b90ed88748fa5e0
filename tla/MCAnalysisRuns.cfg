\* Two runs, two requests and two workers: a zombie worker of the first run
\* meets the redelivered job, the expiry and the second run.
SPECIFICATION RunsSpec
CONSTANTS
  Runs = {r1, r2}
  Starters = {s1, s2}
  Workers = {w1, w2}
  NoRun = NoRun
  NoWorker = NoWorker
  RunReclaim = 0
  RunLease = 1
  MaxStalls = 1
SYMMETRY RunsSymmetry
INVARIANTS RunsTypeOK OneActiveRun WrittenOnce
PROPERTIES NeverRevived
