\* The instance of MCReporter.cfg: two posts of one case, the older applied last.
SPECIFICATION ReporterSpec
CONSTANTS
  s1 = s1
  s2 = s2
  t1 = t1
  t2 = t2
  Shards = {s1, s2}
  Suite <- FlakyAndPlain
  Build = b
  Tries = 2
  Runs = {r1, r2}
  Cases = {t1, t2}
  Builds = {b}
  NoBuild = NoBuild
  NoRun = NoRun
  MaxLate = 1
  MaxRetries = 1
  Statuses = {"Passed", "Failed"}
INVARIANTS LastAttemptAlwaysStands
CHECK_DEADLOCK FALSE
