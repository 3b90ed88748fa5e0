\* Any three requests, from no run or one opened, on two runs, one case and one build.
SPECIFICATION TestRunsSpec
CONSTANTS
  Runs = {r1, r2}
  Cases = {t1}
  MaxRows = 2
  Builds = {b}
  NoBuild = NoBuild
  People = {p}
  Nobody = Nobody
  Requests = {q1, q2, q3}
  NoRun = NoRun
  MaxRetries = 2
  Statuses = {"Passed", "Failed"}
SYMMETRY RequestsSymmetry
INVARIANTS TestRunsTypeOK OneResultPerCase DeletedRunIsEmpty AssigneesAreMembers
PROPERTIES ReopenedStaysOpen ImplementsResultStore
CHECK_DEADLOCK FALSE
