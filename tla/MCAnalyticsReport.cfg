\* Two jobs (a blue and a green deployment), three attempts, three executions.
SPECIFICATION ReportSpec
CONSTANTS
  Jobs = {blue, green}
  Executions = {e1, e2, e3}
  NoJob = NoJob
  NoExecution = NoExecution
  Attempts = 3
  MaxStalls = 1
SYMMETRY ReportSymmetry
INVARIANTS ReportTypeOK OneAnswerPerLapse
CHECK_DEADLOCK FALSE
