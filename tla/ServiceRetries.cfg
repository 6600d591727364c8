SPECIFICATION ServiceSpec
CONSTANTS
  Scenario = {s1, s2}
  Process = {p1}
  None = None
  Outcome = {"passed", "retryable", "cancelled"}
  Retries = 1
  Concurrency = 2
  MaxCrashes = 0
  MaxStalls = 1
  MaxFaults = 0
  MaxCancels = 1
  Executor <- MCExecutor
  Run <- MCRun
  MaxAttempts <- MCMaxAttempts
  MaxRevision <- MCMaxRevision
INVARIANTS
  ServiceTypeOK
  RetriesExhausted
CHECK_DEADLOCK FALSE
