SPECIFICATION FairSpec
CONSTANTS
  Scenario = {s1}
  Process = {p1}
  None = None
  Outcome = {"passed", "cancelled"}
  Retries = 0
  Concurrency = 1
  MaxCrashes = 1
  MaxStalls = 1
  MaxFaults = 1
  MaxCancels = 1
  Executor <- MCExecutor
  Run <- MCRun
  MaxAttempts <- MCMaxAttempts
  MaxRevision <- MCMaxRevision
PROPERTIES
  EventuallyPublished
CHECK_DEADLOCK FALSE
