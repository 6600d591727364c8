SPECIFICATION ServiceSpec
CONSTANTS
  Scenario = {s1}
  Process = {p1, p2}
  None = None
  Outcome = {"passed", "cancelled"}
  Retries = 0
  Concurrency = 1
  MaxCrashes = 0
  MaxStalls = 1
  MaxFaults = 0
  MaxCancels = 1
  Executor <- MCExecutor
  Run <- MCRun
  MaxAttempts <- MCMaxAttempts
  MaxRevision <- MCMaxRevision
SYMMETRY Symmetry
INVARIANTS
  CompletedMeansJudged
  VerdictFromLatestAttempt
  AttachedRunsComplete
PROPERTIES
  EvidenceIsFenced
  TerminalRowsFrozen
CHECK_DEADLOCK FALSE
