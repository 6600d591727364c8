SPECIFICATION Spec
CONSTANTS
  Scenario = {s1, s2}
  Executor = {e1, e2}
  Run = {r1, r2}
  None = None
  MaxAttempts = 2
  MaxRevision = 4
INVARIANTS
  TypeOK
  ControlInv
  ProgressMatchesRows
  RowsFollowJob
PROPERTIES
  VerdictsAreFinal
  TerminalIsFinal
  KeepsLifecycle
CHECK_DEADLOCK FALSE
