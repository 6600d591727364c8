SPECIFICATION Spec
CONSTANTS
  Scenario = {s1, s2}
  Executor = {e1, e2}
  None = None
  MaxStalls = 1
INVARIANTS
  TypeOK
  CountsCommittedVerdicts
  EndClosesRows
PROPERTY VerdictsCommitOnce
CHECK_DEADLOCK FALSE
