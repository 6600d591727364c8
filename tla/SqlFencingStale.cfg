SPECIFICATION Spec
CONSTANTS
  Scenario = {s1}
  Executor = {e1, e2}
  None = None
  MaxStalls = 1
INVARIANT CompletedMeansJudged
CHECK_DEADLOCK FALSE
