SPECIFICATION Spec
CONSTANTS
  Scenarios <- MCScenarios
  Repetitions = {0}
  MaxRepeats = 1
INVARIANTS
  ReferenceEarnsItsVerdict
  PassedMeansReferenceOutcome
\* a run ends
CHECK_DEADLOCK FALSE
