SPECIFICATION Spec
CONSTANTS
  Outcomes <- MCOutcomes
  Outcome <- MCOutcome
  Severity <- MCSeverity
  Required <- MCRequired
  Config <- MCConfig
  Drifts <- MCDrifts
  Excesses <- MCExcesses
  MaxRuns = 3
INVARIANTS
  NewCriticalFails
  EvidenceFailsClosed
  ClassifiedUnlessCountsTie
\* a comparison ends
CHECK_DEADLOCK FALSE
