SPECIFICATION FairSpec
CONSTANTS
  NoCall = NoCall
  refund = refund
  again = again
  Calls <- MCCalls
  MutationCalls <- MCCalls
  ToolOf <- MCToolOf
  Schedule <- MCSchedule
  Limits <- MCLimits
  Sdks = {"openai-agents", "direct"}
  Obedient = TRUE
INVARIANTS
  RunTypeOK
  ServedInOrder
  CompleteRecordsSawTheirWorld
  EndsSettled
PROPERTIES
  ImplementsSerialTools
  RunEnds
CHECK_DEADLOCK FALSE
