SPECIFICATION FairSpec
CONSTANTS
  NoCall = NoCall
  refund = refund
  again = again
  Calls <- MCCalls
  MutationCalls <- MCCalls
  ToolOf <- MCToolOf
  Schedule <- MCSchedule
  Limits <- MCLimits
  Sdks = {"openai-agents", "direct"}
  Obedient = FALSE
PROPERTIES
  RunEnds
CHECK_DEADLOCK FALSE
