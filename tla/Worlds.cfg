SPECIFICATION Spec
CONSTANTS
  k1 = k1
  k2 = k2
  k3 = k3
  k4 = k4
  Key <- MCKey
  Call <- MCCall
  Fixture <- WorldFixture
  Offered <- MCOffered
  Effect <- WorldEffect
  Injected <- WorldInjected
  MaxInjections = 1
  MaxLost = 1
INVARIANTS
  WorldTypeOK
  FailuresLeaveNoTrace
  EventsExplain
  MoneyReconciles
  
  TransfersKeepSafetyStock
  AdviceIsExecutable
PROPERTY ExactlyOnce
\* every request may be refused
CHECK_DEADLOCK FALSE
