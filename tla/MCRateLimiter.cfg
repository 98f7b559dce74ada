SPECIFICATION Spec
CONSTANTS
  Callers = {k1, k2, k3}
  Period = 3
  Burst = 2
  MaxJitter = 1
  MaxCalls = 5
  MaxTime = 4
INVARIANTS
  LimiterTypeOK
  RateBound
  LineIsTight
PROPERTIES
  EveryWaitReturns
CHECK_DEADLOCK FALSE
