SPECIFICATION Spec
CONSTANTS
  Configured <- MCConfigured
  Requested = 30
  Discovered = 10
  VisitTimes = {1}
  Hour = 120
INVARIANT JoinsPerHour
CHECK_DEADLOCK FALSE
