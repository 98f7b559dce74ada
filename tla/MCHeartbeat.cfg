SPECIFICATION Spec
CONSTANTS
  Connector = Connector
  Heart = Heart
  Reader = Reader
  Engine = Engine
PROPERTY DueHeartbeatIsSent
CHECK_DEADLOCK FALSE
