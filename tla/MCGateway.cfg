SPECIFICATION Spec
CONSTANTS
  Connector = Connector
  Heart = Heart
  Reader = Reader
  Engine = Engine
INVARIANTS
  GatewayTypeOK
  NilConnOnlyAfterClose
  SessionIDIsReal
PROPERTIES
  EngineNotHeldUp
CHECK_DEADLOCK FALSE
