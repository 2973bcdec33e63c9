SPECIFICATION FairSpec
CONSTANTS
  Ports = {"A", "B"}
  Launched <- MCLaunched
  IntValues <- MCIntValues
  Unsupported <- MCUnsupported
  Requests <- MCRequests
  PollLimit = 1
  MaxRequests = 2
  MaxWrites = 2
INVARIANTS
  TypeOK
  PortFollowsConfig
PROPERTIES
  RequestTakesEffectInOrder
  WriterNeverStuck
  ParametersServed
CHECK_DEADLOCK FALSE
