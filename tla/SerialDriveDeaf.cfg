SPECIFICATION Spec
CONSTANTS
  Ports = {"A", "B"}
  Launched <- MCLaunched
  IntValues <- MCIntValues
  Unsupported <- MCUnsupported
  Requests <- MCRequests
  PollLimit = 1
  MaxRequests = 2
  MaxWrites = 2
INVARIANT ReloadedPortIsRead
CHECK_DEADLOCK FALSE
