SPECIFICATION FairSpec
CONSTANTS
  Capacity = 8
  MaxString = 4
  ValidNames = {1}
  KnownTypes = {1}
  MessageLen = 2
  Frames <- RoutingFrames
  NoiseBytes = {}
  MaxFrames = 4
  MaxNoise = 0
  Burst = 0
INVARIANTS
  TypeOK
  CleanLineLossless
  LatestRegistrationServes
PROPERTY
  CleanFrameAccepted
CHECK_DEADLOCK FALSE
