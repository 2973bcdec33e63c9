SPECIFICATION Spec
CONSTANTS
  Capacity = 12
  MaxString = 4
  ValidNames = {1}
  KnownTypes = {1}
  MessageLen = 2
  Frames <- NoiseFrames
  NoiseBytes = {0, 11, 244, 254, 255}
  MaxFrames = 4
  MaxNoise = 1
  Burst = 3
INVARIANTS
  AcceptedWasSent
  LossNearDamage
CHECK_DEADLOCK FALSE
