SPECIFICATION Spec
CONSTANTS
  Capacity = 512
  MaxString = 400
  ValidNames = {1}
  KnownTypes = {1}
  MessageLen = 2
  Frames <- NoiseFrames
  NoiseBytes = {0, 252, 254, 255}
  MaxFrames = 2
  MaxNoise = 1
  Burst = 1
INVARIANT MisalignedHeaderSurvived
CHECK_DEADLOCK FALSE
