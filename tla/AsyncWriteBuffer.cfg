SPECIFICATION FairSpec
CONSTANTS
  Frames = {f1, f2, f3, f4}
  FrameLen = 2
INVARIANTS
  TypeOK
  OneWriteInFlight
  WrittenFrameIsQueued
  BusyIffQueued
  FramesUnbroken
  NothingVanishes
  SentInAcceptanceOrder
PROPERTIES
  EveryCallReturns
  EveryFrameSettles
  ImplementsFrameSender
CHECK_DEADLOCK FALSE
