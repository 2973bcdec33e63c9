SPECIFICATION Spec
CONSTANTS
  Topics <- MCTopics
  Payloads <- MCPayloads
  Noise <- MCNoise
  MaxNoise = 1
INVARIANTS
  TypeOK
  AcceptedAsSent
  IntactRejectedOnlyOnCarry
  VectorIsFrame
  AcceptedMeansSnifferAgrees
CHECK_DEADLOCK FALSE
