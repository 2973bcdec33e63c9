SPECIFICATION Spec
CONSTANTS
  Topics <- MCTopics
  Payloads <- MCPayloads
  Noise <- MCNoise
  MaxNoise = 0
INVARIANT SnifferAgreesMeansAccepted
CHECK_DEADLOCK FALSE
