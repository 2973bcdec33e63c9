SPECIFICATION FairSpec
CONSTANTS
  Definitions <- MCDefinitions
  Depth <- MCDepth
  StdHeader = "Header"
  MaxString = 2
  Messages <- MCMessages
  Installed <- MCInstalled
  TopicId = 5
  SeqValues <- MCSeqValues
  Garbage <- MCGarbage
  MaxMessages = 2
  MaxBroken = 1
  ChunkSize = 9
INVARIANTS
  TypeOK
  SentIsRos1
  ParsedIsInBody
  SoundTrafficArrives
  SnifferShowsLine
PROPERTY
  EveryFrameShown
CHECK_DEADLOCK FALSE
