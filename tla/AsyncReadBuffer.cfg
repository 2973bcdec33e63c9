SPECIFICATION FairSpec
CONSTANTS
  Capacity = 5
  Requests = {1, 2, 3, 5, 6}
  StreamLen = 11
INVARIANTS
  TypeOK
  PortWritesOnlyFreeSpace
  BufferHoldsNextBytes
  ViewHoldsRequestedBytes
  CompletionCoversRequest
  ChainBreaksOnlyOnRefusalOrError
PROPERTIES
  AnsweredWhenBytesArrive
  ImplementsByteReader
CHECK_DEADLOCK FALSE
