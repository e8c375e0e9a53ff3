SPECIFICATION ConnSpec
CONSTANTS
  Stream <- Anything
  MaxBulk = 33
  MaxElems = 3
  LLMax = 127
  CheckFrom = 2
  LenRange = 65536
  RbDefault = 2
CHECK_DEADLOCK FALSE
INVARIANTS
  ConnTypeOK
  OffsetInBuffer
  SlotFree
  ReadsInBuffer
  NumExact
PROPERTY
  ParsesChunks
