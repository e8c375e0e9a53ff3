SPECIFICATION SSpec
CONSTANTS
  Stream <- Stray
  MaxBulk = 11
  MaxElems = 3
  LLMax = 127
  CheckFrom = 2
  LenRange = 65536
CHECK_DEADLOCK FALSE
INVARIANT
  HeadLenIsHeader
