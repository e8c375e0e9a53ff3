SPECIFICATION ConnSpec
CONSTANTS
  Stream <- Brief
  MaxBulk = 49
  MaxElems = 3
  LLMax = 127
  CheckFrom = 2
  LenRange = 65536
  RbDefault = 6
CHECK_DEADLOCK FALSE
PROPERTY
  ElementsInBuffer
