SPECIFICATION Spec
CONSTANTS
  Fd = {1, 4}
  MaxConns = 3
  MaxIn = 1
  MaxRoom = 1
  NULL = NULL
  PoolSize = 1
  RbDefault = 2
  RbMax = 8
  WbMax = 1
  Faults = FALSE
CHECK_DEADLOCK FALSE
INVARIANTS
  LoopTypeOK
  PoolExact
  ClosedForReason
  NothingUnseen
