SPECIFICATION LiveSpec
CONSTANTS
  Fd = {1, 2}
  MaxConns = 2
  MaxIn = 2
  MaxRoom = 1
  NULL = NULL
  PoolSize = 2
  RbDefault = 2
  RbMax = 4
  WbMax = 2
  Faults = TRUE
CHECK_DEADLOCK FALSE
INVARIANT
  PoolServes
PROPERTIES
  InputServed
  BacklogServed
  OutputFlushed
