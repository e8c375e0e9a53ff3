SPECIFICATION LiveSpec
CONSTANTS
  Fd = {1, 2}
  MaxConns = 2
  MaxIn = 1
  MaxRoom = 1
  NULL = NULL
  PoolSize = 2
  RbDefault = 2
  RbMax = 4
  WbMax = 2
  Faults = FALSE
CHECK_DEADLOCK FALSE
PROPERTY
  BlockedOutputResumes
