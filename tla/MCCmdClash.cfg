SPECIFICATION LiveSpec
CONSTANTS
  k1 = k1
  k2 = k2
  k3 = k3
  Key = {k1, k3}
  Hash <- ClashHash
  KeyLen <- SameLen
  Ptr = {p1, p2, p3}
  NULL = NULL
  Expira = {0, 2}
  Asked = {1, 3}
  WordBits = 8
  MaxCap = 4
  MaxTime = 2
  Calls <- AllCalls
INVARIANTS
  SizeCountsAll
  LoadBounded
  LiveKeysReached
  MigrationKeeps
  GetFinds
  CmdTypeOK
  Ownership
  OneOwner
  OnlyMemoryFails
PROPERTY
  Returns
