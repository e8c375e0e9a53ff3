SPECIFICATION LentSpec
CONSTANTS
  k1 = k1
  k2 = k2
  k3 = k3
  Key = {k1}
  Hash <- HomeHash
  KeyLen <- SameLen
  Ptr = {p1, p2}
  NULL = NULL
  Expira = {0, 2}
  Asked = {2}
  WordBits = 8
  MaxCap = 4
  MaxTime = 2
  Calls <- AllCalls
SYMMETRY Perms
INVARIANT
  LentUntilTake
