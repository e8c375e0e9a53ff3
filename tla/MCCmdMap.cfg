SPECIFICATION CmdSpec
CONSTANTS
  k1 = k1
  k2 = k2
  k3 = k3
  Key = {k1, k2, k3}
  Hash <- PairHash
  KeyLen <- SameLen
  Ptr = {p1, p2, p3, p4}
  NULL = NULL
  Expira = {0, 2, 3}
  Asked = {3, 9, 33}
  WordBits = 8
  MaxCap = 8
  MaxTime = 3
  Calls <- KeepCalls
SYMMETRY Perms
INVARIANTS
  NoDuplicates
  MaskExact
  Undisturbed
PROPERTY
  IsMap
