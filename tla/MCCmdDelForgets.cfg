SPECIFICATION CmdSpec
CONSTANTS
  k1 = k1
  k2 = k2
  k3 = k3
  Key = {k1, k2}
  Hash <- HomeHash
  KeyLen <- SameLen
  Ptr = {p1, p2, p3}
  NULL = NULL
  Expira = {0}
  Asked = {4}
  WordBits = 8
  MaxCap = 4
  MaxTime = 1
  Calls <- AllCalls
SYMMETRY Perms
PROPERTY
  DelForgets
