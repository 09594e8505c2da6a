CONSTANTS
  e1 = e1  e2 = e2  e3 = e3  e4 = e4  k1 = k1  k2 = k2  k3 = k3  k4 = k4  v1 = v1  v2 = v2
  Structs = {e1, e2, e3, e4}
  Keys = {k1, k2, k3, k4}
  Values = {v1, v2}
  Malloc <- MCMalloc
  HashOf <- MCHashOf
  InitialBuckets = 2
  Thresh = 2
  NULL = NULL
  Junk = Junk
  Endless = Endless
  MaxItems = 6
SYMMETRY Perms
CONSTRAINT Claimed
CHECK_DEADLOCK FALSE
SPECIFICATION Spec
INVARIANTS
  MapUntilReentered
  AloneKeepsValue
PROPERTY SetIsSeen
