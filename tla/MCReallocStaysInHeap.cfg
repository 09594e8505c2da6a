SPECIFICATION Spec
CONSTANTS
  Ids <- MCIds
  Requests <- MCRequests
  MemStart = 8
  MaxHeap = 4224
  SizeMod = 65536
  MaxCalls = 3
INVARIANTS
  ReallocStaysInHeap
CHECK_DEADLOCK FALSE
