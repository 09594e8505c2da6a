SPECIFICATION Spec
CONSTANTS
  Ids <- MCIds
  Requests <- MCRequests
  MemStart = 8
  MaxHeap = 4224
  SizeMod = 65536
  MaxCalls = 7
INVARIANTS
  WordsOK
  PayloadsUntouched
  LinksAgree
PROPERTIES
  ImplementsBlockHeap
CHECK_DEADLOCK FALSE
