SPECIFICATION Spec
CONSTANTS
  HeapStart = 64
  HeapMax = 112
  WordMod = 128
  Requests <- MCRequests
  Marks = {m1, m2}
INVARIANTS
  PayloadsSafe
PROPERTIES
  PromiseUntilWrap
