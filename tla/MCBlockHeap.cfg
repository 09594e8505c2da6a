SPECIFICATION Spec
CONSTANTS
  FirstBp = 8
  HeapMax = 152
  FirstChunk = 32
  Chunk = 48
  MinBlock = 24
  Requests <- MCRequests
INVARIANTS
  TypeOK
  HeapOK
  LiveMatches
PROPERTIES
  PromiseSpec
  GrowsOnlyWhenFull
