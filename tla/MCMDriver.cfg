SPECIFICATION Spec
CONSTANTS
  Settings <- MCSettings
  Addr <- MCAddr
  HeapStart = 0
  Alignment = 2
  LibcAddr = {101, 102, 103, 104, 105}
  SpeedRuns = 2
INVARIANTS
  RangesOK
  UtilOK
  HonestNeverAccused
  ClientKeepsContract
  IndexOnlyIfAllValid
CHECK_DEADLOCK FALSE
