SPECIFICATION Spec
CONSTANTS
  Jobs <- MCJobs
  LineMax = 3
  Garbage <- MCGarbage
  PageSize = 4
  MaxRuns = 2
  MaxFiles = 6
INVARIANTS
  WrapIsSafe
  OutputIsGrep
PROPERTIES
  Terminates
CHECK_DEADLOCK FALSE
