CONSTANTS
  e1 = e1  e2 = e2  e3 = e3  e4 = e4  e5 = e5  e6 = e6
  Structs = {e1, e2, e3, e4, e5, e6}
  Keys <- MCStrings
  Values <- MCStrings
  HashOf <- MCHashOf
  Malloc <- MCMalloc
  InitialBuckets = 32
  Thresh = 10
  NULL = NULL
  Junk = Junk
  Endless = Endless
  Procs = {1, 2, 3}
  PidName <- MCPidName
  Scripts <- MCScripts
  Argvs <- MCArgvs
  FirstEnv = "E=1"
  Programs = {"ls"}
  Files = {"f"}
  Refused = {"E=1"}
  Codes = {"0", "1", "255"}
  MaxArgs = 3
SPECIFICATION Spec
CHECK_DEADLOCK FALSE
INVARIANT BuiltinsRun
