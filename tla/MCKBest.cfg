SPECIFICATION Spec
CONSTANTS
  WordMod = 4
  Threshold = 2
  RecordThresh = 2
  NEvent = 2
  ReadCost = 1
  TickCosts = {1, 5}
  MaxTicks = 1
  Durations = {3, 4, 8}
  Ks = {2}
  Maxes = {3}
  Epsilons <- MCEpsilons
  Bytes = {8, 16}
  Blocks = {2, 4}
  Defaults <- MCDefaults
  FsecsParam <- MCFsecs
  Sleep = 13
INVARIANTS
  SamplerOK
  EndsAsTested
  KSmallest
  SamplesAreElapsed
PROPERTIES
  CallsEnd
CHECK_DEADLOCK FALSE
