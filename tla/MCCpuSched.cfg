SPECIFICATION Spec
CONSTANTS
  Policies <- MCPolicies
  Arrivals <- MCArrivals
  Bursts <- MCBursts
  MaxProcesses = 4
  Junk = Junk
INVARIANTS
  CountsOK
  FirstComeFirst
  TurnsTaken
  PrintedAsPlayed
CHECK_DEADLOCK FALSE
