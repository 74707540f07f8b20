SPECIFICATION FairSpec
CONSTANTS
  Keys <- ThreeKeys
  Rows = {"a", "b", "d", "gen"}
  RowOf <- ThreeRowOf
  MainRows = {"a", "b", "d"}
  GoldKeys = {}
  IidOf <- ThreeIidOf
  GenKey = "gen"
  IidStart = 3
  c1 = c1
  c2 = c2
  Clients = {c1, c2}
  Requests <- MCBindRequests
  InitDb <- ThreeDb
  ForceSet <- NoForce
  WarmRows = {}
  MaxCalls = 6
  MaxFaults = 0
  MaxRestarts = 1
  None = None
INVARIANTS
  DistinctIids
PROPERTIES
  Answered
  EventuallySaved
  StopCompletes
  IidKept
CHECK_DEADLOCK FALSE
