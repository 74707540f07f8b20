SPECIFICATION Spec
CONSTANTS
  Keys <- OneKeys
  Rows = {"a", "gen"}
  RowOf <- OneRowOf
  MainRows = {"a"}
  GoldKeys = {"a_gold"}
  IidOf <- OneIidOf
  GenKey = "gen"
  IidStart = 3
  c1 = c1
  c2 = c2
  Clients = {c1, c2}
  Requests <- MCGoldRequests
  InitDb <- OneDb
  ForceSet <- OneNoForce
  WarmRows = {}
  MaxCalls = 2
  MaxFaults = 0
  MaxRestarts = 1
  None = None
PROPERTY
  EvictedOnlySaved
CHECK_DEADLOCK FALSE
