SPECIFICATION Spec
CONSTANTS
  Keys <- OneKeys
  Rows = {"a", "gen"}
  RowOf <- OneRowOf
  MainRows = {"a"}
  GoldKeys = {"a_gold"}
  IidOf <- OneIidOf
  GenKey = "gen"
  IidStart = 3
  c1 = c1
  c2 = c2
  Clients = {c1, c2}
  Requests <- MCGoldRequests
  InitDb <- OneDb
  ForceSet <- OneForce
  WarmRows = {}
  MaxCalls = 3
  MaxFaults = 1
  MaxRestarts = 1
  None = None
INVARIANTS
  TypeOK
  Coherent
  SoleLoader
  CleanStopSaves
PROPERTIES
  ImplementsStore
CHECK_DEADLOCK FALSE
