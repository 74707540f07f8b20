SPECIFICATION FairSpec
CONSTANTS
  g1 = g1
  g2 = g2
  a = a
  b = b
  None = None
  Servers = {g1, g2}
  Accounts = {a, b}
  Gold <- mcGold
  Jobs <- mcJobs
  TradeCap <- mcCap
  Tax = 5000
  MaxJobs = 2
  MaxTries = 1
  MaxFaults = 2
INVARIANTS
  GiftInv
  NoGoldMade
PROPERTIES
  CallReturns
CHECK_DEADLOCK FALSE
