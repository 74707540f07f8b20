SPECIFICATION FairSpec
CONSTANTS
  Users = {"a", "b"}
  Prizes = {"big", "small"}
  Top = "big"
  MaxLucky = 2
  Stock <- OneBig
  Times = {1, 3}
  Fee <- TwoFees
  SerialAt = {2}
  Money <- ThreeDraws
  MaxFaults = 2
INVARIANTS
  DialInv
  StockKept
PROPERTIES
  TopEarned
  DialEnds
CHECK_DEADLOCK FALSE
