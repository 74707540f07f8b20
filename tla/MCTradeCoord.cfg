SPECIFICATION FairSpec
CONSTANTS
  Sns = {"all", "in"}
  Dir <- AllInDir
  Cur <- AllInCur
  Cnt <- AllInCnt
  Currencies = {"gold", "gold_game"}
  GoldGame = "gold_game"
  InitBal <- AllInBal
  Repeated = {"prepare", "commit"}
  MaxRepeats = 1
  MaxFaults = 2
  NoOrder = NoOrder
INVARIANTS
  TypeOK
  Accounted
  CreditBacked
  
PROPERTIES
  OrderSettles
  Answered
CHECK_DEADLOCK FALSE
