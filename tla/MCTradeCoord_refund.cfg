SPECIFICATION Spec
CONSTANTS
  Sns = {"part"}
  Dir <- GoldDir
  Cur <- GoldCur
  Cnt <- GoldCnt
  Currencies = {"gold", "gold_game"}
  GoldGame = "gold_game"
  InitBal <- GoldBal
  Repeated = {}
  MaxRepeats = 0
  MaxFaults = 0
  NoOrder = NoOrder
PROPERTY
  RefundSameCurrency
CHECK_DEADLOCK FALSE
