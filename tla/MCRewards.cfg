SPECIFICATION FairSpec
CONSTANTS
  m1 = m1
  m2 = m2
  fm = fm
  sm = sm
  p1 = p1
  g1 = g1
  g2 = g2
  g3 = g3
  g4 = g4
  g5 = g5
  sign = sign
  vip = vip
  gold = gold
  ticket = ticket
  OwnMails = {m1, m2}
  ForeignMails = {fm}
  SysMails = {sm}
  AttachOf <- MCAttach
  Presents = {p1}
  SignKey = sign
  VipKey = vip
  Goods = {g1, g2, g3, g4, g5}
  Limit <- MCLimit
  Frame <- MCFrame
  Activity <- MCActivity
  Filled <- MCFilled
  Yield <- MCYield
  Price <- MCPrice
  Currencies = {gold, ticket}
  InitBal <- MCBal
  NItems = 2
  WeekLen = 7
  InitDay = 13
  InitSign <- MCSign
  Requests <- AllRequests
  MaxCalls = 2
  MaxFaults = 1
  MaxIssues = 1
  MaxDays = 1
INVARIANTS
  ClaimInv
  PrizeInv
  PurchaseInv
PROPERTIES
  StaysDeleted
  EveryRequestAnswered
CHECK_DEADLOCK FALSE
