SPECIFICATION FairSpec
CONSTANTS
  c1 = c1
  c2 = c2
  a = a
  b = b
  Users = {a, b}
  Conns = {c1, c2}
  Channels = {"hall"}
  Sns = {0, 1}
  NoSn = NoSn
  MaxLogins = 3
  MaxMsgs = 4
INVARIANTS
  SessionInv
  ChannelsAgree
PROPERTIES
  LostPlayerLeaves
  LoginEnds
CHECK_DEADLOCK FALSE
