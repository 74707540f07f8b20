SPECIFICATION NoticeFairSpec
CONSTANTS
  Servers = {"c1", "c2"}
  Center = "center"
  Homes = {"c1"}
  MaxEvents = 2
  MaxRounds = 1
INVARIANTS
  ItemInv
  BroadcastHeard
PROPERTIES
  ShownSettles
CHECK_DEADLOCK FALSE
