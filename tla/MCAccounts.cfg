SPECIFICATION FairSpec
CONSTANTS
  Users = {u1}
  Conns = {c1, c2}
  Pids = {p1, p2}
  None = none
  MaxMsgs = 4
  MaxFaults = 1
INVARIANTS
  MarkInv
PROPERTIES
  FlagsReleased
CHECK_DEADLOCK FALSE
