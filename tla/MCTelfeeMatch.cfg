SPECIFICATION TelfeeFairSpec
CONSTANTS
  Matches = {1, 2}
  AutoMatches = {1}
  Players = {"p1", "p2"}
  MaxMsgs = 5
INVARIANTS
  FeeInv
  PrizedPerEntry
PROPERTIES
  MatchEnds
CHECK_DEADLOCK FALSE
