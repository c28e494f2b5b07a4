SPECIFICATION FairSpec
CONSTANTS
  NumKeyIDs = 3
  Users = {}
  Servers = {}
  MaxGen = 2
  Restarts = TRUE
  WorkersEnd = TRUE
INVARIANTS
  ReasonBeforeClose
PROPERTIES
  EverythingEnds
CHECK_DEADLOCK FALSE
