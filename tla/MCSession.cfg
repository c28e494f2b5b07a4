SPECIFICATION Spec
CONSTANTS
  NumKeyIDs = 3
  Users = {u1}
  Servers = {s1}
  MaxGen = 4
  Restarts = FALSE
  WorkersEnd = FALSE
INVARIANTS
  ActiveSlotIsNewest
  CloseLeavesNothing
  OldKeysRetire
PROPERTIES
  SlotsKeptInTransition
CHECK_DEADLOCK FALSE
