SPECIFICATION Spec
CONSTANTS
  c1 = c1
  h1 = h1
  Callers = {c1}
  Handlers = {h1}
  ReconnectMaxAttempts = 1
  MaxConsecutiveStalls = 2
  Reenter = TRUE
  Deadlines = TRUE
  MaxSessions = 3
INVARIANTS
  NoOrphanSession
  HooksInOrder
  HandlerFollows
CHECK_DEADLOCK FALSE
