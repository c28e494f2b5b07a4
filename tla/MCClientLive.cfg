SPECIFICATION FairSpec
CONSTANTS
  c1 = c1
  Callers = {c1}
  Handlers = {}
  ReconnectMaxAttempts = 2
  MaxConsecutiveStalls = 0
  Reenter = FALSE
  Deadlines = FALSE
  MaxSessions = 2
PROPERTIES
  CloseReturns
  ReconnectReturns
CHECK_DEADLOCK FALSE
