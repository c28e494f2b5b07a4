SPECIFICATION MCSpec
CONSTANTS
  Writers = {w1, w2}
  Readers = {r1}
  Setters = {s1, s2}
  Handlers = {h1, h2}
  Threshold = 3
  Width = 7
  MaxSlots = 2
  IngressCap = 2
INVARIANTS
  NonceOnce
  CloseReasonTold
  HandlerQuiet
PROPERTIES
  CallsReturn
CHECK_DEADLOCK FALSE
