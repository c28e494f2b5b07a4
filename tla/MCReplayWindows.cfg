SPECIFICATION MCSpec
CONSTANTS
  windowSize = 3
  MaxPID = 5
  Wrappers = {w1, w2}
  Unwrappers = {u1, u2}
  WordBits = 2
  Size = 5
  MaxDataPID = 8
  Openers = {o1, o2}
  Writers = {}
  Readers = {}
  Setters = {}
  Handlers = {}
  Threshold = 1
  Width = 3
  MaxSlots = 1
  IngressCap = 1
SYMMETRY Symmetric
INVARIANTS
  WrapsDistinct
  DataWindowExact
PROPERTIES
  ImplementsSlidingWindow
  DataImplementsSlidingWindow
CHECK_DEADLOCK FALSE
