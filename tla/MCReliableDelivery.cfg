SPECIFICATION Spec
CONSTANTS
  MaxQueueSize = 2
  MaxRxBuffer = 2
  MaxAcksPerPacket = 1
  MaxRetransmits = 2
  FastRetransmitThreshold = 1
  OutboundBuffer = 3
  MaxPackets <- OneWay
  NetCap = 1
  MaxStray = 1
  Readers = {}
  Closers = {}
INVARIANTS
  DeliveryInv
PROPERTIES
  ImplementsStream
CHECK_DEADLOCK FALSE
