SPECIFICATION FairSpec
CONSTANTS
  MaxQueueSize = 1
  MaxRxBuffer = 2
  MaxAcksPerPacket = 2
  MaxRetransmits = 2
  FastRetransmitThreshold = 1
  OutboundBuffer = 2
  MaxPackets <- Short
  NetCap = 1
  MaxStray = 0
  Readers = {"server"}
  Closers = {"client"}
INVARIANTS
  NoLostWakeup
PROPERTIES
  NoSendOnClosed
  RetransmitEnds
  WriteReturns
  
CHECK_DEADLOCK FALSE
