CONSTANTS
  Capacity = 1
  FrameBytes = 3
  HeaderBytes = 2
  MaxRecvChunk = 2
  MaxFrames <- MCMaxFrames
SPECIFICATION Spec
PROPERTIES
  LastBytesDelivered
CHECK_DEADLOCK FALSE
