CONSTANTS
  Capacity = 1
  FrameBytes = 3
  HeaderBytes = 2
  MaxRecvChunk = 2
  MaxFrames <- MCMaxFrames
SPECIFICATION FairSpec
INVARIANTS
  StreamIntact
PROPERTIES
  PoisonIsFinal
  DeathIsNoticed
  FramesAreAnswered
CHECK_DEADLOCK FALSE
