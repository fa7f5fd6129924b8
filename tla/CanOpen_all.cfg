CONSTANTS
  Models <- FewBlocks
  Objects = {"a", "b"}
  MaxFrames = 3
  MaxStarts = 2
SPECIFICATION CanSpec
INVARIANTS
  CanTypeOK
  OpenWhileUsed
  OneReceiver
PROPERTIES
  FrameReachesBlock
CHECK_DEADLOCK FALSE
