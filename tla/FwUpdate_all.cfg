CONSTANTS
  Details <- Halves
  Images = {"a", "b"}
  Chunks = 2
  Polls = 2
  MaxWire = 2
SPECIFICATION FwSpec
INVARIANTS
  FwTypeOK
PROPERTIES
  WrittenWhileQuiet
  ResetOnlyWhole
  CancelEnds
  CloseReturnsIfReported
CHECK_DEADLOCK FALSE
