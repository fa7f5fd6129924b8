CONSTANTS
  Details <- ShellHalf
  Images = {"a", "b"}
  Chunks = 2
  Polls = 2
  MaxWire = 2
SPECIFICATION FwSpec
PROPERTIES
  CloseReturns
CHECK_DEADLOCK FALSE
