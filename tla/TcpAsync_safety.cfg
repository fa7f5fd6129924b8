CONSTANTS
  Configs <- SafetyConfigs
  Words = {"a", "b"}
  BUFFSIZE_DEFAULT = 2
  MaxRx = 3
SPECIFICATION Spec
INVARIANTS
  TypeOK
  ExclusiveBuffers
  WholeFrame
  DrainedAtEnd
PROPERTIES
  StreamInOrder
  NeverBack
  NewestFrame
