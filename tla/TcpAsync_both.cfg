CONSTANTS
  Configs <- LivenessConfigs
  Words = {"a"}
  BUFFSIZE_DEFAULT = 2
  MaxRx = 1
SPECIFICATION FairSpec
INVARIANTS
  NoUseAfterFree
PROPERTIES
  EndReturns
  SentEventually
