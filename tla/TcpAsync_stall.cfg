CONSTANTS
  Configs <- TightConfig
  Words = {"a"}
  BUFFSIZE_DEFAULT = 2
  MaxRx = 0
SPECIFICATION FairSpec
PROPERTIES
  SentEventually
