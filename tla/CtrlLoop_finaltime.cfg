CONSTANTS
  Builds <- NuttxFinalTime
  MaxTime = 3
  MaxOverrun = 1
SPECIFICATION FairSpec
PROPERTIES
  FinalTimeEndsProgram
