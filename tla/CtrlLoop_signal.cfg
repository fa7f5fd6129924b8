CONSTANTS
  Builds <- TimerHookShv
  MaxTime = 3
  MaxOverrun = 1
SPECIFICATION FairSpec
PROPERTIES
  SignalEndsProgram
