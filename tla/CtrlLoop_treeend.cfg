CONSTANTS
  Builds <- LinuxShv
  MaxTime = 3
  MaxOverrun = 1
SPECIFICATION Spec
INVARIANTS
  TreeEndsBeforeBlocks
