CONSTANTS
  Diagrams <- SmallDiagrams
  Nodes <- MCNodes
SPECIFICATION Spec
INVARIANTS
  TypeOK
  FreshInputs
  EveryBlockOnce
  LoopRefused
PROPERTIES
  Terminates
