CONSTANTS
  Builds <- AllBuilds
  MaxTime = 3
  MaxOverrun = 1
SPECIFICATION FairSpec
INVARIANTS
  TypeOK
  AtMostOneLateSample
  NoLostResume
  NothingLeftRunning
PROPERTIES
  QuietOnceAnswered
  FollowsProtocol
  KeepsPromise
  PauseStopsModel
  ResumeStartsLoop
  SignalEndsUnpausable
  FinalTimeHeeded
