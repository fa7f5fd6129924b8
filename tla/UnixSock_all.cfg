CONSTANTS
  MaxFd = 4
  MaxStarts = 2
  MaxServers = 2
SPECIFICATION SockSpec
INVARIANTS
  SockTypeOK
  OwnSocket
  OneConnection
PROPERTIES
  SendReturns
  Reconnects
CHECK_DEADLOCK FALSE
