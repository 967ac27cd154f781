CONSTANTS
  c1 = c1
  c2 = c2
  c3 = c3
  Client <- MCTwoClients
  NoClient = NoClient
  Backlog = 2
  FdLimit = 2
  Room = 4
  MaxLines = 2
  MaxQuits = 0
  SigMax = 4
SPECIFICATION Spec
CHECK_DEADLOCK FALSE
PROPERTY SignalMeansMessage
