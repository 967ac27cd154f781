CONSTANTS
  c1 = c1
  c2 = c2
  c3 = c3
  Client <- MCTwoClients
  NoClient = NoClient
  Backlog = 2
  FdLimit = 2
  Room = 1
  MaxLines = 2
  MaxQuits = 1
  SigMax = 3
SPECIFICATION MCSpec
CHECK_DEADLOCK FALSE
INVARIANT Inv
PROPERTIES
  SetUpIsHeard
  NeverCaughtUp
