CONSTANTS
  c1 = c1
  c2 = c2
  c3 = c3
  Client <- MCClient
  NoClient = NoClient
  NUL = NUL
  LineLen = 2
  Backlog = 2
  PollFdLimit = 3
SPECIFICATION MCSpec
CHECK_DEADLOCK FALSE
INVARIANT ServersInv
PROPERTIES
  IterativeImplementsEcho
  IterativeAllServed
  PollProgress
  OobFirstOnly
