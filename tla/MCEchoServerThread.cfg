CONSTANTS
  c1 = c1
  c2 = c2
  c3 = c3
  Client <- MCClient
  NoClient = NoClient
  NUL = NUL
  LineLen = 3
  Backlog = 2
  FdLimit = 2
SPECIFICATION Spec
CHECK_DEADLOCK FALSE
SYMMETRY Symmetry
INVARIANT Inv
