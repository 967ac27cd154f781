CONSTANTS
  c1 = c1
  c2 = c2
  c3 = c3
  Client <- MCClient
  Parent = Parent
  NUL = NUL
  LineLen = 1
  Backlog = 2
  FdLimit = 2
  MaxFails = 2
  MaxRuns = 2
SPECIFICATION MCSpec
CHECK_DEADLOCK FALSE
INVARIANT Inv
PROPERTIES
  ImplementsEcho
  ChildrenFinish
  QueueDrains
