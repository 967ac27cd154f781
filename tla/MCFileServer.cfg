CONSTANTS
  c1 = c1
  c2 = c2
  short = short
  long = long
  missing = missing
  Client <- MCClient
  Name <- MCName
  Server = Server
  OldSize <- MCOldSize
  Size = 2
  Backlog = 2
  Room = 1
  MaxKills = 1
  Rows = 2
  MaxFaults = 1
SPECIFICATION MCSpec
CHECK_DEADLOCK FALSE
INVARIANT Inv
PROPERTIES
  EverythingEnds
