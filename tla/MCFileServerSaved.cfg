CONSTANTS
  c1 = c1
  c2 = c2
  short = short
  long = long
  missing = missing
  Client <- MCOneClient
  Name <- MCName
  Server = Server
  OldSize <- MCOldSize
  Size = 2
  Backlog = 2
  Room = 2
  MaxKills = 0
  Rows = 2
  MaxFaults = 0
SPECIFICATION Spec
CHECK_DEADLOCK FALSE
PROPERTY UploadIsSaved
