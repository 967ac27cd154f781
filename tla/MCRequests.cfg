CONSTANTS
  c1 = c1
  c2 = c2
  f1 = f1
  f2 = f2
  Browser <- MCClient
  Calculating <- MCClient
  UdpQuestion <- MCUdpQuestion
  TcpRequest <- MCTcpRequest
  Inode <- MCInode
  Page <- MCPage
  NoFile = NoFile
  MaxLen = 2
  DirLen = 1
  MinProc = 1
  MaxProc = 2
  MaxChanges = 1
  MaxStops = 1
  Half = 2
  MaxDups = 1
  MaxLosses = 1
  Base = 2
  MaxServed = 3
SPECIFICATION MCSpec
CHECK_DEADLOCK FALSE
INVARIANT RequestsInv
PROPERTIES
  OrphansNeverServed
  WebAnswered
  UdpWaiting
