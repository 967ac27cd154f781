CONSTANTS
  t1 = t1
  t2 = t2
  t3 = t3
  c1 = c1
  c2 = c2
  c3 = c3
  NoClient = NoClient
  Thread <- MCThread
  Racer <- MCThread
  NoThread = NoThread
  MaxIncs = 5
  Rounds = 3
  Threads = 4
  MaxSpurious = 1
  PipeClient <- MCPipeClient
  UdomainClient <- MCUdomainClient
  Capacity = 3
  MaxStops = 1
  Backlog = 1
  FdLimit = 2
  maxfd = 3
  File <- MCFile
  MaxInput = 3
  Addresses <- MCAddresses
  Interfaces <- MCInterfaces
  Word = 16
  Packet <- MCPacket
  Sent = 4
SPECIFICATION MCSpec
CHECK_DEADLOCK FALSE
INVARIANTS
  Inv
  LossFloor
  SumDecided
  LocalInv
  HeaderVerifies
PROPERTIES
  MainMonotone
  ImplementsAtomicCounter
  MutexProgress
  CatcFinishes
  MissedForGood
  PipeBlocks
  UdomainEndsOrAnswers
  SelectReads
