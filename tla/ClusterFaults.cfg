CONSTANTS
  n1 = n1
  n2 = n2
  w1 = w1
  w2 = w2
  c1 = c1
  f1 = f1
  f2 = f2
  None = None
  Count <- MCCount
  Node <- NodesAB
  Worker <- WorkersAB
  NodeOf <- NodeOfAB
  Client <- OneClient
  Function <- OneFun
  Checked <- NoClient
  Memory <- UnitMemory
  TotalMem = 1
  QueueCap = 1
  MaxTasks = 3
  Nested <- AllCalls
  Flows <- Passes
  RunMayFail = FALSE
  Faulty <- NodesA
SPECIFICATION Spec
CONSTRAINT Bounded
INVARIANTS TypeOK NeverDuplicated RepliesMatch KnownNodes LiveEntries RegisteredWaits
CHECK_DEADLOCK FALSE
