CONSTANTS
  n1 = n1
  n2 = n2
  w1 = w1
  w2 = w2
  c1 = c1
  f1 = f1
  f2 = f2
  None = None
  Node <- NodesA
  Worker <- WorkersA
  NodeOf <- NodeOfA
  Client <- OneClient
  Function <- OneFun
  Checked <- NoClient
  Count <- MCCount
  Memory <- UnitMemory
  TotalMem = 1
  QueueCap = 1
  MaxTasks = 1
  Nested <- NoCalls
  Flows <- Passes
  RunMayFail = FALSE
  Faulty <- NoNode
SPECIFICATION Spec
PROPERTY SyncAnswered
CHECK_DEADLOCK FALSE
