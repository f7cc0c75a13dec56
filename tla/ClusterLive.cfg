CONSTANTS
  n1 = n1
  n2 = n2
  w1 = w1
  w2 = w2
  c1 = c1
  f1 = f1
  f2 = f2
  None = None
  Node <- NodesAB
  Worker <- WorkersAB
  NodeOf <- NodeOfAB
  Client <- OneClient
  Function <- TwoFuns
  Checked <- OneClient
  Count <- MCCount
  Memory <- BigMemory
  TotalMem = 1
  QueueCap = 1
  MaxTasks = 2
  Nested <- AsyncCalls
  Flows <- Either
  RunMayFail = TRUE
  Faulty <- NoNode
SPECIFICATION Spec
INVARIANT ListedIsIdle
PROPERTIES QueuedTaskFinishes IdleWorkerIsUsed RegisteredAnswered
CHECK_DEADLOCK FALSE
