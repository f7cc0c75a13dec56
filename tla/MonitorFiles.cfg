CONSTANTS
  a = a
  b = b
  w1 = w1
  w2 = w2
  c1 = c1
  n1 = n1
  n2 = n2
  o0 = o0
  o1 = o1
  o2 = o2
  o3 = o3
  o4 = o4
  o5 = o5
  None = None
  Principal <- MCPrincipal
  Worker <- OneWorker
  Client <- OneClient
  Obj <- FiveObjects
  Root = o0
  Store0 <- FileStore
  Name <- Names
  Kinds <- Data
  Calls <- DataCalls
  Labels <- PublicOrA
  Privs <- NoPrivs
  Logins <- PrivA
  MaxTasks = 2
SPECIFICATION Spec
INVARIANTS TypeOK ObjectsContained ThreadsContained ClientCleared
CHECK_DEADLOCK FALSE
