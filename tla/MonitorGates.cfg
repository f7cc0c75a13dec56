CONSTANTS
  a = a
  b = b
  w1 = w1
  w2 = w2
  c1 = c1
  n1 = n1
  n2 = n2
  o0 = o0
  o1 = o1
  o2 = o2
  o3 = o3
  o4 = o4
  o5 = o5
  None = None
  Principal <- MCPrincipal
  Worker <- TwoWorkers
  Client <- OneClient
  Obj <- FourObjects
  Root = o0
  Store0 <- GateStore
  Name <- Names
  Kinds <- Gates
  Calls <- GateCalls
  Labels <- OnlyPublic
  Privs <- AnyPriv
  Logins <- NoPrivs
  MaxTasks = 2
SPECIFICATION Spec
INVARIANTS ThreadsContained NoAmplification
PROPERTY Untouched
CHECK_DEADLOCK FALSE
