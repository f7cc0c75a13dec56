CONSTANTS
  w1 = w1
  w2 = w2
  f1 = f1
  f2 = f2
  f3 = f3
  f4 = f4
  None = None
  Worker <- MCWorker
  Function <- MCFunction
  Memory <- MCMemory
  TotalMem = 2
  MaxTries = 5
  LaunchMayFail = TRUE
  RunMayFail = TRUE
  MayPanic = TRUE
SPECIFICATION Spec
INVARIANTS TypeOK MemoryBalance ReportsCurrent EvictionEnds ExhaustedOnlyIfTooBig
PROPERTY RetriesEnd
CHECK_DEADLOCK FALSE
