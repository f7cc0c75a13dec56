SPECIFICATION ToolSpec
CONSTANTS
  t1 = t1
  t2 = t2
  t3 = t3
  a = a
  b = b
  Thread = {t1, t2, t3}
  MayWrite = {t1, t2}
  Name = {a, b}
  Entry <- MCEntry
  Programs <- MCPrograms
  MaxItems = 3
  None = None
INVARIANTS NoEmptyObject DoneAlone StaysInstalled
PROPERTIES Linearizable ToolsEnd
CHECK_DEADLOCK FALSE
