CONSTANTS
  MaxProcesses = 2
  ProcAddr = {p1, p2}
  TaskAddr = {t1, t2}
  NULL = NULL
  Faults = {"file", "map"}
  BufferSize = 2
  CounterLimit = 4
  TypeAhead = 2
SPECIFICATION ConsoleSpec
INVARIANTS ConsoleTypeOK  NothingBehindNull
PROPERTIES ImplementsKeyQueues
