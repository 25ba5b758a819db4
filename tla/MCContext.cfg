CONSTANTS
  MaxProcesses = 2
  ProcAddr = {p1, p2, p3}
  TaskAddr = {t1, t2, t3}
  NULL = NULL
  Faults = {"file", "heap", "map"}
  Points = 2
SYMMETRY Symmetry
SPECIFICATION ContextSpec
INVARIANTS RunsLiveTask PanicOnlyWhenEmpty RunsItsOwn
