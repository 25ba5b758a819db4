CONSTANTS
  MaxProcesses = 3
  ProcAddr = {p1, p2, p3}
  TaskAddr = {t1, t2, t3}
  NULL = NULL
  Faults = {"map"}
  Points = 1
SPECIFICATION ContextFairSpec
INVARIANTS TypeOK ListComplete PrevIsPredecessor SlotsMatchTasks NothingOrphaned
PROPERTIES ParentResumes StarterRunsAgain
