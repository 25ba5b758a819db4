CONSTANTS
  MaxProcesses = 4
  ProcAddr = {p1, p2, p3, p4}
  TaskAddr = {t1, t2, t3, t4, t5}
  NULL = NULL
  Faults = {}
SYMMETRY Symmetry
SPECIFICATION Spec
INVARIANT PrevIsPredecessor
