CONSTANTS
  Program = {shell, child}
  Block = {b1, b2, b3, b4}
  NULL = NULL
  KERNEL = KERNEL
  MaxAllocations = 2
SPECIFICATION Spec
INVARIANT NothingLeaks
