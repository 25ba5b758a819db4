CONSTANTS
  Program = {shell, child}
  NULL = NULL
  KERNEL = KERNEL
  MaxAllocations = 2
  HeapBlocks = 6
  Block <- Heap
  EntriesPerTable = 4
  PageSize = 4
  ProgramFiles <- Files
  ProgramAddress = 8
  StackTop = 8
  StackSize = 4
  AllocationSize = 3
SYMMETRY Symmetry
SPECIFICATION PagesSpec
INVARIANTS TypeOK Isolated HeldIsKept TrackedIsOwn DirectoryGrants SegmentsAreMapped HeldIsIdentity
