CONSTANTS
  Total = 6
  BlockSize = 4
  SizeLimit = 32
  Requests <- MCRequests
SPECIFICATION LoopsSpec
INVARIANTS LoopsInv Disjoint TableMatchesLive
PROPERTIES FreeIsExact FitIsFound LoopsImplementHeap ImplementsAllocator CallsReturn
