CONSTANTS
  Total = 6
  BlockSize = 4
  SizeLimit = 32
  Requests = {1, 4, 5, 12, 17}
SPECIFICATION Spec
INVARIANT SpaceReserved
