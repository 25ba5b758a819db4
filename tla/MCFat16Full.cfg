CONSTANTS
  SectorSize = 8
  ClusterSize = 16
  ItemSize = 2
  RootSize = 16
  CountLimit = 8
  PositionLimit = 48
  Fat <- MCFat
  Volumes <- MCFullSector
  Paths <- MCPaths
  Sizes <- MCSizes
  SeekOffsets <- MCSeekOffsets
SPECIFICATION Spec
PROPERTY CountReturns
