CONSTANTS
  Files = {"elf", "missing"}
  Faults = {}
  MaxDescriptors = 2
  MaxLoaded = 2
  LeakLimit = 4
SPECIFICATION Spec
INVARIANT CloseGetsPrivateData
