SPECIFICATION Spec
CONSTANTS
  PT = 32
  PD = 2
  AreaFrame = 32
  MaxSegments = 2
  RamSizes <- MCRamSizes
  Images <- MCImages
  Slots = {1, 2}
  StackTop = 127
  StackPages = 1
  Registers <- MCRegisters
  DmaSizes = {2}
  KernelSizes = {2}
  MaxOps = 5
INVARIANTS
  PageTablesExact
  MappingsExact
  LoaderExact
CHECK_DEADLOCK FALSE
