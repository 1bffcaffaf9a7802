SPECIFICATION Spec
CONSTANTS
  PT = 8
  PD = 8
  AreaFrame = 8
  MaxSegments = 2
  RamSizes <- MCRamSizes
  Images <- MCImages
  Slots = {1, 2}
  StackTop = 127
  StackPages = 1
  Registers <- MCRegisters
  DmaSizes = {2}
  KernelSizes = {2}
  MaxOps = 5
PROPERTY
  FreesAllocatedMemory
CHECK_DEADLOCK FALSE
