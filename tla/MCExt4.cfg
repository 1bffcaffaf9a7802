SPECIFICATION Spec
CONSTANTS
  MaxDevices = 2
  Machines <- MCMachines
  NoDevice = NoDevice
  block_count = 5
  inodes_per_group = 2
  groups_count = 2
  InodesPerBlock = 2
  InodeTable <- MCInodeTable
  Disks <- MCDisks
  Contents <- MCContents
  Paths <- MCPaths
  Faults <- MCFaults
  MaxFiles = 1
INVARIANTS
  ReadsSeeWrites
  CleanIsOnDevice
  MemoryExact
PROPERTIES
  LookupExact
