SPECIFICATION Spec
CONSTANTS
  MAX_PCI_DEVICES = 4
  NoDevice = NoDevice
  Buses <- MCBuses
  Hbas = {"h1", "h2"}
  PortNums = {0, 1}
  SlotCount = 2
  SATA_MAX_CONTROLLERS = 2
  SATA_MAX_PORTS = 2
  Drives <- MCDrives
  Sectors = 2
  SectorCount = 3
  Word = 8
  Ids = {1}
  Lbas = {0, 1, 7}
  Counts = {2}
  Values = {3}
  MaxChunk = 1
  MaxCalls = 4
  NVME_MAX_DEVICES = 2
  LargeBars = {2}
  Blocks = 1
  MaxId = 3
  IdentifyId = 2
  MaxRequests = 3
INVARIANTS
  PortsExact
  RequestsExact
  NvmeDmaExact
PROPERTIES
  SlotsOwned
  EveryCallReturns
  NvmeWritesDone
CHECK_DEADLOCK FALSE
