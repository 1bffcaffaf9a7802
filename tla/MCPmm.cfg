SPECIFICATION Spec
CONSTANTS
  PageSize = 2
  BitmapPages = 6
  LowPages = 1
  LowLimit = 4
  MemMaps <- MCMemMaps
  Clients <- MCClients
  MaxCount = 3
  MaxAddr = 42
INVARIANTS
  TypeOK
  BitmapExact
  NoSharing
  HeldMemoryIsUsable
PROPERTIES
  ImplementsPageAllocator
