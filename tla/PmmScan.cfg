SPECIFICATION ScanSpec
CONSTANTS
  scan_pages = 7
  Counts = {1, 2, 3, 4, 8}
INVARIANTS
  ReturnsFirstFit
  FailsOnlyWhenFull
PROPERTIES
  Terminates
CHECK_DEADLOCK FALSE
