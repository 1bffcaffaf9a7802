SPECIFICATION Spec
CONSTANTS
  MaxCount = 4
  MaxPid = 3
  Spaces = {s1, s2, s3}
  KernelSpace = kernel
INVARIANTS
  QueuesWellFormed
  NoLostProcess
  CurrentSpaceAlive
PROPERTIES
  ImplementsRoundRobin
  EveryReadyProcessRuns
CHECK_DEADLOCK FALSE
