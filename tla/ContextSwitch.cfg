SPECIFICATION Spec
CONSTANTS
  Procs = {kernel, init, shell}
  Boot = kernel
INVARIANT
  SwitchReachesNext
CHECK_DEADLOCK FALSE
