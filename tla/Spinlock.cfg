SPECIFICATION LockSpec
CONSTANT
  Cpus = {c1, c2}
  NoCpu = NoCpu
INVARIANTS
  MutualExclusion
  OwnerIsHolder
CHECK_DEADLOCK FALSE
