SPECIFICATION Spec
CONSTANTS
  MaxCallbacks = 2
  Callbacks = {"tcp", "sched"}
  Contexts = {"x", "y"}
  Intervals = {1, 2}
  FrequencyArgs = {0, 500}
INVARIANTS
  CallsAreRegistered
  CallsOnTime
PROPERTIES
  ActiveIsCalled
  ThreadReturns
