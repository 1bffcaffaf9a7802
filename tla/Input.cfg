SPECIFICATION Spec
CONSTANTS
  KeyboardSize = 3
  MouseSize = 2
  Printable = {"a"}
  Silent = {"F1"}
  FirstBytes = {56}
  Moves = {128, 129}
  Callbacks = {"log", "shell"}
  KeyboardCallbacks = 2
  MouseCallbacks = 1
INVARIANTS
  MovementExact
  CallbacksReached
PROPERTIES
  Fifo
  PressesAreStored
