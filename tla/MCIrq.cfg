SPECIFICATION Spec
CONSTANTS
  Irqs = {7, 12, 15}
  Handlers = {h1}
  NoHandler = none
  MaxHandlers = 2
  Managed = {12}
  MaxRaises = 2
INVARIANTS
  TrackingExact
  RegisteredIsUnmasked
  NothingLeftInService
PROPERTIES
  RequestsAreServed
