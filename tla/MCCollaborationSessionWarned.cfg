CONSTANTS
  ada = ada
  bob = bob
  Clients = {ada}
  Root = Root
  MaxClock = 2
  MaxErased = 1
  MaxEpoch = 1
  MaxDrops = 1
  MaxTurns = 2
SPECIFICATION Spec
INVARIANT UnsavedWarned
CHECK_DEADLOCK FALSE
