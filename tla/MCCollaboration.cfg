CONSTANTS
  ada = ada
  bob = bob
  Clients = {ada, bob}
  Root = Root
  MaxClock = 2
  MaxErased = 0
  MaxEpoch = 2
  MaxDrops = 1
  MaxTurns = 0
  front = front
  typed = typed
  more = more
  erase = erase
  ids = ids
  Ops <- Operations
  Needs <- Builds
  Fronts = {front}
  Bodies <- Visible
  Body <- Shows
  Heavy <- Large
  Instances = {ada, bob}
  MaxEpochs = 2
  CheckpointUpdates = 2
  MaxSequence = 3
SPECIFICATION CollaborationSpec
SYMMETRY Pair
INVARIANTS TypeOK TabsAreCurrent SavedIsCommitted CalmIsOrderly StoreInv ReadersAreCurrent
PROPERTIES SharedDocument
CHECK_DEADLOCK FALSE
