SPECIFICATION SettlingSpec
CONSTANTS
  Jobs = {j1}
  NoJob = NoJob
  Workers = {w1, w2}
  MaxAttempts = 2
  MaxLosses = 1
  MaxRetries = 1
  Clients = {ada}
  Root = Root
  MaxClock = 2
  MaxErased = 1
  MaxEpoch = 2
  MaxDrops = 2
  MaxTurns = 1
INVARIANTS IInv SingleHolder AttemptsStand
PROPERTIES CancelIsFinal ContractSpec EveryJobSettles EditsSettle
