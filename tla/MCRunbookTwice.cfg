CONSTANTS
  Executions = {x1}
  Last = 1
  Kind <- OnKubernetes
  Confirmations = {c1}
  Runners = {g1, g2}
  Reconciler = Reconciler
  None = None
  RunbookAttempts = 2
  RunbookTroubles = 0
SPECIFICATION RunbookSpec
INVARIANT NeverASecondJob
CHECK_DEADLOCK FALSE
