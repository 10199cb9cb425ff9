CONSTANTS
  g1 = g1
  g2 = g2
  v1 = v1
  j1 = j1
  Jobs = {j1}
  NoJob = NoJob
  Workers = {g1, g2}
  MaxAttempts = 2
  MaxLosses = 1
  MaxRetries = 0
  Actions = 2
  Visitors = {v1}
  PubLevels = 2
  PubChanges = 2
  PubVisits = 2
  Members = {g1, g2}
  AccessChanges = 2
  AccessRequests = 2
  Mergers = {g1, g2}
  ProposalIds = {1, 2}
  PropChanges = 2
  PropMerges = 2
SYMMETRY Alike
SPECIFICATION WorkspaceSpec
INVARIANTS AutomationInv DoneOnceInFull
PROPERTIES StopsInTime WorkspaceHold
