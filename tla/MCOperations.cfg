CONSTANTS
  author = author
  anna = anna
  team = team
  role = role
  here = here
  Users = {author, anna}
  Author = author
  Writers = {author}
  Reviewers = {anna}
  Bodies = {text}
  Rests = {here, elsewhere}
  Elsewhere = {elsewhere}
  Gates = {team, role}
  Roles = {team, role}
  Shapes <- OneOrTwo
  NoPatch = NoPatch
  MaxVersion = 3
  MaxRequests = 1
  MaxChanges = 2
  Executions = {x1}
  Last = 2
  Kind <- Plans
  Confirmations = {c1, c2}
  Runners = {g1, g2}
  Reconciler = Reconciler
  None = None
  RunbookAttempts = 2
  RunbookTroubles = 1
  Agents = {g1, g2}
  NoAgent = NoAgent
  MaxAgentSteps = 3
  MaxAgentJobs = 3
  AgentTroubles = 2
  DistWorkers = {g1, g2}
  Dists = {d1}
  MaxWaiting = 1
  DistAttempts = 2
  DistChanges = 2
  DistTroubles = 1
  SignIns = {i1}
  IdChanges = 3
  KeyCalls = {c1, c2}
  KeyEditors = {e1, e2}
  KeyMinutes = 2
SYMMETRY Workers
SPECIFICATION OperationsSpec
INVARIANTS OperationsTypeOK DecisionsFollowPolicy RunbooksHold AgentsHold
PROPERTIES ApprovedAsFrozen DistributionHolds AccountsHold
CHECK_DEADLOCK FALSE
