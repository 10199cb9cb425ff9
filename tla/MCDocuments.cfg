CONSTANTS
  g1 = g1
  g2 = g2
  author = author
  anna = anna
  team = team
  role = role
  Users = {author, anna}
  Author = author
  Writers = {author, anna}
  Reviewers = {anna}
  Bodies = {text, revised}
  Rests = {here, moved}
  Elsewhere = {}
  Gates = {role}
  Roles = {role}
  Shapes <- OneStage
  NoPatch = NoPatch
  MaxVersion = 4
  MaxRequests = 2
  MaxChanges = 2
  TreeClients = {g1, g2}
  TreeDocs = {1, 2, 3}
  TreeRoots = {1, 2}
  MaxTreeDepth = 2
  TreeRequests = 3
  Uploaders = {g1, g2}
  StoreDocs = {1}
  StoreFiles = {1, 2, 3}
  StoreChanges = 2
  StoreBackups = 1
  StoreRestores = 1
  BackupJobs = {1, 2}
  BackupWorkers = {g1, g2}
  BackupIds = {1, 2, 3}
  BackupRetention = 1
  BackupAttempts = 3
  BackupReplaced = 1
  BackupRestores = 1
  Extractors = {g1, g2}
  ExtractionIds = {1, 2}
  ExtractionTries = 2
  ExtractionChanges = 2
  TableEditors = {g1, g2}
  TableRows = {1, 2}
  TableChanges = 2
  TableSchemas = 2
  TableGrants = 1
  DraftHands = {g1, g2}
  Proposals = {1}
  ReviewLife = 1
  TicketLife = 2
  TombstoneLife = 3
  DraftLife = 3
  DraftTime = 3
  DraftChanges = 2
  MaxReviews = 2
SYMMETRY Alike
SPECIFICATION DocumentsSpec
INVARIANTS ApprovalInv AsReviewed
PROPERTIES OutcomesStand DocumentsHold
CHECK_DEADLOCK FALSE
