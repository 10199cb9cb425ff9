CONSTANTS
  Indexers = {g1, g2}
  NoIndexer = NoIndexer
  RagProviders = {1, 2}
  Batches = 2
  MaxGenerations = 2
  MaxSwitches = 1
  MaxRagJobs = 2
  RagTroubles = 1
  MigWorkers = {g1, g2}
  NoMigWorker = NoMigWorker
  MigSessions = {1}
  MigTexts = {1}
  MigProviders = {1, 2}
  MigAttempts = 2
  MigJobs = 3
  MigTroubles = 1
  GitWorkers = {g1, g2}
  NoGitWorker = NoGitWorker
  GitRuns = {1, 2}
  GitPaths = {1, 2}
  Foreign = 100
  GitAttempts = 2
  GitTroubles = 1
  InWorkers = {g1, g2}
  InMails <- Arrivals
  MaxMails = 2
  MailBatch = 1
  MailRange = 2
  MaxPending = 1
  InAttempts = 2
  InPolls = 2
  InTroubles = 1
  Senders = {g1, g2}
  Notes = {1}
  NoteChannels = {1, 2}
  NoteAttempts = 3
  NoteChanges = 1
  NoteTroubles = 2
SYMMETRY Goroutines
SPECIFICATION ExchangeSpec
INVARIANTS ExchangeTypeOK IndexHolds
PROPERTIES SwitchHolds MigrationHolds GitHolds CaptureHolds NotesHold
CHECK_DEADLOCK FALSE
