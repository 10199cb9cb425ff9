CONSTANTS
  MigWorkers = {g1, g2}
  NoMigWorker = NoMigWorker
  MigSessions = {1}
  MigTexts = {1}
  MigProviders = {1, 2}
  MigAttempts = 2
  MigJobs = 3
  MigTroubles = 1
SPECIFICATION MigSpec
INVARIANT ExcludedLeftAlone
CHECK_DEADLOCK FALSE
