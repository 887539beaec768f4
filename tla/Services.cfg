CONSTANTS
  s1 = s1
  t1 = t1
  Scenes <- OneScene
  Toggles <- OneToggle
  RetryAttempts = 1
  MaxSceneChanges = 2
  MaxHooks = 1
  MaxFailures = 1
  MaxSyncs = 1
  file = file
  db = db
  m1 = m1
  m2 = m2
  Paths <- OneFile
  Targets <- OneDatabase
  Rows0 <- TwoRowsEach
  NTables = 2
  RowIds <- ThreeRowIds
  BatchSize = 1
  Migrates <- TwoMigrates
  MaxSourceEdits = 2
  MaxTransferErrors = 1
  MaxSelections = 2
  SceneIds <- TwoIds
  Codes <- TwoCodes
  FirstCodes <- OneSceneFirst
  LaterCodes <- ThenMoved
  MaxEvents = 1
  MaxRebuilds = 2
  MaxReviews = 2
  MaxFaults = 1
  Videos <- TwoVideos
  Addressed <- OneAddressed
  MaxScans = 3
  MaxMoves = 1
  MaxMissFaults = 1
  Discoverable <- TwoReleases
  Pages <- OnePage
  Sweeps <- TwoSweeps
  Shown <- FirstOnly
  FallbackLimit = 1
  MaxRevisions = 2
  Catalog <- ThreeReleases
  PageRows = 2
  MaxClock = 6
SPECIFICATION ServicesSpec
INVARIANT NoEventLost
INVARIANT AgreeWhenQuiet
 
INVARIANT AddedOnce
 
INVARIANT ScoresCurrent
INVARIANT OneEnrichment
INVARIANT FallbackWithinLimit
PROPERTY CompletedMeansCopied
PROPERTY ArchiveKeepsEvents
CHECK_DEADLOCK FALSE
