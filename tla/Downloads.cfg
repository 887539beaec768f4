CONSTANTS
  r1 = r1
  r2 = r2
  r3 = r3
  d1 = d1
  d2 = d2
  t1 = t1
  NoRun = NoRun
  Runs <- ThreeRuns
  Downloads <- TwoDownloads
  Priorities <- TwoPriorities
  RowPriority <- LastIsUrgent
  Settings <- EitherSetting
  MaxEdits = 1
  StoreMayFail = TRUE
  Unknown = Unknown
  Rows <- OneTorrent
  Capacity = 1
  MaxRetries = 1
  MaxCrashes = 1
  SearchCalls <- TwoCalls
  Releases <- TheRelease
  CallRelease <- SameRelease
  Forced <- SecondOnly
  CallPriority <- SamePriority
  EditedTo <- MoreUrgent
  MaxPriorityEdits = 1
  MaxTaskRetries = 1
  MaxServerRestarts = 1
  Copies <- TwoCopies
  HttpRows <- TwoRows
  ResolveAttempts = 2
  RestoreAttempts = 2
  MaxStarts = 2
  NoCopy = NoCopy
SPECIFICATION DownloadsSpec
INVARIANT LimitIsUsed
INVARIANT PipelineRunsOnce
 
INVARIANT UserFilesStay
PROPERTY ServedByPosition
PROPERTY EveryRunEnds
PROPERTY CleanupAfterPipeline
CHECK_DEADLOCK FALSE
