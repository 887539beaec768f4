CONSTANTS
  urgent = urgent
  first = first
  second = second
  late = late
  Calls <- FourCalls
  ReqPriority <- FourPriorities
  Cancellable <- FourCalls
  Configurations <- OneSetting
  MaxConfigures = 1
  Total = 5
  MinPart = 1
  Connections = 4
  Tries = 2
  RangeRetries = 1
  BulkReleases <- OneReleaseOnly
  BulkCalls <- TwoCalls
  MaxDownloads = 2
  RefreshRows <- OneReleaseOnly
  SweepWorkers <- OneWorker
  MaxVersion = 1
  MaxMarkEdits = 2
  MaxRefreshes = 3
SPECIFICATION CancellationSpec
INVARIANT NoLostWakeup
INVARIANT ExclusiveInstances
INVARIANT PublishedIsWhole
PROPERTY ReplacementsStay
PROPERTY MarksStaySet
PROPERTY TransferEnds
PROPERTY ImplementsLeasePool
CHECK_DEADLOCK FALSE
