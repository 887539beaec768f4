CONSTANTS
  urgent = urgent
  first = first
  second = second
  late = late
  Calls <- ThreeCalls
  ReqPriority <- ThreePriorities
  Cancellable <- NoCall
  Configurations <- SwappedSettings
  MaxConfigures = 3
  sweep = sweep
  timed = timed
  group = group
  NoJob = NoJob
  Jobs <- ThreeJobs
  Prio <- ThreePrio
  SiteTotal <- TwoSites
  WholeCatalog <- SweepOnly
  Scheduled <- TwoScheduled
  ScheduleKey <- OneKey
  MaxItems = 1
  MaxStops = 1
  Twins <- TwoTwins
  GigaRow = 3
  MaxVersion = 2
  MaxEdits = 2
  MaxDeaths = 2
  MaxOutages = 1
SPECIFICATION ScansSpec
INVARIANT BusyHasLease
INVARIANT OnePlaceEach
INVARIANT EditsSurvive
INVARIANT PendingIsCurrent
PROPERTY Recovers
PROPERTY FirstComeFirstServed
PROPERTY ServedOnceConfigured
PROPERTY AcceptedEnds
CHECK_DEADLOCK FALSE
