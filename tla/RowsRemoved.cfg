CONSTANTS
  r1 = r1
  r2 = r2
  r3 = r3
  d1 = d1
  d2 = d2
  d3 = d3
  q1 = q1
  q2 = q2
  x1 = x1
  NoRun = NoRun
  Runs <- ThreeRuns
  Downloads <- OneDownload
  Priorities <- OnePriority
  RowPriority <- AllAlike
  Settings <- OneSlot
  MaxEdits = 0
  StoreMayFail = FALSE
  ReleaseOf <- OneRelease
  Requests <- OneRequest
  Removals <- OneRemoval
  OneAtATime = TRUE
  MayFail = FALSE
  FallsBack <- Nothing
  MaxCrashes = 0
SPECIFICATION SpecRows
INVARIANT RemovedStaysRemoved
CHECK_DEADLOCK FALSE
