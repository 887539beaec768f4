CONSTANTS
  r1 = r1
  r2 = r2
  r3 = r3
  d1 = d1
  d2 = d2
  d3 = d3
  q1 = q1
  q2 = q2
  x1 = x1
  NoRun = NoRun
  Runs <- ThreeRuns
  Downloads <- ThreeDownloads
  Priorities <- OnePriority
  RowPriority <- AllAlike
  Settings <- TwoSlots
  MaxEdits = 0
  StoreMayFail = FALSE
  ReleaseOf <- TwoReleases
  Requests <- TwoRequests
  Removals <- OneRemoval
  OneAtATime = TRUE
  MayFail = TRUE
  FallsBack <- OnlyTheThird
  MaxCrashes = 1
SPECIFICATION SpecRows
SYMMETRY RunSymmetry
INVARIANT NoStrandedRow
INVARIANT DownloadingHoldsSlot
INVARIANT OneActivePerRelease
PROPERTY RedownloadedOnce
CHECK_DEADLOCK FALSE
