CONSTANTS
  Sources <- TwoSources
  Releases <- ThreeReleases
  ListedIn <- Everything
  Date <- TwoDates
  Excluded <- Nothing
  AtFirst <- AllListed
  Scanned <- SecondOne
  PageSize = 2
  MayFail = FALSE
  MaxStarts = 2
  MaxCrashes = 0
SPECIFICATION Spec
INVARIANT WholeIndexRead
CHECK_DEADLOCK FALSE
