CONSTANTS
  Sources <- TwoSources
  Releases <- ThreeReleases
  ListedIn <- Overlapping
  Date <- TwoDates
  Excluded <- OneExcluded
  AtFirst <- TwoListed
  Scanned <- SecondOne
  PageSize = 2
  MayFail = TRUE
  MaxStarts = 2
  MaxCrashes = 1
SPECIFICATION FairSpec
INVARIANT CheckpointCovers
 
INVARIANT CompletedMeansAll
PROPERTY RunEnds
CHECK_DEADLOCK FALSE
