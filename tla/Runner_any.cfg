CONSTANTS
  SpaceA = SpaceA
  SpaceB = SpaceB
  Spaces = {SpaceA}
  Ranks <- MCRanks
  Sources <- AnySources
  Limits <- SomeLimits
  Resumes = {FALSE, TRUE}
  FailFasts = {FALSE, TRUE}
  Stores = {FALSE, TRUE}
  Backends = {"sequential", "process"}
  Workers = 1
  Capacity = 2
  MaxRows = 3
  MaxFailures = 1
  MaxCrashes = 1
SPECIFICATION FairSpec
INVARIANTS Lazy AllAccounted
PROPERTY RunEnds
CHECK_DEADLOCK FALSE
