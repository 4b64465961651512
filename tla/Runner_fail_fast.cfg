CONSTANTS
  SpaceA = SpaceA
  SpaceB = SpaceB
  Spaces = {SpaceA}
  Ranks <- MCRanks
  Sources <- InOrder
  Limits <- NoLimit
  Resumes = {TRUE}
  FailFasts = {TRUE}
  Stores = {TRUE}
  Backends = {"thread"}
  Workers = 2
  Capacity = 2
  MaxRows = 0
  MaxFailures = 1
  MaxCrashes = 0
SPECIFICATION Spec
INVARIANT CompletedAreStored
CHECK_DEADLOCK FALSE
