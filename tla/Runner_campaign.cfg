CONSTANTS
  SpaceA = SpaceA
  SpaceB = SpaceB
  Spaces = {SpaceA, SpaceB}
  Ranks <- MCRanks
  Sources <- DistinctSources
  Limits <- NoLimit
  Resumes = {TRUE}
  FailFasts = {FALSE, TRUE}
  Stores = {TRUE}
  Backends = {"sequential", "process"}
  Workers = 2
  Capacity = 2
  MaxRows = 9
  MaxFailures = 1
  MaxCrashes = 1
SPECIFICATION FairCampaign
INVARIANT SummaryIsTrue
PROPERTIES ImplementsCampaign EventuallyAll
CHECK_DEADLOCK FALSE
