CONSTANTS
  Counts <- MCCounts
  MinimumDomain = 2
  Rounds = 6
  Tweaks <- MCTweaks
  XOR <- MCXor
  Tables <- MCTables
SPECIFICATION FairSpec
INVARIANT RoundTrip
PROPERTY Returns
CHECK_DEADLOCK FALSE
