CONSTANTS
  Counts <- MCCounts
  Crews = {1, 2, 3}
  Sizes = {1, 2, 4}
  MaxDeaths = 1
SPECIFICATION Spec
INVARIANTS NoOverlap Covered
CHECK_DEADLOCK FALSE
