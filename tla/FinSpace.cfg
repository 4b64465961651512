CONSTANTS
  Parts = {"codec", "sample", "file", "shared"}
  SampleSizes <- MCSampleSizes
  NullValue = NullValue
  EmptyText = EmptyText
  NumberOne = NumberOne
  Blank = Blank
SPECIFICATION Spec
INVARIANTS SavedIsSame StratifiedIsBalanced ExportIsComplete RunHasOneSpace
CHECK_DEADLOCK FALSE
