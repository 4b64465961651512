CONSTANTS
  Parts = {"sample"}
  SampleSizes = {2}
  NullValue = NullValue
  EmptyText = EmptyText
  NumberOne = NumberOne
  Blank = Blank
SPECIFICATION Spec
INVARIANT RankableInParent
CHECK_DEADLOCK FALSE
