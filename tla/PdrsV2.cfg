SPECIFICATION Spec
CONSTANTS
  Names <- MCNames
  Labels <- MCLabels
  Documents <- MCDocuments
  Nfc <- MCNfc
  MaxNodes = 5
  MaxDepth = 3
  MaxRangeWidth = 3
  MaxDomain = 16
INVARIANTS PathFieldsExact RecordsIdentifyWords DiagramIsReduced
CHECK_DEADLOCK FALSE
