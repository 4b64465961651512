CONSTANTS
  Names <- MCNames
  Labels <- MCLabels
  Calls <- MCCalls
SPECIFICATION FairSpec
INVARIANTS AcceptsExactlyDags LimitsAreExact ReadyIsCompiled CountsWords
PROPERTY Terminates
CHECK_DEADLOCK FALSE
