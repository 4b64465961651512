CONSTANTS
  Names <- MCNames
  Labels <- MCLabels
  Schemas <- MCSchemas
  Inputs <- MCInputs
  Indices <- MCIndices
SPECIFICATION Spec
INVARIANTS NoAssertion RoundTrip AcceptsExactly
CHECK_DEADLOCK FALSE
