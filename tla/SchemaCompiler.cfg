CONSTANTS
  Inputs <- MCInputs
  Records <- MCRecords
SPECIFICATION Spec
INVARIANTS NodesShared CompilesExactly RecordsAreWords Conditioned
CHECK_DEADLOCK FALSE
