\* The invariants that CommRestartProofs and DatatypesProofs show inductive.
CONSTANTS
  N = 3
  MaxComms = 3
  MaxSlots = 3
  MaxCkpts = 1
  Splits <- SomeSplits
  Groups <- SomeGroups
  MaxTypes = 3
  MaxCalls = 1
  MaxStruct = 2
  MaxRestarts = 1
SPECIFICATION RestartSpec
INVARIANTS CommInv DatatypeInv
CHECK_DEADLOCK FALSE
