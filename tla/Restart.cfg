\* Three ranks, three communicators beside MPI_COMM_WORLD, one restart; three
\* datatypes, structs of two, one request.
CONSTANTS
  N = 3
  MaxComms = 3
  MaxSlots = 3
  MaxCkpts = 1
  Splits <- SomeSplits
  Groups <- SomeGroups
  MaxTypes = 3
  MaxCalls = 1
  MaxStruct = 2
  MaxRestarts = 1
SPECIFICATION RestartSpec
INVARIANTS GidNamesCommunicator RestartNeverStuck RefsRight RestartInOrder
\* The ranks may make calls that do not match, and then wait for each other.
CHECK_DEADLOCK FALSE
