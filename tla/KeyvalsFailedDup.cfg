\* A delete callback fails while a failed MPI_Comm_dup is undone.
CONSTANTS
  a = a
  b = b
  self = self
  none = none
  Comms <- AllComms
  Self = self
  NoComm = none
  PredefinedKeyvals <- OnePredefined
  MaxKeyvals = 2
  MaxValues = 3
  MaxDepth = 1
SYMMETRY Interchangeable
SPECIFICATION KeyvalsSpec
INVARIANT FailedDupLeavesNothing
