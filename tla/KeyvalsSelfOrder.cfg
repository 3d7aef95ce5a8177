\* An attribute of MPI_COMM_SELF is set again.
CONSTANTS
  a = a
  b = b
  self = self
  none = none
  Comms <- AllComms
  Self = self
  NoComm = none
  PredefinedKeyvals <- OnePredefined
  MaxKeyvals = 2
  MaxValues = 3
  MaxDepth = 1
SPECIFICATION KeyvalsSpec
PROPERTY SelfReverseOrder
