\* MPI_Get_elements on a datatype of the program's.
CONSTANTS
  Workload = "elements"
  MaxObjects = 3
  MaxCkpts = 1
SPECIFICATION WrappersSpec
INVARIANT CallsUseLiveObjects
