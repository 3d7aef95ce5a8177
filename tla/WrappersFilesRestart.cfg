\* A restart with a file open.
CONSTANTS
  Workload = "files"
  MaxObjects = 3
  MaxCkpts = 1
SPECIFICATION WrappersSpec
INVARIANT FilesRestored
