\* A checkpoint after a file was opened and closed.
CONSTANTS
  Workload = "files"
  MaxObjects = 3
  MaxCkpts = 1
SPECIFICATION WrappersSpec
INVARIANT SavesOpenFiles
