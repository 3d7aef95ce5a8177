\* The locks: two threads and the checkpoint thread.  The memory: an arena of
\* two pages, one restart, and one try, so that tries run out.  The descriptors:
\* five numbers, two checkpoints.
CONSTANTS
  a = a
  b = b
  Parts <- AllParts
  Ckpt = Ckpt
  None = None
  Apps <- TwoApps
  LastPage = 6
  Stack <- StackPage
  MaxLen = 2
  MaxAlign = 2
  MaxTries = 1
  MaxLhMaps = 1
  MaxCkpts = 1
  ZeroOld = TRUE
  FirstNumber = 4
  LastNumber = 8
  Protected <- DmtcpNumbers
  Room = 1
  SoftLimits <- Limits
  HardLimit = 9
  Inherited <- Launcher
  OtherFds <- OtherHeaders
  MaxLower = 2
  MaxFdCkpts = 2
SPECIFICATION MemorySpec
INVARIANTS LocksRight ListsMatchMemory ImageIsUpperHalf
PROPERTIES RefusedForCause FdsRestored
