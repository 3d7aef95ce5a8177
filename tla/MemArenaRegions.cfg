\* mremap() with an old size of zero splits a region.
CONSTANTS
  a = a
  b = b
  Parts <- OnlyMemory
  Ckpt = Ckpt
  None = None
  Apps <- TwoApps
  LastPage = 7
  Stack <- StackPage
  MaxLen = 2
  MaxAlign = 2
  MaxTries = 16
  MaxLhMaps = 1
  MaxCkpts = 0
  ZeroOld = TRUE
  FirstNumber = 4
  LastNumber = 8
  Protected <- DmtcpNumbers
  Room = 1
  SoftLimits <- Limits
  HardLimit = 9
  Inherited <- Launcher
  OtherFds <- OtherHeaders
  MaxLower = 2
  MaxFdCkpts = 2
SPECIFICATION MemorySpec
INVARIANT RegionsMerged
