\* Room for the new lower half's descriptors.
CONSTANTS
  a = a
  b = b
  Parts <- OnlyDescriptors
  Ckpt = Ckpt
  None = None
  Apps <- TwoApps
  LastPage = 6
  Stack <- StackPage
  MaxLen = 2
  MaxAlign = 2
  MaxTries = 1
  MaxLhMaps = 1
  MaxCkpts = 1
  ZeroOld = TRUE
  FirstNumber = 3
  LastNumber = 8
  Protected <- DmtcpNumbers
  Room = 2
  SoftLimits <- Limits
  HardLimit = 9
  Inherited <- Launcher
  OtherFds <- OtherHeaders
  MaxLower = 2
  MaxFdCkpts = 2
SPECIFICATION MemorySpec
INVARIANT RoomIsKept
