CONSTANTS
  r1 = r1
  r2 = r2
  r3 = r3
  World = World
  Sub = Sub
  Acks = Acks
  AckComm = Acks
  AnyOne = AnyOne
  ProcNull = ProcNull
  Nothing = Nothing
  Ranks <- ThreeRanks
  RankOrder <- ThreeOrder
  Comms <- OneComm
  Members <- ThreeMembers
  Programs <- AnyPrograms
  AckTags = 4
  MaxCkpts <- BlockCkpts
SPECIFICATION Spec
INVARIANTS NoAssertionFails
