CONSTANTS
  r1 = r1
  r2 = r2
  r3 = r3
  World = World
  Sub = Sub
  Acks = Acks
  AckComm = Acks
  AnyOne = AnyOne
  ProcNull = ProcNull
  Nothing = Nothing
  Ranks <- ThreeRanks
  RankOrder <- ThreeOrder
  Comms <- TwoComms
  Members <- ThreeMembers
  Programs <- SubPrograms
  AckTags = 4
  MaxCkpts <- BlockCkpts
SPECIFICATION Spec
INVARIANTS NoAssertionFails
