CONSTANTS
  r1 = r1
  r2 = r2
  r3 = r3
  World = World
  Sub = Sub
  Acks = Acks
  AckComm = Acks
  AnyOne = AnyOne
  ProcNull = ProcNull
  Nothing = Nothing
  Ranks <- TwoRanks
  RankOrder <- TwoOrder
  Comms <- TwoComms
  Members <- TwoMembers
  Programs <- AllPrograms
  AckTags = 4
  MaxCkpts <- AllCkpts
SPECIFICATION Spec
INVARIANTS NothingLeftInLibrary DummyReadIsRight AckMarksItsIssend ProbeFindsNext
PROPERTIES ImplementsDelivery
