CONSTANTS
  r1 = r1
  r2 = r2
  r3 = r3
  World = World
  X = X
  D = D
  Ranks <- TwoRanks
  Comms <- TwoComms
  InitialComms <- TwoInitial
  Members <- TwoMembers
  Programs <- TwoPrograms
  MAX_DRAIN_ROUNDS = 2
  MaxCkpts = 1
SPECIFICATION Spec
INVARIANTS TypeOK ConsistentCut NothingHalfStarted SameDecision CutInv
PROPERTIES ImplementsCut
