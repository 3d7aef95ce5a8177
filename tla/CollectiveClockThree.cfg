CONSTANTS
  r1 = r1
  r2 = r2
  r3 = r3
  World = World
  X = X
  D = D
  Ranks <- ThreeRanks
  Comms <- ThreeComms
  InitialComms <- ThreeComms
  Members <- ThreeMembers
  Programs <- ThreePrograms
  MAX_DRAIN_ROUNDS = 1
  MaxCkpts = 1
SPECIFICATION Spec
PROPERTIES ImplementsCut
