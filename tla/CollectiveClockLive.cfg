CONSTANTS
  r1 = r1
  r2 = r2
  r3 = r3
  World = World
  X = X
  D = D
  Ranks <- TwoRanks
  Comms <- TwoComms
  InitialComms <- TwoInitial
  Members <- TwoMembers
  Programs <- LivePrograms
  MAX_DRAIN_ROUNDS = 1
  MaxCkpts = 1
SPECIFICATION FairSpec
PROPERTIES DrainTerminates ProgramsEnd
