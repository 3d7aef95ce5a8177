CONSTANTS
  t1 = t1
  t2 = t2
  AppThreads <- TwoThreads
  Ckpt = Ckpt
  NoThread = NoThread
  Blocking = TRUE
  MaxDepth = 2
  MaxStores = 2
SYMMETRY ThreadSymmetry
SPECIFICATION Spec
INVARIANTS Exclusion OnlyBlockedInside GuardInv
PROPERTIES NoLateEntry
