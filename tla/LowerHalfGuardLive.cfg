CONSTANTS
  t1 = t1
  t2 = t2
  AppThreads <- OneThread
  Ckpt = Ckpt
  NoThread = NoThread
  Blocking = TRUE
  MaxDepth = 2
  MaxStores = 2
SPECIFICATION FairSpec
PROPERTIES CloseCompletes EntryCompletes
