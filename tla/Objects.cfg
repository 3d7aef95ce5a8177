\* The table: two usable slots and a reserved one, four handles.  The
\* wrappers: two checkpoints.  The attributes: two keyvals, three values,
\* callbacks in callbacks.
CONSTANTS
  Slots = 3
  Gens = 2
  MaxAdds = 4
  Kinds <- TwoKinds
  Constants <- OneConstant
  Workload = "all"
  MaxObjects = 5
  MaxCkpts = 2
  a = a
  b = b
  Comms <- AllComms
  Self = self
  NoComm = none
  PredefinedKeyvals <- OnePredefined
  MaxKeyvals = 2
  MaxValues = 3
  MaxDepth = 2
SYMMETRY Interchangeable
SPECIFICATION ObjectsSpec
INVARIANTS
  LiveHandlesResolve NullMeansCompleted StaleDetectedUntilWrap ScanIsRight
  CallsUseLiveObjects NothingLost CommitsOutside
  DeletedOnce KeyvalsAgree
