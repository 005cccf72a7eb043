CONSTANTS
  RecordsPerPage = 1
  Val = {a, b}
  Empty = Empty
  Garbage = Garbage
  Kinds = {"load", "update", "delete"}
  StrayXids = {0}
  LogPageCap = 2
  MaxPages = 1
  MaxLog = 3
  MaxXid = 2
  MaxCrashes = 2
  MaxEras = 1
SYMMETRY Symmetry
SPECIFICATION Spec
CHECK_DEADLOCK FALSE
INVARIANTS TypeOK AtomicAndDurable RecoverySucceeds LogChain
