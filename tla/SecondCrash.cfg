CONSTANTS
  RecordsPerPage = 2
  Val = {a}
  Empty = Empty
  Garbage = Garbage
  Kinds = {"insert"}
  StrayXids = {0}
  LogPageCap = 2
  MaxPages = 1
  MaxLog = 3
  MaxXid = 2
  MaxCrashes = 2
  MaxEras = 1
SPECIFICATION Spec
CHECK_DEADLOCK FALSE
INVARIANTS RecoveryConsistent
