CONSTANTS
  RecordsPerPage = 2
  Val = {a}
  Empty = Empty
  Garbage = Garbage
  Kinds = {"load", "delete"}
  StrayXids = {0}
  LogPageCap = 2
  MaxPages = 2
  MaxLog = 3
  MaxXid = 1
  MaxCrashes = 2
  MaxEras = 2
SPECIFICATION Spec
CHECK_DEADLOCK FALSE
INVARIANTS WALRule NumRecordsNeverOver FreePageExists
PROPERTIES CheckpointSafe
