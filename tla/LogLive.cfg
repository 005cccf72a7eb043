CONSTANTS
  RecordsPerPage = 1
  Val = {a}
  Empty = Empty
  Garbage = Garbage
  Kinds = {"insert", "delete", "update"}
  StrayXids = {0,1}
  LogPageCap = 2
  MaxPages = 1
  MaxLog = 2
  MaxXid = 1
  MaxCrashes = 2
  MaxEras = 1
SPECIFICATION FairSpec
CHECK_DEADLOCK FALSE
PROPERTIES CallsReturn
