CONSTANTS
  RecordsPerPage = 2
  Val = {a, b}
  Empty = Empty
  MaxPages = 2
SPECIFICATION FairSpec
CHECK_DEADLOCK FALSE
INVARIANTS TypeOK NumRecordsExact FreePageHasRoom FreeListComplete ScanComplete
PROPERTIES ScanEnds ImplementsRecordStore
