CONSTANTS
  Entries <- MoreEntries
  Scans <- MCScans
  MaxKeysInternal = 3
  MaxKeysLeaf = 2
  MaxErrors = 1
  MaxCalls = 7
SPECIFICATION Spec
INVARIANTS TypeOK LeavesHoldEntries SearchFindsEntries PagesAccounted ScanComplete
PROPERTIES ScanLetsDelete ImplementsStore
CHECK_DEADLOCK FALSE
