CONSTANTS
  Entries <- MoreEntries
  Scans <- NoScans
  MaxKeysInternal = 3
  MaxKeysLeaf = 2
  MaxErrors = 0
  MaxCalls = 7
SPECIFICATION Spec
INVARIANT SearchFindsAlways
CHECK_DEADLOCK FALSE
