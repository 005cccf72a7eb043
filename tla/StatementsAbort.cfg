CONSTANTS
  Schema <- MCSchema
  Rids = {1, 2, 3}
  Loads <- MCLoads
  Changes <- MCChanges
  MaxStatements = 3
  MaxRollbacks = 2
SPECIFICATION Spec
PROPERTY AbortDiscards
CHECK_DEADLOCK FALSE
