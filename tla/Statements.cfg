CONSTANTS
  Schema <- MCSchema
  Rids = {1, 2, 3}
  Loads <- MCLoads
  Changes <- MCChanges
  MaxStatements = 3
  MaxRollbacks = 2
SPECIFICATION Spec
INVARIANTS StatementExact IndexesExceptSuspect CountExact RolledBack
PROPERTY CheckpointWrites
CHECK_DEADLOCK FALSE
