CONSTANTS
  Schema <- MCSchema
  Databases <- MCDatabases
  Queries <- MCQueries
  MaxQueries = 3
  MaxSessions = 2
SPECIFICATION Spec
INVARIANTS AnswerExact FailsOnly TempFilesGone
CHECK_DEADLOCK FALSE
