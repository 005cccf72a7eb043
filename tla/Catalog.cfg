CONSTANTS
  Names = {t, u, log}
  LogFile = log
  Declarations <- MCDeclarations
  PerPage = 2
  NoRecord = NoRecord
  MaxStatements = 4
  MaxCrashes = 1
SPECIFICATION Spec
SYMMETRY Alike
INVARIANTS TablesIntact FailsOnlyWhenBroken
CHECK_DEADLOCK FALSE
