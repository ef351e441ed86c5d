SPECIFICATION Spec
CONSTANTS
  Key = {1, 2}
  Null = 0
  Val <- MCVal
  Class <- MCClass
  Schemas <- MCSchemas
  HasPk = TRUE
  PkLeads = TRUE
  MayFail = TRUE
INVARIANTS RoundTrip AppliesCleanly DriftKept
PROPERTY RetryChangesNothing
CHECK_DEADLOCK FALSE
