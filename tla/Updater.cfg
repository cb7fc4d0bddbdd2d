SPECIFICATION Spec
CONSTANTS
  Updaters = {"checker", "command", "page"}
  MaxRelease = 1
  Nothing = Nothing
INVARIANTS
  NeverTorn
  AlwaysRecoverable
  MissingOnlyWhileReplacing
CHECK_DEADLOCK FALSE
