SPECIFICATION Spec
CONSTANTS
  Updaters = {"checker", "command"}
  MaxRelease = 1
  Nothing = Nothing
INVARIANT ProgramKept
CHECK_DEADLOCK FALSE
