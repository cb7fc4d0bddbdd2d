SPECIFICATION LiveSpec
CONSTANTS
  Gens = {1, 2}
  KeyOf <- MCKeyOf
  ModeOf <- MCModeOf
  Keys = {"k1", "k2"}
  NoKey = "nokey"
  None = 0
INVARIANTS
  LiveIsCurrent
  SequentialStatus
PROPERTIES
  CancelledGoes
CHECK_DEADLOCK FALSE
