SPECIFICATION Spec
CONSTANTS
  None = None
  SentImportances <- MCImportances
  Levels <- MCLevels
  Deadlines = {0, 1}
  MaxMachines = 3
  MaxTime = 2
INVARIANTS
  TypeOK
  StartedOnce
  DeadNeverStarts
PROPERTIES
  StartsInOrder
  LateIsDropped
CHECK_DEADLOCK FALSE
