SPECIFICATION Spec
CONSTANTS
  NoState = NoState
  None = None
  Plain = {shown}
  Wildcards = {}
  SentImportances = {0, 4}
  SentDeadLines = {FALSE}
  Levels <- MCLevels
  MaxMachines = 2
  MaxWrites = 0
INVARIANTS
  CancelledIsNotExecuted
CHECK_DEADLOCK FALSE
