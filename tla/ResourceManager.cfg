SPECIFICATION Spec
CONSTANTS
  NoState = NoState
  None = None
  Plain = {shown}
  Wildcards = {wild}
  SentImportances = {0, 4}
  SentDeadLines = {TRUE}
  Levels <- MCLevels
  MaxMachines = 2
  MaxWrites = 1
INVARIANTS
  TypeOK
  OneMachineRuns
  PublishesItsOwnData
PROPERTIES
  OnlyBetterPreempts
CHECK_DEADLOCK FALSE
