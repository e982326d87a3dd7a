SPECIFICATION FairSpec
CONSTANTS
  NoId = NoId
  None = None
  MaxMachines = 4
  MaxStatuses = 2
INVARIANTS
  TypeOK
  EndIsReal
PROPERTIES
  WaitEnds
CHECK_DEADLOCK FALSE
