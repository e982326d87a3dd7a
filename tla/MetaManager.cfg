SPECIFICATION FairSpec
CONSTANTS
  None = None
  N = 2
  MaxMetas = 2
  Sent <- MCFew
  Statuses = {"entered", "end", "aborted"}
INVARIANTS
  TypeOK
  FreezesInPublishStatus
PROPERTIES
  RoundEnds
CHECK_DEADLOCK FALSE
