SPECIFICATION Spec
CONSTANTS
  None = None
  N = 3
  MaxMetas = 3
  Sent <- MCShared
  Statuses = {}
PROPERTIES
  SelectedOnAll
  SelectionProgresses
  ReplacedForBetter
CHECK_DEADLOCK FALSE
