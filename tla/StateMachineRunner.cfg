SPECIFICATION Spec
CONSTANTS
  first = first
  second = second
  last = last
  e = e
  f = f
  States = {first, second, last}
  Wildcards = {second}
  NoState = NoState
  Transitions <- MCTransitions
  Initials = {first, NoState}
  Never = Never
  TimeOuts = {Never, 1}
  DeadLines = {0, 1}
  Events = {e, f}
  preamted = preamted
  NoEvent = NoEvent
  MaxRuns = 2
  MaxEvents = 3
  MaxTime = 2
INVARIANTS
  TypeOK
  OneFinalStatus
  StaleNeverActs
  NewStateIsShown
PROPERTIES
  LeftWhenHeard
CHECK_DEADLOCK FALSE
