SPECIFICATION Spec
CONSTANTS
  first = first
  second = second
  last = last
  e = e
  f = f
  States = {first, second, last}
  Wildcards = {}
  NoState = NoState
  Transitions <- MCTransitions
  Initials = {first, last, NoState}
  Never = Never
  TimeOuts = {Never, 1}
  DeadLines = {0, 1}
  Events = {e, f}
  preamted = preamted
  NoEvent = NoEvent
  MaxRuns = 1
  MaxEvents = 2
  MaxTime = 2
PROPERTIES
  RunEnds
  ImplementsContract
