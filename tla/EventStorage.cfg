SPECIFICATION Spec
CONSTANTS
  Events = {preamted, done}
  MaxEvents = 5
INVARIANTS
  TypeOK
  FifosHoldTheRest
PROPERTIES
  ImplementsMailbox
