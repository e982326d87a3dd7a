SPECIFICATION FairSpec
CONSTANTS
  N = 2
  s1 = s1
  s2 = s2
  end = end
  a = a
  b = b
  ab = ab
  o = o
  States = {s1, s2, end}
  Names <- MCNames
  Parts <- MCParts
  Others = {o}
  NoEvent = NoEvent
  Machines <- MCMachines
  Initial <- MCInitial
  Extracted <- MCExtracted
  NotSent = NotSent
  Ended = Ended
  None = None
  MaxOthers = 1
INVARIANTS
  TypeOK
  NoMissedMeeting
PROPERTIES
  ImplementsRendezvous
  MeetingHappens
CHECK_DEADLOCK FALSE
