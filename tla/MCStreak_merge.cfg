CONSTANTS
  p1 = p1
  p2 = p2
  e1 = e1
  e2 = e2
  c1 = c1
  c2 = c2
  NoCard = NoCard
  NoEvent = NoEvent
  Proc = {p1, p2}
  Event = {e1, e2}
  Card = {c1, c2}
  Offline <- MCOffline
  MaxStreak = 3
  MaxTotal = 4
  MaxAge = 2
  FirstDay = 3
  LastDay = 4
SPECIFICATION Spec
SYMMETRY Symmetry
INVARIANTS
  ChecksHold
  UploadsCommute
  StreakIsEarned
PROPERTIES
  CountsEventsOnce
  ShownStays
CHECK_DEADLOCK FALSE
