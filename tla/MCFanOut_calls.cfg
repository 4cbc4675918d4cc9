SPECIFICATION FairSpec
CONSTANTS
  d = d
  e = e
  u = u
  g = g
  h = h
  m = m
  Devices = {d, e, u}
  Groups = {g, h}
  Rooms = {m}
  Callers = {a}
  Values = {1}
  Lists <- Nested
  Supporting = {d, e}
  Cloudy = {e}
  None = None
  MaxTasks = 4
  MaxEdits = 2
INVARIANTS
  OkMeansDone
PROPERTIES
  EveryMemberTried
  CallsEnd
CHECK_DEADLOCK FALSE
