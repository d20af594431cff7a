SPECIFICATION Spec
CONSTANTS
  Actors = {t1, t2}
  Paths = {f1, f2}
  Starts <- MCStarts
  Calls <- MCCalls
  Anchor <- MCAnchor
  Absent = Absent
  Refused = Refused
  None = None
  Marker = Marker
  Marks = {m1, m2, m3, m4, m5, m6}
  MaxPolls = 1
  CallCap = 2
  FailCap = 1
  f1 = f1
  f2 = f2
  f3 = f3
  a = a
  a_indented = a_indented
  b = b
  m1 = m1
  m2 = m2
  m3 = m3
  m4 = m4
  m5 = m5
  m6 = m6
INVARIANTS
  OnlyTheLinesMeant
  ReportsAreTrue
SYMMETRY EitherTurn
CHECK_DEADLOCK FALSE
