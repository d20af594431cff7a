SPECIFICATION Spec
CONSTANTS
  Turns = {t1, t2, t3, t4}
  MaxMessages = 3
  DiskFaults = TRUE
  Found = {Absent, Torn}
  Absent = Absent
  Torn = Torn
SYMMETRY AnyTurn
INVARIANTS
  NoTornFile
  Continuity
  WholeTurns
