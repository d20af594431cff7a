SPECIFICATION Spec
CONSTANTS
  s1 = s1
  s2 = s2
  Prompts = {p1, p2}
  Sessions = {s1, s2}
  SessionOf <- AllInOne
  NoPrompt = NoPrompt
  MaxQueued = 2
INVARIANTS
  OnlyLiveHandles
  CancelHeeded
  CancelledForCause
PROPERTIES
  CancelEnds
CHECK_DEADLOCK FALSE
