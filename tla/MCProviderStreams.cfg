SPECIFICATION Spec
CONSTANTS
  c1 = c1
  c2 = c2
  s1 = s1
  Calls = {c1, c2}
  Tools = {s1}
  Frags = 2
  Texts = 2
  MaxRetries = 6
  IdleTimeout = 120
INVARIANTS
  AnswerIsExact
  CutIsNotAnEnd
  RetriesFitTheWait
PROPERTY
  ImplementsEventStream
CHECK_DEADLOCK FALSE
