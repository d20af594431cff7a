SPECIFICATION FairSpec
CONSTANTS
  Rooms = {r1, r2}
  Direct = {r1}
  Cap = 1
  Limit = 1
  MsgCap = 2
  PostCap = 2
  JobCap = 1
  FailCap = 1
  LifeCap = 2
INVARIANTS
  LookedAtOnce
  RepliesReengage
  TurnsAreMarked
PROPERTY MessagesReached
CHECK_DEADLOCK FALSE
