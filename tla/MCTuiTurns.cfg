SPECIFICATION Spec
CONSTANTS
  None = None
  remote = remote
  edit = edit
  read = read
  NumTurns = 2
  Remote = {remote}
  Names = {edit, read}
  ReadOnly = {read}
  TurnCap = 1
  PermitCap = 1
  Items <- MCItems
INVARIANTS
  ConsentFirst
  ScreenIsCurrent
PROPERTIES
  PromptComesBack
  ReviewsAreDecided
CHECK_DEADLOCK FALSE
