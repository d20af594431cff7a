SPECIFICATION Spec
CONSTANTS
  None = None
  remote = remote
  edit = edit
  read = read
  NumTurns = 1
  Remote = {remote}
  Names = {edit, read}
  ReadOnly = {read}
  TurnCap = 2
  PermitCap = 1
  Items <- MCItems
PROPERTY CancelStopsTheTurn
CHECK_DEADLOCK FALSE
