SPECIFICATION McpSpec
CONSTANTS
  startup = startup
  a = a
  b = b
  Startup = startup
  Callers = {a, b}
  MaxPages = 2
  MaxCalls = 2
  MaxTwice = 1
  OwnIds = {3}
  PipeCap = 1
INVARIANTS
  OwnAnswer
  NothingLeaks
PROPERTY WrittenRequestsEnd
CHECK_DEADLOCK FALSE
