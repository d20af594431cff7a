SPECIFICATION FairSpec
CONSTANTS
  None = None
  NumJobs = 2
  PromptJobs = {2}
  RetryMax <- MCRetryMax
  RetryWait <- MCRetryWait
  NextAfter <- MCNextAfter
  Budgets = {1}
  PollInterval = 1
  MinPendingBudget = 2
  IdleSleep = 100
  HistoryCap = 2
  MaxU64 = 1000
  Horizon = 5
  MaxRequests = 1
  MaxCall = 2
INVARIANTS
  NeverStranded
  WaitingLineIsPolled
  ChainsInOrder
  NoLostWakeup
  NoStalePoll
PROPERTIES
  DeadlineFixed
  ImplementsLifecycle
  VerdictArrives
  ManualRunHonoured
