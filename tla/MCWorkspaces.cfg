SPECIFICATION Spec
CONSTANTS
  default = default
  work = work
  Order <- MCOrder
  Default = default
  NoWorkspace = NoWorkspace
  MaxClosed = 1
  MaxTurns = 5
  MaxPosted = 2
  MaxRuns = 2
INVARIANTS StripIsCurrent FeedbackLastsItsTime
PROPERTIES RestartComesBack
CHECK_DEADLOCK FALSE
