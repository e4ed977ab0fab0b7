CONSTANTS
  Process = {p1, p2, p3}
  NoProcess = NoProcess
  SessionCreationMaxRetryCount = 2
SPECIFICATION Observed
SYMMETRY Symmetry
INVARIANTS
  SuccessionInv
  ExitedRunLeavesNoSession
  LeftoversDoNotStopTheStart
PROPERTIES
  ExitSparesOtherSessions
  ImplementsSessionLease
CHECK_DEADLOCK FALSE
