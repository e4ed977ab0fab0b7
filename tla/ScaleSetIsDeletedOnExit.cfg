CONSTANTS
  Process = {p1}
  NoProcess = NoProcess
  SessionCreationMaxRetryCount = 2
SPECIFICATION Faultless
INVARIANT ScaleSetIsDeletedOnExit
CHECK_DEADLOCK FALSE
