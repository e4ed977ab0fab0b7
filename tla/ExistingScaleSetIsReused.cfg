CONSTANTS
  Process = {p1, p2}
  NoProcess = NoProcess
  SessionCreationMaxRetryCount = 2
SPECIFICATION Faultless
PROPERTY ExistingScaleSetIsReused
CHECK_DEADLOCK FALSE
