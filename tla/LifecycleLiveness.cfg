CONSTANTS
  Process = {p1, p2}
  NoProcess = NoProcess
  SessionCreationMaxRetryCount = 2
SPECIFICATION FairUnkilled
PROPERTIES
  StartEnds
  SignalEndsProcess
CHECK_DEADLOCK FALSE
