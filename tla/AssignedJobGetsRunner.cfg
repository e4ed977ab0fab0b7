CONSTANTS
  Job = {j1, j2}
  VM = {v1}
  NoVM = NoVM
SPECIFICATION FairBetweenTicks
PROPERTY AssignedJobGetsRunner
CHECK_DEADLOCK FALSE
