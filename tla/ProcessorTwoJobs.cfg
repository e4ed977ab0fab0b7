\* Two jobs that share the runners, between two ticks of the tracker.
CONSTANTS
  Job = {j1, j2}
  VM = {v1, v2}
  NoVM = NoVM
SPECIFICATION BetweenTicks
SYMMETRY Symmetry
INVARIANTS
  AccountInv
  RunningJobKeepsItsVM
  AttemptsDoNotPileUp
CHECK_DEADLOCK FALSE
