\* One job whose provisioning may be retried, two VMs, every step of the
\* services, the tracker, crashes, the termination signal and a second run.
CONSTANTS
  Job = {j1}
  VM = {v1, v2}
  NoVM = NoVM
  MaxRestarts = 1
SPECIFICATION RestartSpec
SYMMETRY Symmetry
INVARIANTS
  IInv
  RunningJobKeepsItsVM
  OwnVMIsAccountedFor
  OwnAttemptsDoNotPileUp
  CanceledJobsAreOver
PROPERTIES
  VMDeletedOnlyWithoutRunner
  ImplementsEphemeralRunner
  EarlierVMsAreSpared
CHECK_DEADLOCK FALSE
