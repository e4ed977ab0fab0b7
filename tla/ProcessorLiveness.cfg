\* One job and one VM over two runs, under the fairness of the goroutines and
\* the services.
CONSTANTS
  Job = {j1}
  VM = {v1}
  NoVM = NoVM
  MaxRestarts = 1
SPECIFICATION FairRestartSpec
PROPERTIES
  CanceledJobStopsProvisioning
  CanceledRunnerIsCleanedUp
  TrackerForgetsDeletedVM
  OrphanedVMIsReclaimed
  AvailableJobIsAcquired
CHECK_DEADLOCK FALSE
