CONSTANTS
  Job = {j1}
  VM = {v1}
  NoVM = NoVM
SPECIFICATION FairSpec
PROPERTY OrphanedVMIsDeleted
CHECK_DEADLOCK FALSE
