CONSTANT MaxMessages = 3
SPECIFICATION FairSpec
INVARIANTS
  ManagerInv
  OrderlyRunsLoseNothing
PROPERTIES
  ImplementsMessageDelivery
  MessageOncePerRun
  MessageIsProcessed
