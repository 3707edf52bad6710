SPECIFICATION FairSpec
CONSTANTS
  sale = sale
  void = void
  adjust = adjust
  Txs = {sale, void}
  Priority <- MCPriority
  StorageCap = 1
  CompletedCap = 1
  MaxRetries = 2
  MaxEnqueue = 2
  RetryBound = 2
  StorageMayFail = TRUE
  Faults = {"network","auth","reload"}
INVARIANTS
  CompletedWasAccepted
  NoSilentLoss
  StorageMirrorsMemory
  QueuesAreBounded
PROPERTIES
  SendsInOrder
  FlushEnds
  ImplementsDurableQueue
CHECK_DEADLOCK FALSE
