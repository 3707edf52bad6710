SPECIFICATION Spec
CONSTANTS
  sale = sale
  void = void
  adjust = adjust
  Txs = {sale, adjust}
  Priority <- MCPriority
  StorageCap = 2
  CompletedCap = 1
  MaxRetries = 2
  MaxEnqueue = 2
  RetryBound = 2
  StorageMayFail = FALSE
  Faults = {"auth"}
INVARIANT NothingProcessingWhenIdle
CHECK_DEADLOCK FALSE
