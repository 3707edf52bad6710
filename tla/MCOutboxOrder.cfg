SPECIFICATION Spec
CONSTANTS
  sale = sale
  void = void
  adjust = adjust
  Txs = {sale, adjust}
  Priority <- MCPriority
  StorageCap = 1
  CompletedCap = 1
  MaxRetries = 2
  MaxEnqueue = 3
  RetryBound = 2
  StorageMayFail = FALSE
  Faults = {"server", "schema", "user", "reload"}
INVARIANTS
  TypeOK
  StorageMirrorsMemory
  ProcessingIsInFlight
PROPERTIES
  NoOvertakingAFailure
  SendsOnlyOpenRecords
CHECK_DEADLOCK FALSE
