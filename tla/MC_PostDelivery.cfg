SPECIFICATION Spec
CONSTANTS
  Deliveries = {1, 2}
  NPlugins = 1
  PluginOf <- Alone
  NSlots = 3
  GlobalWorkers = 2
  ClaimBatch = 2
  MaxAttempts = 2
  Threshold = 2
  PluginRows = 2
  GlobalRows = 2
  PluginReceipts = 1
  GlobalReceipts = 1
  MaxVersions = 2
  Aging = {1}
  MaxChanges = 1
  MaxFaults = 2
INVARIANTS TypeOK LedgerExact RowHeldOnce RunsCurrentCode
PROPERTIES BreakerPauses DeliversAtLeastOnce
CHECK_DEADLOCK FALSE
