SPECIFICATION Spec
CONSTANTS
  Deliveries = {1, 2}
  NPlugins = 2
  PluginOf <- Each
  NSlots = 3
  GlobalWorkers = 2
  ClaimBatch = 2
  MaxAttempts = 2
  Threshold = 1
  PluginRows = 2
  GlobalRows = 2
  PluginReceipts = 1
  GlobalReceipts = 1
  MaxVersions = 1
  Aging = {}
  MaxChanges = 0
  MaxFaults = 1
PROPERTIES AdmittedIsSettled
CHECK_DEADLOCK FALSE
