SPECIFICATION Spec
CONSTANTS
  MaxBrokers = 2
  Msgs = {m1}
  MaxFailedDeliveryAttempts = 1
  MaxStarts = 2
  CompareMetadataOnRefresh = TRUE
  MaxUpdateRequests = 1
CHECK_DEADLOCK FALSE
INVARIANTS ShutdownFinishedIsExact NoSilentExit
