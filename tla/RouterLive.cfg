SPECIFICATION FairSpec
CONSTANTS
  MaxBrokers = 2
  Msgs = {m1}
  MaxFailedDeliveryAttempts = 1
  MaxStarts = 2
  CompareMetadataOnRefresh = FALSE
  MaxUpdateRequests = 0
PROPERTIES
  ShutdownCompletes
  PauseIsHandled
CHECK_DEADLOCK FALSE
