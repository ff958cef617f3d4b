SPECIFICATION Spec
CONSTANTS
  MaxBrokers = 1
  Msgs = {m1}
  MaxFailedDeliveryAttempts = 1
  MaxStarts = 2
  CompareMetadataOnRefresh = FALSE
  MaxUpdateRequests = 0
PROPERTY
  ShutdownCmdIsKnown
