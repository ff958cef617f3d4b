SPECIFICATION Spec
CONSTANTS
  MaxBrokers = 1
  Msgs = {m1, m2}
  MaxFailedDeliveryAttempts = 1
  MaxStarts = 3
  CompareMetadataOnRefresh = FALSE
  MaxUpdateRequests = 0
SYMMETRY Symmetry
INVARIANTS ExactlyOnePlace StateMatchesPlace ResentIsRecorded
PROPERTIES DeliverySpec
