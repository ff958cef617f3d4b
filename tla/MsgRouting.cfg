SPECIFICATION RoutingSpec
CONSTANTS
  None = None  Unlimited = Unlimited  TsRange = 32
  Topics <- TwoTopics
  PerTopicConfig <- BatchA
  CombinedConfig <- NoBatching
  CombinedTopics <- NoTopics
  RateConf <- LimitA
  DefaultRateConf <- NoLimit
  Msgs = {1, 2}
  Kinds <- ThreeKinds
  Versions <- ThreeVersions
  TopicAutocreate = TRUE
  CompareMetadataOnRefresh = TRUE
  NumAttempts = 2  IntMax = 1  MaxTime = 2  MaxUpdates = 1
INVARIANTS  EachMsgInOnePlace WaitsAtItsBroker PollWakesForBatches 
