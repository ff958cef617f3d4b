\* Safety and liveness of the queue and its two threads.
CONSTANTS
  None = None
  TsRange = 4
  Topics <- MCTopics
  PerTopicConfig <- MCPerTopicConfig
  CombinedConfig <- MCCombinedConfig
  CombinedTopics <- MCCombinedTopics
  MsgShapes <- MCMsgShapes
  NowShapes <- MCNowShapes
  MaxMsgs = 3
  MaxNow = 3
SPECIFICATION FairSpec
INVARIANTS NoLostWakeup BatchesWithinLimits
PROPERTIES NothingDueIsLeft FifoSpec EveryMsgLeaves
