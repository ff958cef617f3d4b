SPECIFICATION Spec
CONSTANTS
  Depth = 2
  InitialBrokers <- Known
  Responses <- AnswersTo
  NewTopic <- TheNewTopic
  NameLength <- LengthOf
  Host <- HostOf
  Port <- PortOf
  ReadSizes <- Amounts
  ReadSize = 160  MaxFetches = 2  MaxBody = 156
INVARIANTS MetadataSaysWhatResponseSaid ComparisonIsExact MsgsFindPartitions
