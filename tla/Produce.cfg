CONSTANTS
  NameLength <- NameLengthHere
  FrameOverhead = 4
  ClientId = 71
  ReplicationTimeout = 10
  ProduceRequestDataLimit = 12
  MessageMaxBytes = 70
  SizeThresholdPercent = 75
  TopicConfigs <- TopicConfigsHere
  DefaultTopicConfig <- DefaultTopicConfigHere
  MaxFailedDeliveryAttempts = 1
  Clients = {1, 2, 3, 4, 5}
  CmdClients = {9}
  PortOffset <- PortOffsetHere
  PeerAddress <- PeerAddressHere
  Setup <- SetupHere
  BodyContains <- ContainsHere
  HostName = 82
  PhysPort <- PhysPortHere
  NextClient <- NextClientHere
  FirstClient = 3
  MaxInFlight = 2
  PartitionChoices <- ChoicesHere
  InPortMax = 12
  MaxResends = 1
  InjectedCmds <- CmdsHere
SPECIFICATION ProduceSpec
INVARIANTS ServerReadsWhatWasSent RequestsObeyLimits AcksAreObeyed 
PROPERTIES AllSettled
