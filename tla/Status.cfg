CONSTANTS
  Threads = {t1, t2}
  Anomalies <- TrackedHere
  ReportInterval = 2
  MaxMsgPrefixLen = 2
  MaxListItems = 2
  MaxClock = 4
  MaxAnomalies = 3
  MaxTimed = 2
  Loggers = {t1, t2}
  LogCalls <- LoggedHere
  LogPaths <- PathsHere
  OldFiles <- FilesHere
  MaxFileSize = 2
  MaxArchiveSize = 4
  LogPrefixLen = 2
  FirstMs = 3
  MaxMs = 4
  MaxCalls = 3
  MaxFailures = 1
  Topics = {"a"}
  LogIds = {"send"}
  DebugLoggers = {t1, t2}
  LogIdOf <- LogOfLogger
  KillSwitchLimitSeconds = 1
  KillSwitchLimitBytes = 2
  CheckEvery = 2
  MaxVersion = 4
  MaxLogged = 3
  MaxSeconds = 1
  MaxOpenFailures = 1
  WebRequests <- RequestsHere
  Counters = {"c"}
  MaxIncrements = 1
  MaxUpdateRequests = 1
  Numerals <- NumeralsHere
  SizeMax = 1073741823
  AbsolutePaths = {"/p"}
  PortMax = 65535
  Int32Max = 1048575
  IntMax = 1048575
  UnixDgDefault = 212992
  UnixDgLimit = 4194304
  ConfigFiles <- FilesOfDory
  InitialDelay = 2
  MaxDouble = 1
  MinDelay = 1
  TicksPerMs = 2
  MsPerSec = 4
  MaxTicks = 40
  MaxOversleep = 1
SYMMETRY AnyThread
SPECIFICATION StatusSpec
INVARIANTS ReportsListAnomalies LogSpaceIsBounded  
PROPERTIES RetriesBackOff
