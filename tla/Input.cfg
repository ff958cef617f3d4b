SPECIFICATION MCSpec
CONSTANTS
  NameLength <- NameLengthMC
  MaxInt16 = 3
  MaxInt32 = 40
  MaxBuffer = 12
  PoolBlockSize = 4
  PointerSize = 2
  Clients = {"d", "s"}
  ArgsOf <- ArgsOfMC
  MaxDatagramMsgSize = 36
  MaxStreamMsgSize = 32
  ReadSize = 35
  DgQueueLength = 1
  ChunkSizes = {20}
  Socks = {1, 2}
  TmpNames = {"x", "y"}
  Fds = {3, 4, 5, 6}
  Inputs <- InputsMC
  MaxQueued = 1
  MaxSignals = 2
INVARIANTS MsgsArriveUnchanged BlocksInOneChain SocketsOwnWhatExists NothingLeftBehind
PROPERTIES TermEndsServer 
