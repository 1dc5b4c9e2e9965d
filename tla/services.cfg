SPECIFICATION MCSpec
CONSTANTS
  \* UnixDomainServer
  Clients = {c1, c2}
  Fds = {1, 2}
  MaxTexts = 2
  SessionTick = FALSE
  \* FileTransfer
  FileNames = {f1, f2}
  FileSizes = {0, 3, 5}
  kBufferSize = 2
  SizeModulus = 4
  MaxRequests = 2
  MaxChanges = 1
INVARIANTS
  QueueMatchesFlags
  EveryCommandAnswered
  EndIsComplete
  AnsweredOnceInOrder
PROPERTIES
  ReleasesDescriptors
  RequestsAreServed
CHECK_DEADLOCK FALSE
