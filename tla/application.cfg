SPECIFICATION MCSpec
CONSTANTS
  \* Recorder
  LogThreads = {l1, l2}
  Slots = {s1}
  LogLevels = {4, 6}
  Threshold = 4
  Arguments <- MCArguments
  Capacity = 8
  TypeInfoSize = 2
  LengthSize = 1
  LengthMax = 3
  MaxArgs = 2
  MaxFilePayload = 6
  ReportInterval = 1
  MaxRecords = 2
  MaxTime = 1
  MaxLogs = 3
  \* TypeRegistration
  Threads = {t1, t2}
  T1 = T1
  T2 = T2
  Types = {T1, T2}
  nvconfig_ <- MCDescriptors
  context_log_level <- MCContexts
  Levels = {6}
  BlockSize = 2
  IdModulus = 8
  MaxCalls = 5
  \* SharedMemoryFile
  Processes = {1, 2}
  RingSizes = {3, 7}
  SharedDataSize = 2
  SizeModulus = 8
  MaxFaults = 1
  \* DatarouterMessageClient
  MaxAcquires = 2
INVARIANTS
  PayloadIsWhatWasLogged
  ReportsGrow
  FileIsReadable
  EveryMessageIsKnown
  LossesAreCounted
  ReadersAreSound
  NothingLeftBehind
PROPERTIES
  ContentsArePreserved
  LeftoversDoNotBlock
CHECK_DEADLOCK FALSE
