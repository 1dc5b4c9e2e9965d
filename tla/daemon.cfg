SPECIFICATION MCSpec
CONSTANTS
  \* SocketServer and DltLogServer
  Files <- MCFiles
  kChannelmaskBits = 4
  Names <- MCNames
  Keys <- MCKeys
  LevelBytes = {5, 7, 255}
  MaxCommands = 3
  MaxRestarts = 1
  Sessions = {s1}
  ForceOutput = FALSE
  \* DltLogChannel
  kUdpMaxPayload = 3
  kVectorCount = 2
  CounterModulus = 3
  Sizes = {1, 3, 4}
  MaxMessages = 3
  MaxReports = 1
  MaxFailures = 1
INVARIANTS
  UsesOnlyLivingObjects
  SwitchIsObeyed
  SessionsFollowSwitch
  StoreRoundTrip
  InOrderExactlyOnce
PROPERTY ResetIsFreshStart
CHECK_DEADLOCK FALSE
