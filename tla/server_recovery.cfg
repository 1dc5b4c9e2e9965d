SPECIFICATION FairSpec
CONSTANTS
  Pids = {"p1"}
  Connections = {1, 2}
  ClientPid <- Reconnect
  Hanging = {1}
  Exiting = {1, 2}
  NotifyResults = {"ok", "error"}
  FactoryMayFail = TRUE
  MayShutDown = TRUE
  OutputMayBeOff = FALSE
  MaxMisses = 2
  TicksWithoutAcquire = 1
CHECK_DEADLOCK FALSE
INVARIANT ConnectionOpen
PROPERTIES KeepsAcquiring MarkedIsRemoved ShutdownEnds
