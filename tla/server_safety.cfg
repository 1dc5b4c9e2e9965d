SPECIFICATION Spec
CONSTANTS
  Pids = {"p1", "p2"}
  Connections = {1, 2}
  ClientPid <- TwoClients
  Hanging = {}
  Exiting = {1, 2}
  NotifyResults = {"ok", "ENOBUFS"}
  FactoryMayFail = FALSE
  MayShutDown = FALSE
  OutputMayBeOff = TRUE
  MaxMisses = 1
  TicksWithoutAcquire = 0
CHECK_DEADLOCK FALSE
INVARIANTS QueueConsistent OneAcquisition NoLockCycle
PROPERTY PostMortemRead
