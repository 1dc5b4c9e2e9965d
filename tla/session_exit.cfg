SPECIFICATION Spec
CONSTANTS
  Writers = {w1, w2}
  Capacity = 2
  MaxRecords = 3
  SwitchCountModulus = 4
  TicksWithoutAcquire = 0
  ExitKinds = {"clean", "crash"}
  QuotaEnforcement = FALSE
  OutputMayBeOff = TRUE
CHECK_DEADLOCK FALSE
INVARIANTS DeliveredInOrder BlocksAgree SettledRetrieved
SYMMETRY Threads
