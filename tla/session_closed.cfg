SPECIFICATION FairSpec
CONSTANTS
  Writers = {w1}
  Capacity = 1
  MaxRecords = 2
  SwitchCountModulus = 4
  TicksWithoutAcquire = 0
  ExitKinds = {"clean", "crash"}
  QuotaEnforcement = TRUE
  OutputMayBeOff = TRUE
CHECK_DEADLOCK FALSE
PROPERTIES EventuallyPostMortem
