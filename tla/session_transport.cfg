SPECIFICATION FairSpec
CONSTANTS
  Writers = {w1, w2}
  Capacity = 1
  MaxRecords = 3
  SwitchCountModulus = 2
  TicksWithoutAcquire = 1
  ExitKinds = {}
  QuotaEnforcement = FALSE
  OutputMayBeOff = FALSE
PROPERTIES ImplementsTransport EventuallyDelivered
