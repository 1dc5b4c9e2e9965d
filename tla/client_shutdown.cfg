SPECIFICATION FairClientSpec
CONSTANTS
  MaxAcquires = 2
PROPERTY ShutdownReturns
CHECK_DEADLOCK FALSE
