SPECIFICATION RelaxedSpec
CONSTANTS
  w1 = w1
  w2 = w2
  Writers = {w1, w2}
  Size = 7
  Lengths <- OneLength
  GetLengthOffsetBytes = 2
  GetMaxAcquireLengthBytes = 1
  GetMaxNumberOfConcurrentWriters = 3
  LengthMax = 100
  SwitchCountModulus = 4
  MaxRecords = 1
INVARIANT ReaderExclusive
