SPECIFICATION ReuseSpec
CONSTANTS
  w1 = w1
  w2 = w2
  Writers = {w1, w2}
  Size = 4
  Lengths <- MixedLengths
  GetLengthOffsetBytes = 1
  GetMaxAcquireLengthBytes = 3
  GetMaxNumberOfConcurrentWriters = 4
  LengthMax = 100
  SwitchCountModulus = 4
  MaxRecords = 2
SYMMETRY WriterSymmetry

INVARIANT WrittenCatchesUp
PROPERTY ImplementsTransport
