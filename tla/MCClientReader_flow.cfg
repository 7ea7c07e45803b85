SPECIFICATION FairSpec
CONSTANTS
  Ops = {"plain", "enable", "minor"}
  Short = 1
  Big = 3
  Overlong = 5
  Window = 2
  MaxRequests = 4
INVARIANT TypeOK
INVARIANT BytesConserved
INVARIANT ReadAheadBounded
PROPERTY BarrierEnds
PROPERTY ReaderEnds
CHECK_DEADLOCK FALSE
