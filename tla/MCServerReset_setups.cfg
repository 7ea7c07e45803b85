SPECIFICATION FairSpec
CONSTANTS
  Conn = {k1, k2}
  k1 = k1
  k2 = k2
  Policy = "reset"
  Effects = {}
  MaybeInternal = {}
  MaxBase = 2
  MaxGeneration = 1
PROPERTY OldSetupsEnd
CHECK_DEADLOCK FALSE
