SPECIFICATION FairSpec
CONSTANTS
  Conn = {k1, k2}
  k1 = k1
  k2 = k2
  Policy = "reset"
  Effects = {"other", "mode", "kill", "zombies", "quit"}
  MaybeInternal = {k2}
  MaxBase = 2
  MaxGeneration = 1
INVARIANT TypeOK
INVARIANT OneSession
INVARIANT BasesDistinct
INVARIANT DrainExact
INVARIANT OldSessionCut
PROPERTY OldConnectionsEnd
CHECK_DEADLOCK FALSE
