SPECIFICATION Spec
CONSTANTS
  Ops = {"plain", "enable", "minor"}
  Short = 1
  Big = 3
  Overlong = 5
  Window = 2
  MaxRequests = 3
INVARIANT FramingAgrees
CHECK_DEADLOCK FALSE
