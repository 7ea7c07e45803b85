SPECIFICATION FairSpec
CONSTANTS
  Client = {c1, c2}
  c1 = c1
  c2 = c2
  Value = {v1, v2}
  v1 = v1
  v2 = v2
  Bad = Bad
  NoClient = NoClient
  MaxAsked = 3
  MaxRelease = 1
  MaxReset = 1
INVARIANT TypeOK
INVARIANT OneAnswer
INVARIANT ResultsMatched
INVARIANT ConfigAgrees
PROPERTY BlockedEnds
CHECK_DEADLOCK FALSE
