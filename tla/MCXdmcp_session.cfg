SPECIFICATION FairSpec
CONSTANTS
  Remote = {r1}
  r1 = r1
  Local = {l1}
  l1 = l1
  Modes = {"Query"}
  RtxLimit = 3
  KaRtxLimit = 2
  MaxOffer = 2
  MaxAnswers = 4
INVARIANT TypeOK
INVARIANT CookieOfOffer
INVARIANT RemoteInSession
INVARIANT SessionHasClient
INVARIANT TimerArmed
INVARIANT KeepAlivesCounted
PROPERTY OnceEnds
CHECK_DEADLOCK FALSE
