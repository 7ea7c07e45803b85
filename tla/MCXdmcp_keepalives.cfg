SPECIFICATION Spec
CONSTANTS
  Remote = {r1}
  r1 = r1
  Local = {}
  Modes = {"Broadcast"}
  RtxLimit = 3
  KaRtxLimit = 2
  MaxOffer = 1
  MaxAnswers = 2
INVARIANT KeepAlivesUnanswered
CHECK_DEADLOCK FALSE
