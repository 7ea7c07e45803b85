SPECIFICATION Spec
CONSTANTS
  Remote = {r1}
  r1 = r1
  Local = {}
  Modes = {"Broadcast"}
  RtxLimit = 3
  KaRtxLimit = 2
  MaxOffer = 2
  MaxAnswers = 4
INVARIANT OwnOfferOnly
CHECK_DEADLOCK FALSE
