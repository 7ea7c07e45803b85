SPECIFICATION FairSpec
CONSTANTS
  Client = {c1, c2}
  c1 = c1
  c2 = c2
  Cap = 2
  Room = 2
  WritableRoom = 2
  Lengths = {1, 3}
  MaxMessages = 2
INVARIANT TypeOK
INVARIANT WireWhole
INVARIANT FdWithReply
INVARIANT WakeupArmed
INVARIANT BacklogBounded
PROPERTY OutputDrains
