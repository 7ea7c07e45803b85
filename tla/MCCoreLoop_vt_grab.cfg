SPECIFICATION Spec
CONSTANTS
  Client = {c1, c2}
  c1 = c1
  c2 = c2
  NoClient = NoClient
  MaxSequence = 3
  Window = 3
  MaxRequests = 1
  Effects = {"plain", "grab"}
  VtSwitching = TRUE
SYMMETRY ClientSymmetry
PROPERTY DispatchedInOrder
