SPECIFICATION Spec
CONSTANTS
  Client = {c1, c2}
  c1 = c1
  c2 = c2
  NoClient = NoClient
  MaxSequence = 2
  Window = 2
  MaxRequests = 1
  Effects = {"plain", "pending", "await"}
  VtSwitching = TRUE
SYMMETRY ClientSymmetry
INVARIANT RequestsInOrder
INVARIANT CreditConserved
PROPERTY DispatchedInOrder
