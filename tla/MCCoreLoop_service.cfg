SPECIFICATION FairSpec
CONSTANTS
  Client = {c1, c2}
  c1 = c1
  c2 = c2
  NoClient = NoClient
  MaxSequence = 2
  Window = 2
  MaxRequests = 1
  Effects = {"grab", "pending", "quit", "kill"}
  VtSwitching = FALSE
INVARIANT TypeOK
INVARIANT RingExact
INVARIANT RequestsInOrder
INVARIANT CreditConserved
INVARIANT NoOrphanWaiters
PROPERTY ImplementsService
PROPERTY EveryoneServed
PROPERTY WaitersFreed
