SPECIFICATION FairSpec
CONSTANTS
  u1 = u1
  u2 = u2
  adm = adm
  Users <- WithAdmin
  Admins <- AdminOnly
  NoUser = NoUser
  Segments <- MCSegments
  Nodes <- Chain
  MaxQueue = 3
  MaxUnwind = 1
  Asked <- Ends
  Batches <- ChainBatches
  Operations <- AllOperations
  MaxCalls = 3
  MaxMade = 2
INVARIANTS
  TypeOK
  GrantLastsUntilAnswered
  StuckOnlyUnderWalk
PROPERTIES
  CallsReturn
  ImplementsRWLocks
CHECK_DEADLOCK FALSE
