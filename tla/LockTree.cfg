SPECIFICATION Spec
CONSTANTS
  u1 = u1
  u2 = u2
  u3 = u3
  ad = ad
  Users <- UsersAndAdmin
  Admins <- OneAdmin
  NoUser = NoUser
  Segments <- MCSegments
  Nodes <- Chain
  MaxQueue = 1
  MaxUnwind = 1
SYMMETRY Symmetry
INVARIANTS
  TypeOK
  OwnershipCoherent
  PendingCountsWriters
  NoWaiterAtFreeNode
  ReleaseOrderIrrelevant
  DisconnectLeavesOnlyPromotions
PROPERTIES
  WritersNotOvertaken
  ImplementsRWLocks
