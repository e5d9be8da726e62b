SPECIFICATION FairSpec
CONSTANTS
  u1 = u1
  u2 = u2
  u3 = u3
  ad = ad
  Users <- ThreeUsers
  Admins = {}
  NoUser = NoUser
  Segments <- MCSegments
  Nodes <- OneFile
  MaxQueue = 3
  MaxUnwind = 1
INVARIANTS
  PendingCountsWriters
PROPERTIES
  WaitersServedInOrder
  WriterServed
  ReaderServed
