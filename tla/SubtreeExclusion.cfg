SPECIFICATION Spec
CONSTANTS
  u1 = u1
  u2 = u2
  u3 = u3
  ad = ad
  Users <- TwoUsers
  Admins = {}
  NoUser = NoUser
  Segments <- MCSegments
  Nodes <- ShortChain
  MaxQueue = 1
  MaxUnwind = 1
INVARIANTS
  SubtreeExclusion
