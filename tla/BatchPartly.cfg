SPECIFICATION Spec
CONSTANTS
  u1 = u1
  u2 = u2
  adm = adm
  Users <- TwoUsers
  Admins = {}
  NoUser = NoUser
  Segments <- MCSegments
  Nodes <- Siblings
  MaxQueue = 2
  MaxUnwind = 1
  Asked <- Both
  Batches <- SiblingBatches
  Operations = {"acquire", "batch"}
  MaxCalls = 2
  MaxMade = 2
PROPERTIES
  BatchAllOrNothing
CHECK_DEADLOCK FALSE
