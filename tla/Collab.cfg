SPECIFICATION Spec
CONSTANTS
  u1 = u1
  u2 = u2
  Users <- MCUsers
  NoUser = NoUser
  Segments <- MCSegments
  Nodes <- OneFileNodes
  Files <- OneFile
  DefaultFile <- FileG
  NoFile = NoFile
  MaxQueue = 0
  MaxUnwind = 1
  MaxClicks = 5
  MaxWire = 5
  TypesWhileLoading = FALSE
  AsksAgain = FALSE
SYMMETRY Symmetry
INVARIANTS
  TypeOK
  OwnersAreConnected
  LockViewsConverge
  SettledTabsUpToDate
PROPERTIES
  NoLostUpdate
  OwnersAreToldBeforeEdits
