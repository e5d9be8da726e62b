SPECIFICATION Spec
CONSTANTS
  u1 = u1
  u2 = u2
  Users <- MCUsers
  NoUser = NoUser
  Segments <- MCSegments
  Nodes <- MCNodes
  Files <- MCFiles
  DefaultFile <- FileG
  NoFile = NoFile
  MaxQueue = 0
  MaxUnwind = 1
  MaxClicks = 4
  MaxWire = 3
  TypesWhileLoading = FALSE
  AsksAgain = FALSE
SYMMETRY Symmetry
INVARIANTS
  LockViewsConverge
  SettledTabsUpToDate
