SPECIFICATION Spec
CONSTANTS
  u1 = u1
  u2 = u2
  Users <- MCUsers
  NoUser = NoUser
  Segments <- MCSegments
  Nodes <- OneFileNodes
  Files <- OneFile
  DefaultFile <- FileG
  NoFile = NoFile
  MaxQueue = 0
  MaxUnwind = 1
  MaxClicks = 5
  MaxWire = 4
  TypesWhileLoading = FALSE
  AsksAgain = TRUE
SYMMETRY Symmetry
PROPERTIES
  NoLostUpdate
