SPECIFICATION FairSpec
CONSTANTS
  u1 = u1
  u2 = u2
  Users <- TwoUsers
  NoUser = NoUser
  ErrorText = ErrorText
  Segments <- MCSegments
  Nodes <- FileInFolder
  SessionIds = {"alpha"}
  Names <- TypedNames
  session = "alpha"
  TIMEOUT_MINUTES = 0
  PerMinute = 2
  NoTree = NoTree
  MaxInputs = 2
INVARIANTS
  TypeOK
  TreeViewsConverge
  AnswersOwnProgram
  StaleSessionsGo
PROPERTIES
  ShutdownEnds
  RequestsHandled
CHECK_DEADLOCK FALSE
