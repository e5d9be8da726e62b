SPECIFICATION Spec
CONSTANTS
  u1 = u1
  u2 = u2
  f1 = f1
  Files <- OneFile
  Users <- TwoUsers
  NoUser = NoUser
  CR = "CR"
  LF = "LF"
  Inserts <- Words
  Texts <- ShortTexts
  Positions <- Around
  MaxLength = 5
INVARIANTS
  TypeOK
  ReloadKeepsLines
  LineEditsAreTextEdits
PROPERTIES
  ImplementsFlatText
