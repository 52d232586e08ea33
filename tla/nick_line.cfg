SPECIFICATION Spec
CONSTANTS
  S1 = S1
  S2 = S2
  S3 = S3
  u1 = u1
  u2 = u2
  a = a
  b = b
  Server = {S1, S2, S3}
  Links <- Line
  User = {u1, u2}
  Home <- HomeOfLine
  Ident <- DistinctIdent
  Nick = {a, b}
  SaveCap = {S1, S2, S3}
  CollisionFnc = TRUE
  NickDelay = FALSE
  Oper = {u1}
  Skew <- NoSkew
  SameSecond = FALSE
  MaxNow = 2
  MaxRename = 1
  MaxSplit = 1
  MaxKill = 1
  MaxActs = 2
CHECK_DEADLOCK FALSE
INVARIANTS KnowsItsSide NoDuplicateIntro AgreementUnbroken
PROPERTY SaveDeserved
