SPECIFICATION FairSpec
CONSTANTS
  S1 = S1
  S2 = S2
  S3 = S3
  u1 = u1
  u2 = u2
  a = a
  b = b
  Server = {S1, S2}
  Links <- Pair
  User = {u1, u2}
  Home <- HomeOfPair
  Ident <- SameIdent
  Nick = {a, b}
  SaveCap = {S1}
  CollisionFnc = TRUE
  NickDelay = TRUE
  Oper = {}
  Skew <- OneAhead
  SameSecond = FALSE
  MaxNow = 2
  MaxRename = 2
  MaxSplit = 1
  MaxKill = 0
  MaxActs = 3
CHECK_DEADLOCK FALSE
INVARIANTS TypeOK NickUnique HeldNotDelayed Agreement
PROPERTIES SaveDeserved KillDeserved ClashResolved Drains
