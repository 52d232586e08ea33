SPECIFICATION Spec
CONSTANTS
  S1 = S1
  S2 = S2
  S3 = S3
  u1 = u1
  u2 = u2
  a = a
  b = b
  Server = {S1, S2}
  Links <- Pair
  User = {u1, u2}
  Home <- HomeOfPair
  Ident <- DistinctIdent
  Nick = {a, b}
  SaveCap = {S1, S2}
  CollisionFnc = TRUE
  NickDelay = FALSE
  Oper = {}
  Skew <- NoSkew
  SameSecond = TRUE
  MaxNow = 2
  MaxRename = 1
  MaxSplit = 0
  MaxKill = 0
  MaxActs = 9
CHECK_DEADLOCK FALSE
INVARIANT Agreement
