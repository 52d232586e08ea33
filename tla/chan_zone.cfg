SPECIFICATION Spec
CONSTANTS
  S1 = S1
  S2 = S2
  S3 = S3
  u1 = u1
  u2 = u2
  u3 = u3
  Server = {S1, S2}
  Links <- Pair
  User = {u1, u2}
  Home <- HomeOfPair
  Created <- NewModes
  Change <- OnlyOp
  MaxNow = 2
  MaxActs = 2
  MaxPart = 1
  MaxKick = 0
  MaxKill = 0
  MaxSplit = 0
CHECK_DEADLOCK FALSE
INVARIANT SameFinalState
