SPECIFICATION Spec
CONSTANTS
  S1 = S1
  S2 = S2
  S3 = S3
  u1 = u1
  u2 = u2
  u3 = u3
  Server = {S1, S2, S3}
  Links <- Line
  User = {u1, u2, u3}
  Home <- HomeOfLine
  Created <- NewModes
  Change <- LineChanges
  MaxNow = 2
  MaxActs = 3
  MaxPart = 0
  MaxKick = 0
  MaxKill = 0
  MaxSplit = 0
CHECK_DEADLOCK FALSE
INVARIANTS SameWhileNobodyLeaves SameBans
