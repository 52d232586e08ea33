SPECIFICATION FairSpec
CONSTANTS
  Conn = {c1, c2}
  Remote = {r1, r2}
  Nick = {a}
CHECK_DEADLOCK FALSE
INVARIANTS TypeOK OneFate NoOrphans SafeWalk SharedNick
PROPERTY Reaped
