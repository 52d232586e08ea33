SPECIFICATION Spec
CONSTANTS
  Conn = {c1, c2}
  Black = {b1}
  V6 = {}
  Retries = 1
  PingCookie = FALSE
  Configs <- MCConfigs
  MaxOthers = 1
CHECK_DEADLOCK FALSE
INVARIANT LoopKept
