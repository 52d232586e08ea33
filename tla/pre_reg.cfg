SPECIFICATION FairSpec
CONSTANTS
  Conn = {c1, c2}
  Black = {b1}
  V6 = {c2}
  Retries = 2
  PingCookie = TRUE
  Configs <- MCConfigs
  MaxOthers = 2
CHECK_DEADLOCK FALSE
INVARIANTS TypeOK RequestsOwned BlackRefs LoopSafe
PROPERTIES GateSpec LookupsEnd
