SPECIFICATION Spec
CONSTANTS
  a = a
  b = b
  x = x
  hub = hub
  p6667 = p6667
  net = net
  Client = {u1, u2}
  Local = {u1, u2}
  Remote = {r1}
  Server = {s1}
  ClassName = {a}
  Auth = {b, x}
  Exempt = {x}
  Link = {hub}
  Port = {p6667}
  Net = {net}
  NetOf <- OneNet
  Configs <- MCConfigs
  MaxRehash = 2
  Nick = {n1, n2}
  Ring = 2
  MaxMonitor = 1
  MaxAccept = 2
  MaxActs = 2
CHECK_DEADLOCK FALSE
INVARIANT LinksKeepTheirClass
