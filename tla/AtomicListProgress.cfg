CONSTANTS
  Proc = {p1, p2}
  Poppers = {p1, p2}
  Item = {a, b}
  Null = Null
  VersionMod = 3
SPECIFICATION FairSpec
PROPERTY LockFreedom
