CONSTANTS
  Proc = {p1, p2}
  Poppers = {p1, p2}
  Item = {a, b, c}
  Null = Null
  VersionMod = 3
SPECIFICATION Spec
SYMMETRY Symmetry
INVARIANTS TypeOK ListShape ChainShape Conservation PopLinkIsCurrent
PROPERTY ImplementsStack
