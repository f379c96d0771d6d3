CONSTANTS
  BufSize = 1024
  WordMod = 65536
  Clients <- PathClients
SPECIFICATION Spec
INVARIANT ComplexAsDocumented
CHECK_DEADLOCK FALSE
