CONSTANTS
  BufSize = 1024
  WordMod = 65536
  Clients <- AllClients
SPECIFICATION Spec
INVARIANTS TypeOK LengthsFit LineEnds TargetFound FlagsExact VersionFound HostVerdict Routed
CHECK_DEADLOCK FALSE
