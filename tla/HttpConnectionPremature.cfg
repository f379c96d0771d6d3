CONSTANTS
  Size = 3
  MaxSent = 5
SPECIFICATION Spec
INVARIANT PrematureMeansClosed
CHECK_DEADLOCK FALSE
