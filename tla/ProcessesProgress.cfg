CONSTANTS
  Launches = 2
  Sent = {"INT", "USR1", "USR2"}
  MaxSent = 1
  MaxKills = 1
SPECIFICATION Spec
PROPERTIES SignalsServed ComesUp
CHECK_DEADLOCK FALSE
