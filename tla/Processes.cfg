CONSTANTS
  Launches = 2
  Sent = {"TERM", "USR1"}
  MaxSent = 2
  MaxKills = 1
SPECIFICATION Spec
INVARIANTS TypeOK OneServer NameBound
PROPERTIES WorkerKeepsPort FlagWakes
CHECK_DEADLOCK FALSE
