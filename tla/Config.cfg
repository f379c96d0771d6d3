SPECIFICATION Spec
CONSTANTS
  Listen = Listen
  Twin = Twin
  Near = Near
  Far = Far
  Key = {Listen, Twin, Near, Far}
  Word <- MCWord
  Index = {0, 1}
  Slot <- MCSlot
  HtSize = 2
  Ratio = 1
  Files <- MCFiles
INVARIANTS TypeOK PortIsLast PortFound
CHECK_DEADLOCK FALSE
