CONSTANTS
  Size = 3
  MaxSent = 5
SPECIFICATION FairSpec
INVARIANTS TypeOK StreamKept NoLostEdge FirstVerdict RefusalStays
PROPERTY LineAnswered
CHECK_DEADLOCK FALSE
