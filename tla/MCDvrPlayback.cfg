SPECIFICATION FairSpec
CONSTANTS
  MaxSegment = 2
  MaxUnit = 3
  Block = 2
  Cache = 4
  NoDataTime = 1
  MaxWait = 1
  MaxCall = 3
  Missing = {}
  Prompts = {TRUE, FALSE}
  IoErrors = TRUE
CHECK_DEADLOCK FALSE
INVARIANTS PlayerInv PlaysInOrder EndIsTheEnd
PROPERTIES CallsReturn PlaysToEnd
