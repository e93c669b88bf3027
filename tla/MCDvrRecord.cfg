SPECIFICATION FairSpec
CONSTANTS
  MaxSegment = 2
  MaxBlock = 4
  MaxThread = 2
  MaxCall = 3
  Guard = 3
  Faults = {"open", "device", "store", "write"}
  LateNext = {FALSE, TRUE}
CHECK_DEADLOCK FALSE
INVARIANTS RecordInv NoBlockLost
PROPERTIES NoSegmentLeaked JoinReturns
