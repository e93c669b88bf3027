SPECIFICATION FairSpec
CONSTANTS
  MaxSegment = 2
  MaxDur = 2
  Resume = 1
  MaxEvents = 1
  MaxCall = 3
  Modes = {"timeshift", "recording"}
CHECK_DEADLOCK FALSE
INVARIANTS PlaybackInv ListWhole
PROPERTIES HeldStays GoesOn CallsReturn
