SPECIFICATION Spec
CONSTANTS
  SegmentSize = 2
  MaxSize = 4
  MaxTime = 4
  MaxSegment = 3
  Ahead = 2
  MaxEvents = 1
  MaxCall = 3
CHECK_DEADLOCK FALSE
INVARIANTS TimeshiftInv NoShortSegment OneSegmentStays PlaylistFollows
