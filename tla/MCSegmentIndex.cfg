SPECIFICATION Spec
CONSTANTS
  Pts <- PtsRange
  BlockSizes = {1, 3}
  AlignSizes = {0, 2}
  Times = {0, 2, 5}
  Interval = 1
  Jump = 3
  Threshold = 5
  MaxSize = 4
  MaxUpdate = 3
  Unset = Unset
CHECK_DEADLOCK FALSE
INVARIANTS IInv IndexReads
PROPERTIES ToldTimeStays
