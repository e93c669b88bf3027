SPECIFICATION Spec
CONSTANTS
  MaxSegment = 2
  MaxDur = 2
  Resume = 1
  MaxEvents = 1
  MaxCall = 3
  Modes = {"plain"}
INVARIANTS LocksGivenBack
CHECK_DEADLOCK FALSE
