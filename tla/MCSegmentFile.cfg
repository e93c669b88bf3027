SPECIFICATION FilesSpec
CONSTANTS
  MaxId = 2
  MaxSession = 3
  MaxCrash = 2
  WipeCrash = FALSE
  None = None
CHECK_DEADLOCK FALSE
INVARIANTS FilesInv PlaybackHasAll
PROPERTIES AppendKeeps
