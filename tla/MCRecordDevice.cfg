SPECIFICATION Spec
CONSTANTS
  Apps = {a1}
  Contexts = {1, 2}
  Streams = {1, 2}
  Pids = {p1, p2}
  Fds = {1, 2}
  Sources = {f1, f2}
  Demuxes = {m1}
  Clone = FALSE
  Faults = {"open", "run", "stop", "allocate"}
  None = None
CHECK_DEADLOCK FALSE
SYMMETRY Symmetry
INVARIANTS DeviceInv NothingLost BufferAsUsed
