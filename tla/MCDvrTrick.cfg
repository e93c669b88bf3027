SPECIFICATION TrickFairSpec
CONSTANTS
  Speeds = {"X1", "X2", "X8", "FB"}
  AudioPids = {0, 1, 2}
  AdPids = {0, 3}
  MaxPlace = 2
  MaxCall = 4
CHECK_DEADLOCK FALSE
INVARIANTS DecoderInv SoundFits
PROPERTIES LivePauses BackEnds
