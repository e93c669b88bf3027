CONSTANTS
  Threads = {t1, t2, t3}
  NoThread = NoThread
  MaxDepth = 3
SPECIFICATION Spec
INVARIANTS MutualExclusion CountIsDepth
PROPERTIES ImplementsRecursiveLock
