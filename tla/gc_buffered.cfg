SPECIFICATION WeakSpec
CONSTANTS
  Threads = {t1, t2}
  Nobody = Nobody
  MaxCycle = 2
INVARIANTS StoppedWorld
