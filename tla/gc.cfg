SPECIFICATION FairSpec
CONSTANTS
  Threads = {t1, t2, t3}
  Nobody = Nobody
  MaxCycle = 1
INVARIANTS StoppedWorld OneCollector SnapshotAlive StopIsServed SleeperHasAcked
PROPERTIES PauseEnds
