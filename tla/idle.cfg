SPECIFICATION FairSpec
CONSTANTS
  Tasks = {m, t1, t2, t3}
  Main = m
  Nobody = Nobody
  MaxWaits = 4
INVARIANTS NoStrandedIdler
PROPERTIES IdleMeansIdle 
CHECK_DEADLOCK FALSE
