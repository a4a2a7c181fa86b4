SPECIFICATION FairSpec
CONSTANTS
  t1 = t1
  t2 = t2
  t3 = t3
  t4 = t4
  c1 = c1
  c2 = c2
  v1 = v1
  v2 = v2
  Empty = Empty
  Tasks = {t1, t2, t3}
  Chans = {c1, c2}
  Values = {v1, v2}
  Programs <- AllPrograms
CHECK_DEADLOCK FALSE
INVARIANTS NodesLive ParkedSelectIsReachable NoStrandedWaiter
PROPERTIES CallsTakeEffectOnce 
