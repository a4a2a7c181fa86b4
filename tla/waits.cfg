SPECIFICATION MCSpec
CONSTANTS
  Slots = {s1, s2, s3}
  Null = Null
  MayDropLock = FALSE
  MaxCalls = 5
  Main = m
  JoinTasks = {m, t1, t2}
  Joins = {j1, j2, j3}
  NoTask = NoTask
  NoJoin = NoJoin
  SharedHandles = FALSE
  DnsTasks = {t1, t2}
  NumJobs = 2
  NumPipes = 2
  MaxRecords = 2
  None = None
INVARIANTS MutualExclusion PanicReachesItsJoin   NoStrandedJoiner JobHasOneOwner EndsAreOwned SlotsBalance
PROPERTIES  LockMovesOn WaiterReturns LookupEnds
CHECK_DEADLOCK FALSE
