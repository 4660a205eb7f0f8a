SPECIFICATION FairSpec
CONSTANTS
  u1 = u1
  u2 = u2
  m1 = m1
  m2 = m2
  w1 = w1
  w2 = w2
  None = None
  Apps <- MCApps
  Managers <- MCManagers
  Workers <- MCWorkers
  Window = 1
  RestartLimit = 2
  MaxFaults = 1
INVARIANTS SingleOperator StopWins
PROPERTIES StopEndsTrading DisabledReachesWorker
CHECK_DEADLOCK FALSE
