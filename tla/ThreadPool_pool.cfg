SPECIFICATION FairSpec
CONSTANTS
  w1 = w1
  w2 = w2
  w3 = w3
  c1 = c1
  c2 = c2
  t1 = t1
  t2 = t2
  t3 = t3
  NoTask = NoTask
  Workers <- ThreeWorkers
  Callers <- TwoCallers
  Tasks <- ThreeTasks
INVARIANTS
  TaskAccounted
  NoLostWakeup
  JoinedMeansDrained
PROPERTIES
  PoolFinishes
  RefinesLedger
CHECK_DEADLOCK FALSE
