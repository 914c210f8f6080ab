SPECIFICATION Spec
CONSTANTS
  w1 = w1
  w2 = w2
  f1 = f1
  l1 = l1
  s1 = s1
  p1 = p1
  p2 = p2
  p3 = p3
  NoPoint = NoPoint
  NoJob = NoJob
  NoField = NoField
  NoShard = NoShard
  NoList = NoList
  Bare = Bare
  Workers <- TwoWorkers
  Fields <- OneField
  Lists <- OneList
  FieldOf <- OneFieldOf
  Shards <- OneShard
  ShardOf <- OneShardOf
  Points <- TwoPoints
  ListOf <- OneListOf
  TimeOf <- OneTimeOf
  BlockLimit = 2
  IndexLimit = 2
SYMMETRY Symmetry
INVARIANTS
  PointInOnePlace
  ResetMeansEmpty
  EntryForEveryBlock
PROPERTIES
  OnlyRemovalStrands
CHECK_DEADLOCK FALSE
