SPECIFICATION Spec
CONSTANTS
  d1 = d1
  w1 = w1
  w2 = w2
  f1 = f1
  None = None
  Databases <- OneDatabase
  Tables <- TwoTables
  Fields <- OneField
  Workers <- TwoWorkers
  Old <- TwoTables
  MaxInserts = 3
  MaxRuns = 2
  MaxVersion = 3
INVARIANTS
  MemoryAgreesWithFiles
  DuplicateOnlyByRace
  ShardsArePersistent
  MisusedOnlyAfterDrop
CHECK_DEADLOCK FALSE
