SPECIFICATION Spec
CONSTANTS
  k1 = k1
  j1 = j1
  s1 = s1
  NoShard = NoShard
  NoKey = NoKey
  Fields = {1, 2}
  Shards = {s1}
  Keys = {k1, j1}
  FieldOf <- MCFieldOf
  KeySize <- MCKeySize
  Sizes = {100, 180}
  FileSize = 512
  IndexLimit = 2
  MaxBlocks = 5
INVARIANTS
  FirstFileIsSafe
  FirstMarginIsExact
  CurrentIsReadable
  OneEntryPerBlock
CHECK_DEADLOCK FALSE
