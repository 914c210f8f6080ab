SPECIFICATION LibrarySpec
CONSTANTS
  u1 = u1
  u2 = u2
  p1 = p1
  p2 = p2
  r1 = r1
  v = v
  Nobody = Nobody
  Users <- TwoUsers
  Paths <- TwoPaths
  Modes = {"binary", "binary-read"}
  MaxSize = 2
  MaxStreams = 4
  Keys <- ThreeStamps
  Values <- Written
  Readers <- OneReader
  MaxLevel = 2
  MaxNodes = 3
  Names <- TwoNames
  Labels <- OneLabel
  Texts <- SomeTexts
  Loaded <- SomeImages
  Probes <- AllTexts
  MaxCells = 3
  MaxItems = 2
INVARIANTS
  StreamsAreExclusive
  IterationSeesAll
  OneOwner
  TextsAreValues
PROPERTIES
  AnsweredBelowTheLimit
  ListIsAMap
  JsonsAreValues
CHECK_DEADLOCK FALSE
