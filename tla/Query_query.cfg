SPECIFICATION FairSpec
CONSTANTS
  q1 = q1
  q2 = q2
  f1 = f1
  f2 = f2
  Nobody = Nobody
  Queries <- TwoQueries
  Series <- TwoSeries
  TagsOf <- SeriesTags
  Fields <- TwoFields
  Points <- SomePoints
  Trees <- SomeTrees
  Pasts <- SomePasts
  Day = 2
  MaxSize = 2
  MaxChanges = 1
INVARIANTS
  RowsWereFlushed
  AnswerIsExact
PROPERTIES
  EveryQueryEnds
CHECK_DEADLOCK FALSE
