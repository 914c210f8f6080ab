SPECIFICATION ReplSpec
CONSTANTS
  Lines <- LinesAndConditions
  Parsed <- ParsedLines
  StreamLimit = 2
  MaxLines = 3
INVARIANTS
  PlanReachesEngines
  UsualLineSurvives
  ConditionIsGrouped
CHECK_DEADLOCK FALSE
