\* Any process may die at any step: an intent settles or is stranded.
SPECIFICATION FairSpec
CONSTANTS
  p1 = p1
  p2 = p2
  w1 = w1
  w2 = w2
  Nobody = Nobody
  Process = {p1, p2}
  WorkerId = {w1, w2}
  Id <- OwnId
  Row = {1}
  BatchSize = 1
  Budgets = {1, 2}
  Additional = {1}
  AttemptCeiling = 3
  Answers = {"2xx", "4xx", "5xx", "6xx", "timeout", "connection_error", "transport_error"}
  MayCrash = {p1, p2}
CHECK_DEADLOCK FALSE
INVARIANTS
  OpenIntentsAreInReach
PROPERTIES
  EveryIntentSettlesOrIsStranded
