\* No process dies and every answer can be stored: every intent settles.
SPECIFICATION FairSpec
CONSTANTS
  p1 = p1
  p2 = p2
  w1 = w1
  w2 = w2
  Nobody = Nobody
  Process = {p1, p2}
  WorkerId = {w1, w2}
  Id <- OwnId
  Row = {1, 2}
  BatchSize = 2
  Budgets = {1, 2}
  Additional = {1}
  AttemptCeiling = 2
  Answers = {"2xx", "4xx", "timeout"}
  MayCrash = {}
CHECK_DEADLOCK FALSE
PROPERTIES
  EveryIntentSettles
