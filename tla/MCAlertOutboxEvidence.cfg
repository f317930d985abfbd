\* One event per HTTP attempt, with attempts whose lease is lost.
SPECIFICATION Spec
CONSTANTS
  p1 = p1
  p2 = p2
  w1 = w1
  w2 = w2
  Nobody = Nobody
  Process = {p1, p2}
  WorkerId = {w1, w2}
  Id <- OwnId
  Row = {1}
  BatchSize = 1
  Budgets = {2}
  Additional = {1}
  AttemptCeiling = 2
  Answers = {"2xx", "5xx", "timeout"}
  MayCrash = {p1}
CHECK_DEADLOCK FALSE
INVARIANTS
  OneEventPerRequest
