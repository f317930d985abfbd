\* Two rows that may share a batch, two processes under one worker id.
SPECIFICATION Spec
CONSTANTS
  p1 = p1
  p2 = p2
  w1 = w1
  w2 = w2
  Nobody = Nobody
  Process = {p1, p2}
  WorkerId = {w1, w2}
  Id <- SharedId
  Row = {1, 2}
  BatchSize = 2
  Budgets = {2}
  Additional = {2}
  AttemptCeiling = 3
  Answers = {"2xx", "4xx", "timeout"}
  MayCrash = {p1}
\* Every row may be settled and nothing be left to do.
CHECK_DEADLOCK FALSE
INVARIANTS
  TypeOK
  SoleRecorder
  EgressBounded
  DeliveredWasAccepted
  EvidenceAgrees
  LedgerAgrees
PROPERTIES
  GuardsNeverReject
  ImplementsIntent
