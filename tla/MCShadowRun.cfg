SPECIFICATION FairSpec
CONSTANTS
  q1 = q1
  q2 = q2
  q3 = q3
  q4 = q4
  k1 = k1
  k2 = k2
  ca = ca
  cb = cb
  x1 = x1
  x2 = x2
  d1 = d1
  d2 = d2
  t1 = t1
  t2 = t2
  None = None
  Caller = {q1, q2, q3, q4}
  Key = {k1, k2}
  KeyOf <- MCKeyOf
  Case = {ca, cb}
  CaseOf <- MCCaseOf
  Content = {x1, x2}
  ContentOf <- MCContentOf
  Rank <- MCRank
  Draft = {d1, d2}
  EvidenceTool = {t1, t2}
  Expected <- MCExpected
  MayStop = {q1}
  MayLoseLock = {q1}
INVARIANTS
  ClaimIsExclusive
  LogTellsTheRun
  ResultIsSettled
  NoDeadlock
  RejectionsAreBacked
PROPERTIES
  ImplementsShadowCase
  EveryRequestEnds
  RunCompletes
\* Every request may have been answered.
CHECK_DEADLOCK FALSE
