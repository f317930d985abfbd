SPECIFICATION Spec
CONSTANTS
  i1 = i1
  i2 = i2
  a1 = a1
  a2 = a2
  e1 = e1
  e2 = e2
  r1 = r1
  ca = ca
  cb = cb
  x1 = x1
  x2 = x2
  w1 = w1
  w2 = w2
  None = None
  Importer = {i1, i2}
  Acceptor = {a1, a2}
  Excluder = {e1, e2}
  Reporter = {r1}
  Case = {ca, cb}
  Content = {x1, x2}
  Document <- MCDocument
  Target <- MCTarget
  Reason = {w1, w2}
  ReasonOf <- MCReasonOf
  Synthetic = {cb}
  MayStop = {i1, e1}
INVARIANTS
  ImportsAreTraced
  DecisionsStand
  LocksFollowTheWork
PROPERTIES
  ReportsAreSound
\* Every call may have ended.
CHECK_DEADLOCK FALSE
