SPECIFICATION FairSpec
CONSTANTS
  e1 = e1
  e2 = e2
  e3 = e3
  e4 = e4
  e5 = e5
  safety = safety
  rate = rate
  breach = breach
  calm = calm
  gap = gap
  alarm = alarm
  x1 = x1
  x2 = x2
  x3 = x3
  x4 = x4
  None = None
  Request = {e1, e2, e3, e4, e5}
  Policies <- MCPolicies
  Safety = safety
  Snapshot = {breach, calm, gap, alarm}
  Measure <- MCMeasure
  SnapshotOf <- MCSnapshotOf
  Prefix = {x1, x2, x3, x4}
  PrefixOf <- MCPrefixOf
  MayDie = {e1}
\* Every request may have been answered.
CHECK_DEADLOCK FALSE
INVARIANTS
  OneEventPerInput
  TransitionsFollowMeasurements
  AnswersAreBacked
PROPERTIES
  ImplementsLifecycle
  EveryRequestEnds
