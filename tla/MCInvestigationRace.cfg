SPECIFICATION Spec
CONSTANTS
  c1 = c1
  c2 = c2
  c3 = c3
  k1 = k1
  x1 = x1
  x2 = x2
  r1 = r1
  r2 = r2
  r3 = r3
  None = None
  d1 = d1
  d2 = d2
  Caller = {c1, c2, c3}
  Key = {k1}
  KeyOf <- MCKeyOf
  Payload = {x1, x2}
  PayloadOf <- MCPayloadOf
  Mode = {"human_review"}
  Draft = {d1}
  ReviewCall = {}
  ActorOf <- MCActorOf
  MayDie = {c1}
  MayLoseLock = {c1}
INVARIANTS
  AuditReplays
  ToolsCalledOnce
  OneRunPerKey
  EscalationIsHonest
  WaitsForTheOwner
  NobodyReadsAhead
PROPERTIES
  ImplementsCase
CHECK_DEADLOCK FALSE
