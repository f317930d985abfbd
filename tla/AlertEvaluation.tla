---------------------------- MODULE AlertEvaluation ----------------------------
(***************************************************************************)
(* The evaluation of the alert policies (alerting/service.py,              *)
(* alerting/repository.py, alerting/enqueue.py, migration 0006) by         *)
(* concurrent requests of one tenant and one correlation: the alert of a   *)
(* policy, its fingerprint, is then named by the policy.                   *)
(*                                                                         *)
(* A record transaction is two steps: it takes the advisory lock of the    *)
(* fingerprint and reads, and it commits - or dies and is rolled back.     *)
(***************************************************************************)
EXTENDS Integers, Sequences

CONSTANTS
  Request,   \* evaluation requests; a retry is a request of its own
  Policies,  \* POLICIES: the policies in the order they are evaluated in
  Safety,    \* shadow-external-action-safety, the policy that fails closed
  Snapshot,  \* metric snapshots: one window of one report
  Measure,   \* Measure[w][f]: how the snapshot w stands to the threshold of f
  SnapshotOf,\* SnapshotOf[p]: the snapshot that request p evaluates
  Prefix,    \* values of idempotency_prefix
  PrefixOf,  \* PrefixOf[p]: that of request p
  MayDie,    \* requests whose process may die
  None       \* NULL

Policy == {Policies[i] : i \in DOMAIN Policies}
Measurement == {"breached", "within", "unmeasured"}

ASSUME PoliciesAssumption == Policies \in Seq(Policy) /\ Policies # <<>>
ASSUME MeasureAssumption == Measure \in [Snapshot -> [Policy -> Measurement]]
ASSUME RequestAssumption ==
  SnapshotOf \in [Request -> Snapshot] /\ PrefixOf \in [Request -> Prefix]
ASSUME DieAssumption == MayDie \subseteq Request
ASSUME NoneAssumption == None \notin Request \cup {"OK", "FIRING", "RESOLVED"}

VARIABLES
  events,  \* the append-only table alert_evaluation_event, per policy, by id
  intents, \* the rows enqueued in alert_outbox: the positions of their events
  lock,    \* pg_advisory_xact_lock of a fingerprint: its holder
  call     \* where a request stands

vars == <<events, intents, lock, call>>

--------------------------------------------------------------------------------
(* Events and the lifecycle of an alert *)

AlertState == {"OK", "FIRING", "RESOLVED"}
LIFECYCLE_TRANSITIONS == {"FIRED", "RESOLVED"}

\* The idempotency key is the prefix and the policy; the payload hash covers the
\* snapshot and its assessment, which the snapshot determines.
Event ==
  [ key : Prefix, snapshot : Snapshot, state : AlertState \cup {None},
    previous : AlertState \cup {None},
    transition : LIFECYCLE_TRANSITIONS \cup
      {"INITIAL_OK", "STILL_OK", "STILL_FIRING", "UNMEASURED"} ]

\* _next_state.
NextState(previous, measure) ==
  CASE measure = "unmeasured" -> [state |-> None, transition |-> "UNMEASURED"]
    [] measure = "breached" ->
         [state |-> "FIRING",
          transition |-> IF previous = "FIRING" THEN "STILL_FIRING" ELSE "FIRED"]
    [] measure = "within" /\ previous = "FIRING" ->
         [state |-> "RESOLVED", transition |-> "RESOLVED"]
    [] OTHER ->
         [state |-> "OK",
          transition |-> IF previous = None THEN "INITIAL_OK" ELSE "STILL_OK"]

\* Mutant: rows without a state count, NULL is then the latest.
LastRowCounts(event) == TRUE

\* The condition `state IS NOT NULL' of the query for the latest state.
IsMeasured(event) == event.state # None

\* The latest measured state of an alert, NULL if there is none.
Latest(history) ==
  LET measured == {i \in DOMAIN history : IsMeasured(history[i])}
  IN IF measured = {} THEN None
     ELSE history[CHOOSE i \in measured : \A j \in measured : j <= i].state

\* Mutant: only the key is looked up.
SameKeyOnly(event, p) == event.key = PrefixOf[p]

\* The row a request repeats: by its key, or else by its payload.
Repeats(event, p) == event.key = PrefixOf[p] \/ event.snapshot = SnapshotOf[p]

\* The row found: that with the key first, then that with the payload.
Found(history, p) ==
  LET rows == {i \in DOMAIN history : Repeats(history[i], p)}
      keyed == {i \in rows : history[i].key = PrefixOf[p]}
  IN IF keyed # {} THEN CHOOSE i \in keyed : TRUE
     ELSE IF rows # {} THEN CHOOSE i \in rows : TRUE
     ELSE 0

Call ==
  [ pc : {"ready", "locked", "done", "refused", "failed_closed", "dead"},
    next : Nat \ {0}, found : Nat, previous : AlertState \cup {None} ]
NewCall == [pc |-> "ready", next |-> 1, found |-> 0, previous |-> None]

--------------------------------------------------------------------------------
(* AlertService.evaluate and AlertRepository.record *)

PolicyOf(p) == Policies[call[p].next]

\* Mutant: nothing serialises the transactions of one fingerprint.
NoLock(f) == TRUE

LockFree(f) == lock[f] = None

\* The transaction takes the lock and reads what it needs.
Read(p) ==
  /\ call[p].pc = "ready" /\ LockFree(PolicyOf(p))
  /\ lock' = [lock EXCEPT ![PolicyOf(p)] = p]
  /\ call' = [call EXCEPT ![p].pc = "locked",
                          ![p].found = Found(events[PolicyOf(p)], p),
                          ![p].previous = Latest(events[PolicyOf(p)])]
  /\ UNCHANGED <<events, intents>>

\* Mutant: a firing safety policy is reported like any other.
NeverFailsClosed(f, event) == FALSE

\* SHADOW_EXTERNAL_ACTION_DETECTED, for a replayed event too.
FailsClosed(f, event) == f = Safety /\ event.state = "FIRING"

\* evaluate goes on with the next policy, unless the event just returned - new or
\* replayed - is one it fails closed on.
GoOn(p, event) ==
  LET next == call[p].next
      fails == FailsClosed(PolicyOf(p), event)
  IN call' = [call EXCEPT
       ![p].pc = IF fails THEN "failed_closed"
                 ELSE IF next = Len(Policies) THEN "done" ELSE "ready",
       ![p].next = IF fails \/ next = Len(Policies) THEN next ELSE next + 1]

Unlock(p) == lock' = [lock EXCEPT ![PolicyOf(p)] = None]

FoundEvent(p) == events[PolicyOf(p)][call[p].found]

\* ALERT_IDEMPOTENCY_CONFLICT: the key names another payload.
Refuse(p) ==
  /\ call[p].pc = "locked" /\ call[p].found > 0
  /\ FoundEvent(p).snapshot # SnapshotOf[p]
  /\ call' = [call EXCEPT ![p].pc = "refused"]
  /\ Unlock(p)
  /\ UNCHANGED <<events, intents>>

Replay(p) ==
  /\ call[p].pc = "locked" /\ call[p].found > 0
  /\ FoundEvent(p).snapshot = SnapshotOf[p]
  /\ GoOn(p, FoundEvent(p))
  /\ Unlock(p)
  /\ UNCHANGED <<events, intents>>

\* The event and, for a lifecycle transition, the intent commit together.
Record(p) ==
  /\ call[p].pc = "locked" /\ call[p].found = 0
  /\ LET f == PolicyOf(p)
         next == NextState(call[p].previous, Measure[SnapshotOf[p]][f])
         event == [key |-> PrefixOf[p], snapshot |-> SnapshotOf[p], state |-> next.state,
                   previous |-> call[p].previous, transition |-> next.transition]
     IN /\ events' = [events EXCEPT ![f] = Append(@, event)]
        /\ intents' = IF next.transition \in LIFECYCLE_TRANSITIONS
                      THEN [intents EXCEPT ![f] = Append(@, Len(events[f]) + 1)]
                      ELSE intents
        /\ GoOn(p, event)
  /\ Unlock(p)

\* Mutant: the lock outlives its transaction.
KeptLocks(p) == lock

FreedLocks(p) == [f \in Policy |-> IF lock[f] = p THEN None ELSE lock[f]]

\* The process dies between or inside transactions: what was not committed is
\* rolled back, the lock ends with its transaction.
Die(p) ==
  /\ p \in MayDie /\ call[p].pc \in {"ready", "locked"}
  /\ call' = [call EXCEPT ![p].pc = "dead"]
  /\ lock' = FreedLocks(p)
  /\ UNCHANGED <<events, intents>>

--------------------------------------------------------------------------------
(* The specification *)

Init ==
  /\ events = [f \in Policy |-> <<>>]
  /\ intents = [f \in Policy |-> <<>>]
  /\ lock = [f \in Policy |-> None]
  /\ call = [p \in Request |-> NewCall]

Step(p) == Read(p) \/ Refuse(p) \/ Replay(p) \/ Record(p)

Next == \E p \in Request : Step(p) \/ Die(p)

Spec == Init /\ [][Next]_vars

\* Every statement of a live process ends.
FairSpec == Spec /\ \A p \in Request : WF_vars(Step(p))

--------------------------------------------------------------------------------
(* Properties *)

TypeOK ==
  /\ events \in [Policy -> Seq(Event)]
  /\ intents \in [Policy -> Seq(Nat \ {0})]
  /\ lock \in [Policy -> Request \cup {None}]
  /\ call \in [Request -> Call]

\* "A repeated equivalent input replays its existing event" (ADR 0007): however
\* requests interleave, die and are retried, an alert has one event for a
\* snapshot and one for a key.
OneEventPerInput ==
  \A f \in Policy : \A i, j \in DOMAIN events[f] :
    events[f][i].key = events[f][j].key \/ events[f][i].snapshot = events[f][j].snapshot
      => i = j

\* "An UNMEASURED evaluation after FIRING does not resolve the alert" (ADR 0007):
\* the alert of an event that resolves was firing at the last measurement before
\* it, whatever lies between, and one that fires was not.
TransitionsFollowMeasurements ==
  \A f \in Policy : \A i \in DOMAIN events[f] :
    LET measured == {j \in 1..(i - 1) : Measure[events[f][j].snapshot][f] # "unmeasured"}
        wasFiring == \E j \in measured :
          /\ Measure[events[f][j].snapshot][f] = "breached"
          /\ \A k \in measured : k <= j
        measure == Measure[events[f][i].snapshot][f]
    IN /\ events[f][i].transition = "RESOLVED" <=> wasFiring /\ measure = "within"
       /\ events[f][i].transition = "FIRED" <=> ~wasFiring /\ measure = "breached"

\* A request that returned evaluated every policy on its own snapshot, none of
\* them a firing safety policy; one that failed closed left the firing event it
\* failed on, and that event, or an earlier one, its notice.
AnswersAreBacked ==
  \A p \in Request :
    /\ call[p].pc = "done" =>
         \A f \in Policy : \E i \in DOMAIN events[f] :
           /\ events[f][i].snapshot = SnapshotOf[p]
           /\ f = Safety => events[f][i].state # "FIRING"
    /\ call[p].pc = "failed_closed" =>
         \E i \in DOMAIN events[Safety] :
           /\ events[Safety][i].snapshot = SnapshotOf[p]
           /\ events[Safety][i].state = "FIRING"
           /\ \E j \in DOMAIN intents[Safety] :
                /\ intents[Safety][j] <= i
                /\ events[Safety][intents[Safety][j]].transition = "FIRED"

Lifecycle == INSTANCE AlertLifecycle WITH
  Alert <- Policy,
  firing <- [f \in Policy |-> Latest(events[f]) = "FIRING"],
  notices <- [f \in Policy |->
    [i \in DOMAIN intents[f] |-> events[f][intents[f][i]].transition]]

\* The evaluation implements AlertLifecycle: one intent for every change of an
\* alert between quiet and firing, so FIRED and RESOLVED alternate, under any
\* interleaving, death and retry.
ImplementsLifecycle == Lifecycle!Spec

\* The intents enqueued for an alert are FIRED and RESOLVED by turns, and the latest
\* measured state of the alert is what the last of them reports: no measurement is
\* notified twice, none is lost between the event and the outbox.
NoticesAlternate == Lifecycle!NoticesAlternate

\* A request that waits for the lock of a fingerprint waits for one that is inside
\* its transaction on that fingerprint, so it waits for no lock itself and is not
\* dead: transactions of several policies never wait for each other in a circle.
WaitsForTheOwner ==
  \A p \in Request : call[p].pc = "ready" /\ ~LockFree(PolicyOf(p)) =>
    \E q \in Request \ {p} :
      lock[PolicyOf(p)] = q /\ call[q].pc = "locked" /\ PolicyOf(q) = PolicyOf(p)

\* Every request ends, whoever dies with the lock it waits for.
EveryRequestEnds ==
  \A p \in Request : <>(call[p].pc \in {"done", "refused", "failed_closed", "dead"})

================================================================================
