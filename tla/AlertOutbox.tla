------------------------------ MODULE AlertOutbox ------------------------------
(***************************************************************************)
(* The durable alert outbox (alerting/outbox.py, migration 0008) and the   *)
(* leased workers that drain it (alerting/worker.py, worker_cli.py).       *)
(*                                                                         *)
(* Every database transaction is one atomic step.  What happens between    *)
(* transactions - the HTTP request, the death of a worker process, another *)
(* worker's take-over - is a step of its own.                              *)
(*                                                                         *)
(* Time is abstracted to two flags of a row: `due' is next_attempt_at <=   *)
(* now and `lease_expired' is lease_expires_at <= now.  The steps that set *)
(* them may come at any moment, so the specification allows every backoff, *)
(* every positive lease length and every skew between the workers' clocks. *)
(***************************************************************************)
EXTENDS Integers, FiniteSets

CONSTANTS
  Row,            \* outbox rows, by outbox_id: one per lifecycle evaluation
  Process,        \* operating-system processes that run the worker
  WorkerId,       \* the values of lease_owner
  Nobody,         \* lease_owner is NULL
  Id,             \* Id[p]: the --worker-id of p; two processes may share one
  BatchSize,      \* --batch-size
  Budgets,        \* the values of max_attempts an intent is enqueued with
  Additional,     \* the values of additional_attempts a re-drive may ask for
  AttemptCeiling, \* MAX_ATTEMPT_CEILING and the CHECK bounds of 0008
  Answers,        \* what the receiver and the network may answer in this model
  MayCrash        \* the processes that may die between two steps

(***************************************************************************)
(* How an HTTP request may end.  "4xx" stands for every status below 500   *)
(* that is not 2xx, "6xx" for a status above 599, which the column CHECKs  *)
(* of 0008 do not admit; the last three are exceptions of the transport.   *)
(***************************************************************************)
Answer == {"2xx", "4xx", "5xx", "6xx", "timeout", "connection_error", "transport_error"}

ASSUME RowAssumption == Row \subseteq Nat
ASSUME IdAssumption == Id \in [Process -> WorkerId] /\ Nobody \notin WorkerId
ASSUME BatchAssumption == BatchSize \in Nat \ {0}
ASSUME CeilingAssumption == AttemptCeiling \in Nat \ {0}
ASSUME BudgetAssumption == Budgets \subseteq 1..AttemptCeiling
ASSUME AdditionalAssumption == Additional \subseteq Nat \ {0}
ASSUME AnswersAssumption == Answers \subseteq Answer
ASSUME CrashAssumption == MayCrash \subseteq Process

VARIABLES
  outbox,         \* the table alert_outbox
  attempt_events, \* the append-only table alert_delivery_attempt_event
  ledger,         \* the 0007 table alert_delivery_attempt, one row per intent
  batch,          \* batch[p]: the LeasedDelivery items p has yet to send
  sent,           \* sent[p]: the item p has sent and not yet recorded, if any
  requests        \* the HTTP requests made so far and whether they arrived

vars == <<outbox, attempt_events, ledger, batch, sent, requests>>

--------------------------------------------------------------------------------
(* The tables and the values that travel *)

OutboxState == {"PENDING", "IN_FLIGHT", "DELIVERED", "DEAD_LETTER"}
AttemptOutcome == {"DELIVERED", "RETRYABLE_FAILURE", "PERMANENT_FAILURE", "AMBIGUOUS"}

OutboxRow ==
  [ state : OutboxState \cup {"UNCOMMITTED"},
    attempt_count : 0..AttemptCeiling,
    max_attempts : 0..AttemptCeiling,
    redrive_count : 0..AttemptCeiling,
    due : BOOLEAN,
    lease_owner : WorkerId \cup {Nobody},
    lease_expired : BOOLEAN,
    last : Answer \cup {"none"} ]   \* last_http_status and last_error_class

\* A row that the evaluation transaction has not inserted yet.
Uncommitted ==
  [ state |-> "UNCOMMITTED", attempt_count |-> 0, max_attempts |-> 0,
    redrive_count |-> 0, due |-> FALSE, lease_owner |-> Nobody,
    lease_expired |-> FALSE, last |-> "none" ]

AttemptEvent ==
  [ row : Row, attempt_number : 1..AttemptCeiling, outcome : AttemptOutcome,
    answer : Answer, lease_owner : WorkerId ]

LedgerRow ==
  [ status : {"ABSENT", "DELIVERED", "FAILED"},
    attempt_count : 0..AttemptCeiling, answer : Answer \cup {"none"} ]

NoLedgerRow == [status |-> "ABSENT", attempt_count |-> 0, answer |-> "none"]

\* The snapshot a lease hands to the worker; its lease_owner is Id[p].
LeasedDelivery ==
  [row : Row, attempt_number : 1..AttemptCeiling, max_attempts : 1..AttemptCeiling]

\* Mutant: off by one.
IsFinalAttemptLate(item) == item.attempt_number > item.max_attempts
IsFinalAttempt(item) == item.attempt_number >= item.max_attempts

Sent == [item : LeasedDelivery, answer : Answer]
Request == [row : Row, attempt_number : 1..AttemptCeiling, accepted : BOOLEAN]

--------------------------------------------------------------------------------
(* Classification of an answer *)

\* Mutant: every answered request below 500 counts as success.
OutcomeLenient(answer) ==
  CASE answer \in {"2xx", "4xx"} -> "DELIVERED"
    [] answer = "timeout" -> "AMBIGUOUS"
    [] OTHER -> "RETRYABLE_FAILURE"

\* classify_response and classify_exception.
Outcome(answer) ==
  CASE answer = "2xx" -> "DELIVERED"
    [] answer \in {"5xx", "6xx", "connection_error", "transport_error"} -> "RETRYABLE_FAILURE"
    [] answer = "timeout" -> "AMBIGUOUS"
    [] OTHER -> "PERMANENT_FAILURE"

Retryable(answer) == Outcome(answer) \in {"RETRYABLE_FAILURE", "AMBIGUOUS"}

\* Whether the receiver may have taken the notification, given the answer.
Arrivals(answer) ==
  CASE answer = "2xx" -> {TRUE}
    [] answer \in {"4xx", "connection_error"} -> {FALSE}
    [] OTHER -> BOOLEAN

--------------------------------------------------------------------------------
(* Enqueue and lease *)

\* enqueue_in_transaction: the intent appears with the evaluation that caused
\* it.  The unique key (tenant_id, evaluation_id) makes a second insert a no-op.
Enqueue(r) ==
  /\ outbox[r].state = "UNCOMMITTED"
  /\ \E budget \in Budgets :
       outbox' = [outbox EXCEPT ![r] =
         [Uncommitted EXCEPT !.state = "PENDING", !.max_attempts = budget, !.due = TRUE]]
  /\ UNCHANGED <<attempt_events, ledger, batch, sent, requests>>

\* Mutants: no budget check; no state filter; no take-over.
LeasableAnyBudget(r) ==
  /\ outbox[r].due
  /\ \/ outbox[r].state = "PENDING"
     \/ outbox[r].state = "IN_FLIGHT" /\ outbox[r].lease_expired
LeasableAnyState(r) ==
  /\ outbox[r].due /\ outbox[r].attempt_count < outbox[r].max_attempts
  /\ outbox[r].state = "IN_FLIGHT" => outbox[r].lease_expired
LeasablePendingOnly(r) ==
  /\ outbox[r].due /\ outbox[r].state = "PENDING"
  /\ outbox[r].attempt_count < outbox[r].max_attempts

\* The WHERE clause of the claim scan.
Leasable(r) ==
  /\ outbox[r].due
  /\ \/ outbox[r].state = "PENDING"
     \/ outbox[r].state = "IN_FLIGHT" /\ outbox[r].lease_expired
  /\ outbox[r].attempt_count < outbox[r].max_attempts

\* Mutant: a take-over continues the attempt of the worker it replaces.
ClaimedSameAttempt(row, p) ==
  [row EXCEPT !.state = "IN_FLIGHT", !.lease_owner = Id[p], !.lease_expired = FALSE,
              !.attempt_count = IF row.state = "PENDING" THEN @ + 1 ELSE @]

\* The UPDATE of lease: a new attempt under a new lease.
Claimed(row, p) ==
  [row EXCEPT !.attempt_count = @ + 1, !.state = "IN_FLIGHT",
              !.lease_owner = Id[p], !.lease_expired = FALSE]

\* A worker run starts by claiming due rows.  SKIP LOCKED leaves out the rows
\* other transactions hold at that moment, so any part of the candidates, up to
\* LIMIT, may be claimed.
Lease(p) ==
  /\ batch[p] = {} /\ sent[p] = {}
  /\ \E S \in SUBSET {r \in Row : Leasable(r)} :
       /\ S # {} /\ Cardinality(S) <= BatchSize
       /\ outbox' = [r \in Row |->
            IF r \in S THEN Claimed(outbox[r], p) ELSE outbox[r]]
       /\ batch' = [batch EXCEPT ![p] =
            {[row |-> r, attempt_number |-> Claimed(outbox[r], p).attempt_count,
              max_attempts |-> outbox[r].max_attempts] : r \in S}]
  /\ UNCHANGED <<attempt_events, ledger, sent, requests>>

--------------------------------------------------------------------------------
(* Send, outside any transaction *)

\* The items of a batch are sent in the order of outbox_id.  Nothing looks at
\* the lease again before the request goes out.
Post(p) ==
  /\ sent[p] = {}
  /\ \E item \in batch[p], answer \in Answers :
       /\ \A other \in batch[p] : item.row <= other.row
       /\ \E accepted \in Arrivals(answer) :
            requests' = requests \cup
              {[row |-> item.row, attempt_number |-> item.attempt_number,
                accepted |-> accepted]}
       /\ sent' = [sent EXCEPT ![p] = {[item |-> item, answer |-> answer]}]
       /\ batch' = [batch EXCEPT ![p] = @ \ {item}]
  /\ UNCHANGED <<outbox, attempt_events, ledger>>

--------------------------------------------------------------------------------
(* Record the outcome: one transaction each *)

\* Mutant: only the owner is compared, not the attempt.
HoldsLeaseByOwner(p, item) ==
  outbox[item.row].state = "IN_FLIGHT" /\ outbox[item.row].lease_owner = Id[p]

\* The SELECT ... FOR UPDATE every recording transaction begins with.
HoldsLease(p, item) ==
  /\ outbox[item.row].state = "IN_FLIGHT"
  /\ outbox[item.row].attempt_count = item.attempt_number
  /\ outbox[item.row].lease_owner = Id[p]

\* Mutant: an ambiguous outcome leaves no evidence.
AppendDefiniteEvent(p, s) ==
  attempt_events' = attempt_events \cup
    {e \in {[row |-> s.item.row, attempt_number |-> s.item.attempt_number,
             outcome |-> Outcome(s.answer), answer |-> s.answer,
             lease_owner |-> Id[p]]} : e.outcome # "AMBIGUOUS"}

\* INSERT ... ON CONFLICT (outbox_id, attempt_number) DO NOTHING.
AppendAttemptEvent(p, s) ==
  attempt_events' =
    IF \E e \in attempt_events :
         e.row = s.item.row /\ e.attempt_number = s.item.attempt_number
    THEN attempt_events
    ELSE attempt_events \cup
           {[row |-> s.item.row, attempt_number |-> s.item.attempt_number,
             outcome |-> Outcome(s.answer), answer |-> s.answer,
             lease_owner |-> Id[p]]}

\* Mutant: the terminal row is updated whatever its status.
OverwriteTerminalLedger(s, status) ==
  ledger' = [ledger EXCEPT ![s.item.row] =
    [status |-> status, attempt_count |-> s.item.attempt_number, answer |-> s.answer]]

\* Insert CLAIMED if there is no row, then complete it if it is CLAIMED: a
\* terminal row of an earlier dead letter stays as it is.
WriteTerminalLedger(s, status) ==
  ledger' =
    IF ledger[s.item.row].status = "ABSENT"
    THEN [ledger EXCEPT ![s.item.row] =
            [status |-> status, attempt_count |-> s.item.attempt_number,
             answer |-> s.answer]]
    ELSE ledger

\* _transition: give the lease up and move the row.
Transition(s, state, due) ==
  outbox' = [outbox EXCEPT ![s.item.row] =
    [@ EXCEPT !.state = state, !.due = due, !.lease_owner = Nobody,
              !.lease_expired = FALSE, !.last = s.answer]]

\* An answer that no recording transaction can store.
Unstorable(answer) == answer = "6xx"

RecordDelivered(p) ==
  \E s \in sent[p] :
    /\ Outcome(s.answer) = "DELIVERED"
    /\ HoldsLease(p, s.item)
    /\ AppendAttemptEvent(p, s)
    /\ WriteTerminalLedger(s, "DELIVERED")
    /\ Transition(s, "DELIVERED", outbox[s.item.row].due)
    /\ sent' = [sent EXCEPT ![p] = {}]
    /\ UNCHANGED <<batch, requests>>

RecordRetry(p) ==
  \E s \in sent[p] :
    /\ Retryable(s.answer) /\ ~Unstorable(s.answer)
    /\ ~IsFinalAttempt(s.item)
    /\ HoldsLease(p, s.item)
    /\ AppendAttemptEvent(p, s)
    /\ Transition(s, "PENDING", FALSE)
    /\ sent' = [sent EXCEPT ![p] = {}]
    /\ UNCHANGED <<ledger, batch, requests>>

RecordDeadLetter(p) ==
  \E s \in sent[p] :
    /\ Outcome(s.answer) # "DELIVERED" /\ ~Unstorable(s.answer)
    /\ ~(Retryable(s.answer) /\ ~IsFinalAttempt(s.item))
    /\ HoldsLease(p, s.item)
    /\ AppendAttemptEvent(p, s)
    /\ WriteTerminalLedger(s, "FAILED")
    /\ Transition(s, "DEAD_LETTER", outbox[s.item.row].due)
    /\ sent' = [sent EXCEPT ![p] = {}]
    /\ UNCHANGED <<batch, requests>>

\* OUTBOX_LEASE_LOST: the worker counts it and goes on with its batch.
LeaseLost(p) ==
  \E s \in sent[p] :
    /\ ~HoldsLease(p, s.item)
    /\ sent' = [sent EXCEPT ![p] = {}]
    /\ UNCHANGED <<outbox, attempt_events, ledger, batch, requests>>

\* The process dies; what it had leased is known to the database only.
Forget(p) ==
  /\ batch' = [batch EXCEPT ![p] = {}]
  /\ sent' = [sent EXCEPT ![p] = {}]
  /\ UNCHANGED <<outbox, attempt_events, ledger, requests>>

\* The attempt event of an unstorable status violates a column CHECK: the
\* transaction rolls back and the exception ends the run.
RecordFails(p) ==
  /\ \E s \in sent[p] : Unstorable(s.answer) /\ HoldsLease(p, s.item)
  /\ Forget(p)

Crash(p) ==
  /\ p \in MayCrash
  /\ batch[p] # {} \/ sent[p] # {}
  /\ Forget(p)

--------------------------------------------------------------------------------
(* The operator and the clock *)

\* Mutant: the ceiling of the table is forgotten.
NewCeilingUncapped(attempt_count, additional) == attempt_count + additional

NewCeiling(attempt_count, additional) ==
  IF attempt_count + additional < AttemptCeiling
  THEN attempt_count + additional
  ELSE AttemptCeiling

Redriven(row, ceiling) ==
  [row EXCEPT !.redrive_count = @ + 1, !.state = "PENDING", !.max_attempts = ceiling,
              !.due = TRUE]

\* redrive: only a dead letter, and only if the ceiling still rises.
Redrive(r) ==
  /\ outbox[r].state = "DEAD_LETTER"
  /\ \E additional \in Additional :
       LET new_ceiling == NewCeiling(outbox[r].attempt_count, additional)
       IN /\ new_ceiling > outbox[r].attempt_count
          /\ outbox' = [outbox EXCEPT ![r] = Redriven(outbox[r], new_ceiling)]
  /\ UNCHANGED <<attempt_events, ledger, batch, sent, requests>>

\* The clock passes next_attempt_at.
BecomeDue(r) ==
  /\ outbox[r].state = "PENDING" /\ ~outbox[r].due
  /\ outbox' = [outbox EXCEPT ![r].due = TRUE]
  /\ UNCHANGED <<attempt_events, ledger, batch, sent, requests>>

\* The clock passes lease_expires_at.
ExpireLease(r) ==
  /\ outbox[r].state = "IN_FLIGHT" /\ ~outbox[r].lease_expired
  /\ outbox' = [outbox EXCEPT ![r].lease_expired = TRUE]
  /\ UNCHANGED <<attempt_events, ledger, batch, sent, requests>>

--------------------------------------------------------------------------------
(* The specification *)

Init ==
  /\ outbox = [r \in Row |-> Uncommitted]
  /\ attempt_events = {}
  /\ ledger = [r \in Row |-> NoLedgerRow]
  /\ batch = [p \in Process |-> {}]
  /\ sent = [p \in Process |-> {}]
  /\ requests = {}

Record(p) ==
  RecordDelivered(p) \/ RecordRetry(p) \/ RecordDeadLetter(p) \/ LeaseLost(p) \/ RecordFails(p)

Next ==
  \/ \E r \in Row : Enqueue(r) \/ Redrive(r) \/ BecomeDue(r) \/ ExpireLease(r)
  \/ \E p \in Process : Lease(p) \/ Post(p) \/ Record(p) \/ Crash(p)

Spec == Init /\ [][Next]_vars

(***************************************************************************)
(* The clock advances, every request ends by its timeout, and a process    *)
(* that has not died goes on.  That worker runs keep being started while   *)
(* work is due is the deployment's part: worker_cli drains once and exits. *)
(***************************************************************************)
Fairness ==
  /\ \A r \in Row : WF_vars(BecomeDue(r)) /\ WF_vars(ExpireLease(r))
  /\ \A p \in Process : WF_vars(Lease(p)) /\ WF_vars(Post(p)) /\ WF_vars(Record(p))

FairSpec == Spec /\ Fairness

--------------------------------------------------------------------------------
(* The guards of migration 0008, which see every change to the tables *)

\* guard_alert_outbox_insert.
OutboxInsertAllowed(new) ==
  /\ new.state = "PENDING" /\ new.attempt_count = 0 /\ new.redrive_count = 0
  /\ new.lease_owner = Nobody /\ new.last = "none"

\* guard_alert_delivery_attempt_event_insert; row is the outbox row it reads.
EventInsertAllowed(event, row) ==
  /\ row.state = "IN_FLIGHT"
  /\ event.attempt_number = row.attempt_count
  /\ event.lease_owner = row.lease_owner

\* What an outcome must rest on: the event of the active attempt and, for a
\* terminal state, the ledger row.
OutcomeAllowed(old, new, event, led) ==
  /\ new.attempt_count = old.attempt_count
  /\ event.lease_owner = old.lease_owner /\ event.answer = new.last
  /\ new.state = "DELIVERED" => event.outcome = "DELIVERED"
  /\ new.state = "PENDING" =>
       /\ event.outcome \in {"RETRYABLE_FAILURE", "AMBIGUOUS"}
       /\ new.attempt_count < new.max_attempts
  /\ new.state = "DEAD_LETTER" =>
       /\ event.outcome # "DELIVERED"
       /\ event.outcome # "PERMANENT_FAILURE" => new.attempt_count >= new.max_attempts
  /\ new.state # "PENDING" =>
       IF old.redrive_count = 0
       THEN /\ led.status = IF new.state = "DELIVERED" THEN "DELIVERED" ELSE "FAILED"
            /\ led.attempt_count = new.attempt_count /\ led.answer = new.last
       ELSE led.status = "FAILED"

\* guard_alert_outbox_update: r goes from old to new in a transaction that
\* leaves the attempt events evs and the ledger row led.
OutboxUpdateAllowed(r, old, new, evs, led) ==
  LET move == <<old.state, new.state>>
  IN /\ old.state # "DELIVERED"
     /\ move \in {<<"PENDING", "IN_FLIGHT">>, <<"IN_FLIGHT", "DELIVERED">>,
                  <<"IN_FLIGHT", "PENDING">>, <<"IN_FLIGHT", "DEAD_LETTER">>,
                  <<"IN_FLIGHT", "IN_FLIGHT">>, <<"DEAD_LETTER", "PENDING">>}
     /\ new.attempt_count >= old.attempt_count
     /\ new.redrive_count >= old.redrive_count
     /\ new.state = "IN_FLIGHT" =>
          /\ new.attempt_count = old.attempt_count + 1
          /\ ~new.lease_expired
          /\ old.state = "PENDING" => old.due
          /\ old.state = "IN_FLIGHT" => old.lease_expired
     /\ old.state = "IN_FLIGHT" /\ new.state # "IN_FLIGHT" =>
          \E event \in evs :
            /\ event.row = r /\ event.attempt_number = old.attempt_count
            /\ OutcomeAllowed(old, new, event, led)
     /\ new.max_attempts # old.max_attempts => move = <<"DEAD_LETTER", "PENDING">>
     /\ move = <<"DEAD_LETTER", "PENDING">> => new.redrive_count = old.redrive_count + 1

--------------------------------------------------------------------------------
(* Properties *)

\* Type invariant: the columns stay within the CHECK bounds of 0007 and 0008
\* (attempt_count, max_attempts and redrive_count within 100), and a worker
\* holds at most one answer it has not recorded.
TypeOK ==
  /\ outbox \in [Row -> OutboxRow]
  /\ attempt_events \subseteq AttemptEvent
  /\ ledger \in [Row -> LedgerRow]
  /\ batch \in [Process -> SUBSET LeasedDelivery]
  /\ sent \in [Process -> SUBSET Sent]
  /\ \A p \in Process : \A s, t \in sent[p] : s = t
  /\ requests \subseteq Request

\* The clock only ever turns a flag of a row; the guards do not see it.
ClockStep(old, new) ==
  \/ new = [old EXCEPT !.due = TRUE]
  \/ new = [old EXCEPT !.lease_expired = TRUE]

\* What a step may do to the tables: leave a row, turn one of its clock flags,
\* or make a change that the triggers accept.
Admitted ==
  /\ \A r \in Row :
       \/ outbox'[r] = outbox[r]
       \/ ClockStep(outbox[r], outbox'[r])
       \/ outbox[r].state = "UNCOMMITTED" /\ OutboxInsertAllowed(outbox'[r])
       \/ OutboxUpdateAllowed(r, outbox[r], outbox'[r], attempt_events', ledger'[r])
  /\ \A e \in attempt_events' \ attempt_events : EventInsertAllowed(e, outbox[e.row])

\* No sequence of leases, take-overs, late answers, crashes and re-drives makes
\* the repository send the database an insert or update that the triggers of
\* 0008 reject: a rejected record would end the worker run and lose its batch.
GuardsNeverReject == [][Admitted]_vars

\* At most one process can still record an outcome for a row, even when two
\* processes were started with the same --worker-id: the transaction checks
\* the attempt number beside the owner.
LeasedBy(p) == batch[p] \cup {s.item : s \in sent[p]}
SoleRecorder ==
  \A p, q \in Process : \A i \in LeasedBy(p), j \in LeasedBy(q) :
    i.row = j.row /\ HoldsLease(p, i) /\ HoldsLease(q, j) => p = q /\ i = j

\* Egress is bounded by the budget: an attempt number is sent at most once,
\* whoever holds it, and never beyond the row's max_attempts.
EgressBounded ==
  \A p \in Process : \A i \in batch[p] :
    /\ i.attempt_number <= outbox[i.row].attempt_count
    /\ outbox[i.row].attempt_count <= outbox[i.row].max_attempts
    /\ \A q \in requests : <<q.row, q.attempt_number>> # <<i.row, i.attempt_number>>

\* DELIVERED is never reported for a notification the receiver did not accept:
\* the recorded attempt is one whose request arrived.
DeliveredWasAccepted ==
  \A r \in Row : outbox[r].state = "DELIVERED" =>
    [row |-> r, attempt_number |-> outbox[r].attempt_count, accepted |-> TRUE] \in requests

\* The append-only evidence and the row tell one story: a row is DELIVERED if
\* and only if some attempt is recorded as such, that is the last one, and a
\* row whose last attempt ended by a recorded outcome carries its evidence.
EvidenceAgrees ==
  /\ \A e, f \in attempt_events :
       e.row = f.row /\ e.attempt_number = f.attempt_number => e = f
  /\ \A e \in attempt_events :
       /\ e.attempt_number <= outbox[e.row].attempt_count
       /\ e.outcome = "DELIVERED" =>
            /\ outbox[e.row].state = "DELIVERED"
            /\ e.attempt_number = outbox[e.row].attempt_count
  /\ \A r \in Row :
       outbox[r].state \in OutboxState \ {"IN_FLIGHT"} /\ outbox[r].attempt_count > 0 =>
         \E e \in attempt_events :
           /\ e.row = r /\ e.attempt_number = outbox[r].attempt_count
           /\ e.answer = outbox[r].last
           /\ e.outcome = "DELIVERED" <=> outbox[r].state = "DELIVERED"

\* The terminal ledger holds the first terminal outcome of an intent and
\* nothing else: nothing while the intent is open for the first time, the
\* matching row once it settles, and the earlier FAILED row after a re-drive.
LedgerAgrees ==
  \A r \in Row :
    LET row == outbox[r]  led == ledger[r]
    IN /\ led.status = "ABSENT" <=>
            row.redrive_count = 0 /\ row.state \notin {"DELIVERED", "DEAD_LETTER"}
       /\ row.redrive_count > 0 => led.status = "FAILED"
       /\ row.redrive_count = 0 /\ row.state \in {"DELIVERED", "DEAD_LETTER"} =>
            led.attempt_count = row.attempt_count
       /\ led.status # "ABSENT" =>
            \E e \in attempt_events :
              /\ e.row = r /\ e.attempt_number = led.attempt_count
              /\ e.answer = led.answer
              /\ e.outcome = "DELIVERED" <=> led.status = "DELIVERED"

\* The rows of the abstract promise: leases, retries and take-overs are inside
\* one open intent.
IntentOf(row) ==
  CASE row.state = "UNCOMMITTED" -> "none"
    [] row.state = "DELIVERED" -> "delivered"
    [] row.state = "DEAD_LETTER" -> "given_up"
    [] OTHER -> "open"

Intent == INSTANCE DeliveryIntent WITH
  intent <- [r \in Row |-> IntentOf(outbox[r])],
  received <- {q.row : q \in {x \in requests : x.accepted}}

\* The outbox implements DeliveryIntent: an intent is closed as delivered only
\* after the receiver accepted it, is never lost or reopened by a worker, and
\* every other step leaves it alone.
ImplementsIntent == Intent!Spec

--------------------------------------------------------------------------------
(* Liveness, under FairSpec *)

Settled(r) == outbox[r].state \in {"DELIVERED", "DEAD_LETTER"}

\* The row a dead worker left on its last attempt: IN_FLIGHT, its budget spent,
\* and no process that could still record its outcome.
Stranded(r) ==
  /\ outbox[r].state = "IN_FLIGHT"
  /\ outbox[r].attempt_count = outbox[r].max_attempts
  /\ \A p \in Process : \A i \in LeasedBy(p) : i.row = r => ~HoldsLease(p, i)

\* Some process may still record the outcome of the active attempt of r.
Held(r) == \E p \in Process : \E i \in LeasedBy(p) : i.row = r /\ HoldsLease(p, i)

\* What may have kept the owner of r from recording: its process died, or an answer
\* ended its run.
OwnerMayHaveFailed(r) ==
  "6xx" \in Answers \/ \E p \in MayCrash : Id[p] = outbox[r].lease_owner

\* No open intent gets out of reach but by a fault: a PENDING row can be leased as
\* soon as it is due, and an IN_FLIGHT row is held, or its owner may have failed and
\* the row can be leased as soon as its lease expires - or is stranded.  Late
\* answers, take-overs, shared worker ids and re-drives never leave a row behind.
OpenIntentsAreInReach ==
  \A r \in Row :
    /\ outbox[r].state = "PENDING" => outbox[r].attempt_count < outbox[r].max_attempts
    /\ outbox[r].state = "IN_FLIGHT" =>
         \/ Held(r)
         \/ /\ OwnerMayHaveFailed(r)
            /\ Stranded(r) \/ Leasable(r) \/ ~outbox[r].lease_expired

\* As long as workers keep being run, every committed or re-driven intent ends
\* in DELIVERED or DEAD_LETTER, through take-overs, retries and lost leases.
EveryIntentSettles ==
  \A r \in Row : outbox[r].state \in {"PENDING", "IN_FLIGHT"} ~> Settled(r)

\* With processes that die anywhere, and answers nobody can store, the only
\* way not to settle is to be stranded on the last attempt.
EveryIntentSettlesOrIsStranded ==
  \A r \in Row :
    outbox[r].state \in {"PENDING", "IN_FLIGHT"} ~> (Settled(r) \/ Stranded(r))

\* 07_threat_model.md, "Crash drops a notification": "a crash before send, after
\* send, or mid-timeout leaves a leasable row that a worker recovers after
\* lease expiry".  Stated of the rows whose lease expired and which no live
\* process holds any more.
CrashLeavesLeasableRow ==
  \A r \in Row :
    /\ outbox[r].state = "IN_FLIGHT" /\ outbox[r].lease_expired
    /\ \A p \in Process : \A i \in LeasedBy(p) : i.row # r
    => Leasable(r)

\* Migration 0008 and ADR-0009 item 7: "One row per HTTP attempt".  Stated of
\* the requests of attempts that are over: the row has moved to another attempt
\* or has settled.
OneEventPerRequest ==
  \A q \in requests :
    \/ outbox[q.row].state = "IN_FLIGHT" /\ outbox[q.row].attempt_count = q.attempt_number
    \/ \E e \in attempt_events : e.row = q.row /\ e.attempt_number = q.attempt_number

================================================================================
