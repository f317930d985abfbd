--------------------------- MODULE AlertOutboxProofs ---------------------------
(***************************************************************************)
(* Proofs about AlertOutbox for any number of rows and worker processes,   *)
(* any batch size, budget and ceiling, and any sharing of worker ids.      *)
(***************************************************************************)
EXTENDS AlertOutbox, TLAPS

--------------------------------------------------------------------------------
(* The inductive invariant, in named parts *)

\* The counters and the lease columns of a row.  That a re-drive still leaves
\* room below the ceiling is why redrive_count cannot pass its CHECK bound.
RowsOK ==
  \A r \in Row :
    LET row == outbox[r]
    IN /\ row.attempt_count <= row.max_attempts
       /\ row.redrive_count <= row.attempt_count
       /\ row.state \in {"IN_FLIGHT", "DELIVERED", "DEAD_LETTER"} =>
            row.redrive_count < row.attempt_count
       /\ row.state = "UNCOMMITTED" => row.attempt_count = 0

\* What a worker holds was leased to it: the attempt is not in the future, and
\* while it is the row's attempt its snapshot of the budget is current.
ItemsOK ==
  \A p \in Process : \A i \in LeasedBy(p) :
    /\ i.attempt_number <= outbox[i.row].attempt_count
    /\ HoldsLease(p, i) => i.max_attempts = outbox[i.row].max_attempts

\* No attempt is held twice.
ItemsDistinct ==
  \A p, q \in Process : \A i \in LeasedBy(p), j \in LeasedBy(q) :
    i.row = j.row /\ i.attempt_number = j.attempt_number => p = q /\ i = j

\* Requests belong to attempts that were leased, and an answer of success to a
\* request that arrived.
RequestsOK ==
  /\ \A q \in requests : q.attempt_number <= outbox[q.row].attempt_count
  /\ \A p \in Process : \A i \in batch[p] : \A q \in requests :
       <<q.row, q.attempt_number>> # <<i.row, i.attempt_number>>
  /\ \A p \in Process : \A s \in sent[p] :
       Outcome(s.answer) = "DELIVERED" =>
         [row |-> s.item.row, attempt_number |-> s.item.attempt_number,
          accepted |-> TRUE] \in requests

\* An attempt that can still be recorded has no event yet.
EventsOK ==
  /\ \A e \in attempt_events : e.outcome = Outcome(e.answer)
  /\ \A e \in attempt_events :
       outbox[e.row].state = "IN_FLIGHT" => e.attempt_number < outbox[e.row].attempt_count

IInv ==
  /\ TypeOK /\ RowsOK /\ ItemsOK /\ ItemsDistinct /\ RequestsOK
  /\ DeliveredWasAccepted /\ EventsOK /\ EvidenceAgrees /\ LedgerAgrees

--------------------------------------------------------------------------------
(* What each action does to a row, field by field *)

\* r gets the row new and every other row is left alone.
OneRowChanges(r) ==
  /\ outbox' \in [Row -> OutboxRow]
  /\ \A x \in Row \ {r} : outbox'[x] = outbox[x]

\* Everything of a row but its two clock flags.
SameButClock(old, new) ==
  /\ new.state = old.state /\ new.attempt_count = old.attempt_count
  /\ new.max_attempts = old.max_attempts /\ new.redrive_count = old.redrive_count
  /\ new.lease_owner = old.lease_owner /\ new.last = old.last

\* A lease turns old into the next attempt, held by p.
NextAttempt(p, old, new) ==
  /\ new.state = "IN_FLIGHT" /\ new.lease_owner = Id[p] /\ ~new.lease_expired
  /\ new.attempt_count = old.attempt_count + 1
  /\ new.max_attempts = old.max_attempts /\ new.redrive_count = old.redrive_count
  /\ new.last = old.last /\ new.due = old.due

LEMMA RowFields ==
  ASSUME NEW row \in OutboxRow
  PROVE  /\ row.attempt_count \in 0..AttemptCeiling /\ row.max_attempts \in 0..AttemptCeiling
         /\ row.redrive_count \in 0..AttemptCeiling /\ AttemptCeiling \in Nat
  BY CeilingAssumption DEF OutboxRow

LEMMA EnqueueRow ==
  ASSUME TypeOK, NEW r \in Row, Enqueue(r)
  PROVE  /\ OneRowChanges(r)
         /\ outbox[r].state = "UNCOMMITTED" /\ outbox'[r].state = "PENDING"
         /\ outbox'[r].attempt_count = 0 /\ outbox'[r].redrive_count = 0
         /\ outbox'[r].lease_owner = Nobody /\ outbox'[r].last = "none"
         /\ outbox'[r].max_attempts \in Budgets
  <1>1. PICK budget \in Budgets : outbox' = [outbox EXCEPT ![r] =
          [Uncommitted EXCEPT !.state = "PENDING", !.max_attempts = budget, !.due = TRUE]]
    BY DEF Enqueue
  <1> DEFINE new == [Uncommitted EXCEPT !.state = "PENDING", !.max_attempts = budget, !.due = TRUE]
  <1>2. budget \in 0..AttemptCeiling /\ 0 \in 0..AttemptCeiling
    BY BudgetAssumption, CeilingAssumption
  <1>3. new \in OutboxRow
    BY <1>2 DEF Uncommitted, OutboxRow, OutboxState
  <1>4. /\ new.state = "PENDING" /\ new.attempt_count = 0 /\ new.redrive_count = 0
        /\ new.lease_owner = Nobody /\ new.last = "none" /\ new.max_attempts = budget
    BY DEF Uncommitted
  <1>5. outbox[r].state = "UNCOMMITTED"
    BY DEF Enqueue
  <1> HIDE DEF new
  <1>6. outbox' = [outbox EXCEPT ![r] = new]
    BY <1>1 DEF new
  <1> QED
    BY <1>3, <1>4, <1>5, <1>6 DEF TypeOK, OneRowChanges

LEMMA RedriveRow ==
  ASSUME TypeOK, RowsOK, NEW r \in Row, Redrive(r)
  PROVE  /\ OneRowChanges(r)
         /\ outbox[r].state = "DEAD_LETTER" /\ outbox'[r].state = "PENDING"
         /\ outbox'[r].attempt_count = outbox[r].attempt_count
         /\ outbox'[r].max_attempts > outbox[r].attempt_count
         /\ outbox'[r].redrive_count = outbox[r].redrive_count + 1
         /\ outbox'[r].last = outbox[r].last
  <1> DEFINE row == outbox[r]
  <1>1. PICK additional \in Additional :
          /\ NewCeiling(row.attempt_count, additional) > row.attempt_count
          /\ outbox' = [outbox EXCEPT ![r] =
                         Redriven(row, NewCeiling(row.attempt_count, additional))]
    BY DEF Redrive
  <1> DEFINE ceiling == NewCeiling(row.attempt_count, additional)
             new == Redriven(row, ceiling)
  <1>2. row \in OutboxRow /\ row.state = "DEAD_LETTER"
    BY DEF TypeOK, Redrive
  <1>3. ceiling \in 0..AttemptCeiling
    BY <1>2, AdditionalAssumption, CeilingAssumption DEF OutboxRow, NewCeiling
  <1>4. row.redrive_count + 1 \in 0..AttemptCeiling
    BY <1>2, CeilingAssumption DEF OutboxRow, RowsOK
  <1> HIDE DEF ceiling, row
  <1>5. /\ new \in OutboxRow
        /\ new.state = "PENDING" /\ new.attempt_count = row.attempt_count
        /\ new.max_attempts = ceiling /\ new.redrive_count = row.redrive_count + 1
        /\ new.last = row.last
    BY <1>2, <1>3, <1>4 DEF Redriven, OutboxRow, OutboxState
  <1> HIDE DEF new
  <1>6. outbox' = [outbox EXCEPT ![r] = new] /\ ceiling > row.attempt_count
    BY <1>1 DEF new, ceiling
  <1> QED
    BY <1>2, <1>5, <1>6 DEF TypeOK, OneRowChanges, row

LEMMA ClockRow ==
  ASSUME TypeOK, NEW r \in Row, BecomeDue(r) \/ ExpireLease(r)
  PROVE  /\ OneRowChanges(r)
         /\ SameButClock(outbox[r], outbox'[r])
         /\ ClockStep(outbox[r], outbox'[r])
  <1>1. CASE outbox' = [outbox EXCEPT ![r].due = TRUE]
    BY <1>1 DEF TypeOK, OneRowChanges, SameButClock, ClockStep, OutboxRow
  <1>2. CASE outbox' = [outbox EXCEPT ![r].lease_expired = TRUE]
    BY <1>2 DEF TypeOK, OneRowChanges, SameButClock, ClockStep, OutboxRow
  <1> QED
    BY <1>1, <1>2 DEF BecomeDue, ExpireLease

LEMMA LeaseRow ==
  ASSUME TypeOK, RowsOK, NEW p \in Process, Lease(p)
  PROVE  /\ outbox' \in [Row -> OutboxRow]
         /\ batch[p] = {} /\ sent[p] = {}
         /\ \E S \in SUBSET Row :
              /\ \A r \in Row \ S : outbox'[r] = outbox[r]
              /\ \A r \in S : Leasable(r) /\ NextAttempt(p, outbox[r], outbox'[r])
              /\ batch' = [batch EXCEPT ![p] =
                   {[row |-> r, attempt_number |-> outbox'[r].attempt_count,
                     max_attempts |-> outbox'[r].max_attempts] : r \in S}]
  <1>1. PICK S \in SUBSET Row :
          /\ \A r \in S : Leasable(r)
          /\ outbox' = [r \in Row |-> IF r \in S THEN Claimed(outbox[r], p) ELSE outbox[r]]
          /\ batch' = [batch EXCEPT ![p] =
               {[row |-> r, attempt_number |-> Claimed(outbox[r], p).attempt_count,
                 max_attempts |-> outbox[r].max_attempts] : r \in S}]
    BY DEF Lease
  <1>2. ASSUME NEW r \in S
        PROVE  Claimed(outbox[r], p) \in OutboxRow /\ NextAttempt(p, outbox[r], Claimed(outbox[r], p))
    <2>1. outbox[r] \in OutboxRow /\ outbox[r].attempt_count < outbox[r].max_attempts
      BY <1>1 DEF TypeOK, Leasable
    <2>2. outbox[r].attempt_count + 1 \in 0..AttemptCeiling
      BY <2>1, CeilingAssumption DEF OutboxRow
    <2>3. Id[p] \in WorkerId
      BY IdAssumption
    <2> QED
      BY <2>1, <2>2, <2>3 DEF Claimed, NextAttempt, OutboxRow, OutboxState
  <1>3. outbox' \in [Row -> OutboxRow]
    BY <1>1, <1>2 DEF TypeOK
  <1>4. \A r \in S : NextAttempt(p, outbox[r], outbox'[r]) /\ outbox'[r] = Claimed(outbox[r], p)
    BY <1>1, <1>2
  <1> DEFINE item(r) == [row |-> r, attempt_number |-> Claimed(outbox[r], p).attempt_count,
                         max_attempts |-> outbox[r].max_attempts]
             later(r) == [row |-> r, attempt_number |-> outbox'[r].attempt_count,
                          max_attempts |-> outbox'[r].max_attempts]
  <1>5. batch' = [batch EXCEPT ![p] = {later(r) : r \in S}]
    <2>1. \A r \in S : item(r) = later(r)
      BY <1>4 DEF NextAttempt
    <2>2. batch' = [batch EXCEPT ![p] = {item(r) : r \in S}]
      BY <1>1
    <2> HIDE DEF item, later
    <2>3. {item(r) : r \in S} = {later(r) : r \in S}
      BY <2>1
    <2> QED
      BY <2>2, <2>3
  <1> QED
    BY <1>1, <1>3, <1>4, <1>5 DEF Lease

\* The part the three recording transactions share; state is where they end.
Recorded(p, s, state) ==
  /\ HoldsLease(p, s.item)
  /\ AppendAttemptEvent(p, s)
  /\ Outcome(s.answer) = "DELIVERED" <=> state = "DELIVERED"
  /\ state = "PENDING" =>
       Retryable(s.answer) /\ ~IsFinalAttempt(s.item) /\ UNCHANGED ledger
  /\ state = "DEAD_LETTER" =>
       ~(Retryable(s.answer) /\ ~IsFinalAttempt(s.item)) /\ WriteTerminalLedger(s, "FAILED")
  /\ state = "DELIVERED" => WriteTerminalLedger(s, "DELIVERED")
  /\ sent' = [sent EXCEPT ![p] = {}]
  /\ UNCHANGED <<batch, requests>>

LEMMA RecordRow ==
  ASSUME TypeOK, NEW p \in Process,
         RecordDelivered(p) \/ RecordRetry(p) \/ RecordDeadLetter(p)
  PROVE  \E s \in sent[p], state \in {"PENDING", "DELIVERED", "DEAD_LETTER"} :
           LET r == s.item.row
           IN /\ s \in Sent /\ s.item \in LeasedDelivery /\ r \in Row /\ s.answer \in Answer
              /\ Recorded(p, s, state)
              /\ OneRowChanges(r)
              /\ outbox'[r].state = state /\ outbox'[r].lease_owner = Nobody
              /\ outbox'[r].attempt_count = outbox[r].attempt_count
              /\ outbox'[r].max_attempts = outbox[r].max_attempts
              /\ outbox'[r].redrive_count = outbox[r].redrive_count
              /\ outbox'[r].last = s.answer
  <1>1. PICK s \in sent[p], state \in {"PENDING", "DELIVERED", "DEAD_LETTER"}, due \in BOOLEAN :
          Recorded(p, s, state) /\ Transition(s, state, due)
    <2>1. CASE RecordDelivered(p)
      <3>1. PICK s \in sent[p] :
              /\ Outcome(s.answer) = "DELIVERED" /\ HoldsLease(p, s.item)
              /\ AppendAttemptEvent(p, s) /\ WriteTerminalLedger(s, "DELIVERED")
              /\ Transition(s, "DELIVERED", outbox[s.item.row].due)
              /\ sent' = [sent EXCEPT ![p] = {}] /\ UNCHANGED <<batch, requests>>
        BY <2>1 DEF RecordDelivered
      <3>2. outbox[s.item.row].due \in BOOLEAN
        BY DEF TypeOK, Sent, LeasedDelivery, OutboxRow
      <3> QED
        BY <3>1, <3>2 DEF Recorded
    <2>2. CASE RecordRetry(p)
      <3>1. PICK s \in sent[p] :
              /\ Retryable(s.answer) /\ ~IsFinalAttempt(s.item) /\ HoldsLease(p, s.item)
              /\ AppendAttemptEvent(p, s) /\ Transition(s, "PENDING", FALSE)
              /\ sent' = [sent EXCEPT ![p] = {}] /\ UNCHANGED <<ledger, batch, requests>>
        BY <2>2 DEF RecordRetry
      <3>2. Outcome(s.answer) # "DELIVERED"
        BY <3>1 DEF Retryable
      <3> QED
        BY <3>1, <3>2 DEF Recorded
    <2>3. CASE RecordDeadLetter(p)
      <3>1. PICK s \in sent[p] :
              /\ Outcome(s.answer) # "DELIVERED" /\ HoldsLease(p, s.item)
              /\ ~(Retryable(s.answer) /\ ~IsFinalAttempt(s.item))
              /\ AppendAttemptEvent(p, s) /\ WriteTerminalLedger(s, "FAILED")
              /\ Transition(s, "DEAD_LETTER", outbox[s.item.row].due)
              /\ sent' = [sent EXCEPT ![p] = {}] /\ UNCHANGED <<batch, requests>>
        BY <2>3 DEF RecordDeadLetter
      <3>2. outbox[s.item.row].due \in BOOLEAN
        BY DEF TypeOK, Sent, LeasedDelivery, OutboxRow
      <3> QED
        BY <3>1, <3>2 DEF Recorded
    <2> QED
      BY <2>1, <2>2, <2>3
  <1> DEFINE r == s.item.row
             new == [outbox[r] EXCEPT !.state = state, !.due = due, !.lease_owner = Nobody,
                                      !.lease_expired = FALSE, !.last = s.answer]
  <1>2. s \in Sent /\ s.item \in LeasedDelivery /\ r \in Row /\ s.answer \in Answer
    BY DEF TypeOK, Sent, LeasedDelivery
  <1>3. outbox[r] \in OutboxRow
    BY <1>2 DEF TypeOK
  <1>4. outbox' = [outbox EXCEPT ![r] = new]
    BY <1>1 DEF Transition
  <1>5. /\ new \in OutboxRow
        /\ new.state = state /\ new.lease_owner = Nobody /\ new.last = s.answer
        /\ new.attempt_count = outbox[r].attempt_count
        /\ new.max_attempts = outbox[r].max_attempts
        /\ new.redrive_count = outbox[r].redrive_count
    BY <1>2, <1>3 DEF OutboxRow, OutboxState
  <1> HIDE DEF new
  <1>6. OneRowChanges(r) /\ outbox'[r] = new
    BY <1>2, <1>4, <1>5 DEF TypeOK, OneRowChanges
  <1> QED
    BY <1>1, <1>2, <1>5, <1>6

LEMMA InitInvariant == Init => IInv
  <1> SUFFICES ASSUME Init PROVE IInv
    OBVIOUS
  <1>1. TypeOK
    BY CeilingAssumption
    DEF Init, TypeOK, OutboxRow, LedgerRow, Uncommitted, NoLedgerRow
  <1>2. RowsOK
    BY DEF Init, RowsOK, Uncommitted
  <1>3. ItemsOK /\ ItemsDistinct
    BY DEF Init, ItemsOK, ItemsDistinct, LeasedBy
  <1>4. RequestsOK /\ DeliveredWasAccepted /\ EventsOK
    BY DEF Init, RequestsOK, DeliveredWasAccepted, EventsOK, Uncommitted
  <1>5. EvidenceAgrees /\ LedgerAgrees
    BY DEF Init, EvidenceAgrees, LedgerAgrees, OutboxState, Uncommitted, NoLedgerRow
  <1> QED
    BY <1>1, <1>2, <1>3, <1>4, <1>5 DEF IInv

--------------------------------------------------------------------------------
(* The steps, by what they touch *)

\* A process forgets what it held, or nothing happens at all.
Dropped ==
  /\ UNCHANGED <<outbox, attempt_events, ledger, requests>>
  /\ batch' \in [Process -> SUBSET LeasedDelivery]
  /\ sent' \in [Process -> SUBSET Sent]
  /\ \A p \in Process : batch'[p] \subseteq batch[p] /\ sent'[p] \subseteq sent[p]

LEMMA StepKinds ==
  ASSUME TypeOK, [Next]_vars
  PROVE  \/ \E r \in Row : Enqueue(r) \/ Redrive(r) \/ BecomeDue(r) \/ ExpireLease(r)
         \/ \E p \in Process : Lease(p)
         \/ \E p \in Process : Post(p)
         \/ \E p \in Process : RecordDelivered(p) \/ RecordRetry(p) \/ RecordDeadLetter(p)
         \/ Dropped
  <1>1. CASE UNCHANGED vars
    BY <1>1 DEF vars, Dropped, TypeOK
  <1>2. ASSUME NEW p \in Process, LeaseLost(p) PROVE Dropped
    BY <1>2 DEF LeaseLost, Dropped, TypeOK
  <1>3. ASSUME NEW p \in Process, RecordFails(p) \/ Crash(p) PROVE Dropped
    BY <1>3 DEF RecordFails, Crash, Forget, Dropped, TypeOK
  <1> QED
    BY <1>1, <1>2, <1>3 DEF Next, Record

\* A request leaves: the item moves from the batch to the answers.
LEMMA PostStep ==
  ASSUME TypeOK, NEW p \in Process, Post(p)
  PROVE  /\ UNCHANGED <<outbox, attempt_events, ledger>>
         /\ batch' \in [Process -> SUBSET LeasedDelivery] /\ sent' \in [Process -> SUBSET Sent]
         /\ \E item \in batch[p], answer \in Answer, accepted \in BOOLEAN :
              /\ item \in LeasedDelivery
              /\ Outcome(answer) = "DELIVERED" => accepted
              /\ requests' = requests \cup
                   {[row |-> item.row, attempt_number |-> item.attempt_number,
                     accepted |-> accepted]}
              /\ sent'[p] = {[item |-> item, answer |-> answer]}
              /\ batch'[p] = batch[p] \ {item}
              /\ \A q \in Process \ {p} : batch'[q] = batch[q] /\ sent'[q] = sent[q]
  <1>1. PICK item \in batch[p], answer \in Answers :
          /\ \E accepted \in Arrivals(answer) :
               requests' = requests \cup
                 {[row |-> item.row, attempt_number |-> item.attempt_number,
                   accepted |-> accepted]}
          /\ sent' = [sent EXCEPT ![p] = {[item |-> item, answer |-> answer]}]
          /\ batch' = [batch EXCEPT ![p] = @ \ {item}]
          /\ UNCHANGED <<outbox, attempt_events, ledger>>
    BY DEF Post
  <1>2. item \in LeasedDelivery /\ answer \in Answer
    BY AnswersAssumption DEF TypeOK
  <1>3. \A accepted \in Arrivals(answer) :
          accepted \in BOOLEAN /\ (Outcome(answer) = "DELIVERED" => accepted)
    BY <1>2 DEF Arrivals, Outcome, Answer
  <1>4. [item |-> item, answer |-> answer] \in Sent
    BY <1>2 DEF Sent
  <1> QED
    BY <1>1, <1>2, <1>3, <1>4 DEF TypeOK

LEMMA TypeStep ==
  ASSUME TypeOK, RowsOK, [Next]_vars
  PROVE  TypeOK' /\ RowsOK'
  <1>1. ASSUME NEW r \in Row, Enqueue(r) PROVE TypeOK' /\ RowsOK'
    <2>1. TypeOK'
      BY <1>1, EnqueueRow DEF Enqueue, TypeOK, OneRowChanges
    <2>2. outbox'[r] \in OutboxRow
      BY <2>1 DEF TypeOK
    <2> QED
      BY <1>1, <2>1, <2>2, EnqueueRow, RowFields DEF RowsOK, OneRowChanges
  <1>2. ASSUME NEW r \in Row, Redrive(r) PROVE TypeOK' /\ RowsOK'
    <2>1. TypeOK'
      BY <1>2, RedriveRow DEF Redrive, TypeOK, OneRowChanges
    <2>2. outbox[r] \in OutboxRow /\ outbox'[r] \in OutboxRow
      BY <2>1 DEF TypeOK
    <2> QED
      BY <1>2, <2>1, <2>2, RedriveRow, RowFields DEF RowsOK, OneRowChanges
  <1>3. ASSUME NEW r \in Row, BecomeDue(r) \/ ExpireLease(r) PROVE TypeOK' /\ RowsOK'
    <2>1. TypeOK'
      BY <1>3, ClockRow DEF BecomeDue, ExpireLease, TypeOK, OneRowChanges
    <2> QED
      BY <1>3, <2>1, ClockRow DEF RowsOK, OneRowChanges, SameButClock
  <1>4. ASSUME NEW p \in Process, Lease(p) PROVE TypeOK' /\ RowsOK'
    <2>1. PICK S \in SUBSET Row :
            /\ \A r \in Row \ S : outbox'[r] = outbox[r]
            /\ \A r \in S : Leasable(r) /\ NextAttempt(p, outbox[r], outbox'[r])
            /\ batch' = [batch EXCEPT ![p] =
                 {[row |-> r, attempt_number |-> outbox'[r].attempt_count,
                   max_attempts |-> outbox'[r].max_attempts] : r \in S}]
      BY <1>4, LeaseRow
    <2>2. outbox' \in [Row -> OutboxRow]
      BY <1>4, LeaseRow
    <2>3. \A r \in Row : outbox[r] \in OutboxRow /\ outbox'[r] \in OutboxRow
      BY <2>2 DEF TypeOK
    <2>4. \A r \in S : /\ outbox'[r].attempt_count \in 1..AttemptCeiling
                        /\ outbox'[r].max_attempts \in 1..AttemptCeiling
                        /\ outbox'[r].attempt_count <= outbox'[r].max_attempts
      BY <2>1, <2>3, RowFields DEF Leasable, NextAttempt
    <2>5. \A r \in S : [row |-> r, attempt_number |-> outbox'[r].attempt_count,
                         max_attempts |-> outbox'[r].max_attempts] \in LeasedDelivery
      BY <2>4 DEF LeasedDelivery
    <2>6. TypeOK'
      <3> DEFINE items == {[row |-> r, attempt_number |-> outbox'[r].attempt_count,
                            max_attempts |-> outbox'[r].max_attempts] : r \in S}
      <3>1. items \in SUBSET LeasedDelivery
        BY <2>5
      <3>2. batch' = [batch EXCEPT ![p] = items]
        BY <2>1
      <3> HIDE DEF items
      <3>3. UNCHANGED <<attempt_events, ledger, sent, requests>>
        BY <1>4 DEF Lease
      <3> QED
        BY <2>2, <3>1, <3>2, <3>3 DEF TypeOK
    <2>7. RowsOK'
      BY <2>1, <2>3, <2>4, RowFields DEF RowsOK, NextAttempt
    <2> QED
      BY <2>6, <2>7
  <1>5. ASSUME NEW p \in Process, Post(p) PROVE TypeOK' /\ RowsOK'
    <2>1. PICK item \in batch[p], answer \in Answer, accepted \in BOOLEAN :
              /\ item \in LeasedDelivery
              /\ requests' = requests \cup
                   {[row |-> item.row, attempt_number |-> item.attempt_number,
                     accepted |-> accepted]}
              /\ sent'[p] = {[item |-> item, answer |-> answer]}
              /\ \A q \in Process \ {p} : sent'[q] = sent[q]
      BY <1>5, PostStep
    <2>2. [row |-> item.row, attempt_number |-> item.attempt_number,
           accepted |-> accepted] \in Request
      BY <2>1 DEF Request, LeasedDelivery
    <2>3. requests' \subseteq Request
      BY <2>1, <2>2 DEF TypeOK
    <2>4. \A q \in Process : \A s, t \in sent'[q] : s = t
      BY <2>1 DEF TypeOK
    <2> QED
      BY <1>5, <2>3, <2>4, PostStep DEF TypeOK, RowsOK
  <1>6. ASSUME NEW p \in Process, RecordDelivered(p) \/ RecordRetry(p) \/ RecordDeadLetter(p)
        PROVE  TypeOK' /\ RowsOK'
    <2>1. PICK s \in sent[p], state \in {"PENDING", "DELIVERED", "DEAD_LETTER"} :
           /\ s \in Sent /\ s.item \in LeasedDelivery /\ s.item.row \in Row /\ s.answer \in Answer
           /\ Recorded(p, s, state)
           /\ OneRowChanges(s.item.row)
           /\ outbox'[s.item.row].state = state
           /\ outbox'[s.item.row].attempt_count = outbox[s.item.row].attempt_count
           /\ outbox'[s.item.row].max_attempts = outbox[s.item.row].max_attempts
           /\ outbox'[s.item.row].redrive_count = outbox[s.item.row].redrive_count
      BY <1>6, RecordRow
    <2>2. Outcome(s.answer) \in AttemptOutcome
      BY DEF Outcome, AttemptOutcome
    <2>3. s.item.attempt_number \in 1..AttemptCeiling /\ Id[p] \in WorkerId
      BY <2>1, IdAssumption DEF LeasedDelivery
    <2>4. attempt_events' \subseteq AttemptEvent
      <3> DEFINE event == [row |-> s.item.row, attempt_number |-> s.item.attempt_number,
             outcome |-> Outcome(s.answer), answer |-> s.answer, lease_owner |-> Id[p]]
      <3>1. event \in AttemptEvent
        BY <2>1, <2>2, <2>3 DEF AttemptEvent
      <3> HIDE DEF event
      <3>2. attempt_events' \subseteq attempt_events \cup {event}
        BY <2>1 DEF Recorded, AppendAttemptEvent, event
      <3> QED
        BY <3>1, <3>2 DEF TypeOK
    <2>5. ledger' \in [Row -> LedgerRow]
      <3> DEFINE final(status) == [status |-> status, attempt_count |-> s.item.attempt_number,
                                   answer |-> s.answer]
      <3>1. s.item.attempt_number \in 0..AttemptCeiling
        BY <2>3
      <3>2. final("DELIVERED") \in LedgerRow /\ final("FAILED") \in LedgerRow
        BY <2>1, <3>1 DEF LedgerRow
      <3> QED
        BY <2>1, <3>2 DEF TypeOK, Recorded, WriteTerminalLedger
    <2>6. TypeOK'
      BY <2>1, <2>4, <2>5 DEF TypeOK, Recorded, OneRowChanges
    <2>7. RowsOK'
      BY <2>1 DEF RowsOK, OneRowChanges, Recorded, HoldsLease
    <2> QED
      BY <2>6, <2>7
  <1>7. ASSUME Dropped PROVE TypeOK' /\ RowsOK'
    BY <1>7 DEF Dropped, TypeOK, RowsOK
  <1> QED
    BY <1>1, <1>2, <1>3, <1>4, <1>5, <1>6, <1>7, StepKinds

--------------------------------------------------------------------------------
(* Who holds what *)

\* Steps that leave the batches and answers alone only need the rows to be
\* seen by their holders as before.
LEMMA HoldersStep ==
  ASSUME TypeOK, RowsOK, TypeOK', [Next]_vars, ItemsOK, ItemsDistinct
  PROVE  ItemsOK' /\ ItemsDistinct'
  <1>0. \A p \in Process : \A i \in LeasedBy(p) : i \in LeasedDelivery /\ i.row \in Row
    BY DEF TypeOK, LeasedBy, Sent, LeasedDelivery
  <1>a. \A r \in Row : outbox[r] \in OutboxRow /\ outbox'[r] \in OutboxRow
    BY DEF TypeOK
  <1>1. ASSUME NEW r \in Row, Enqueue(r) \/ Redrive(r) \/ BecomeDue(r) \/ ExpireLease(r)
        PROVE  ItemsOK' /\ ItemsDistinct'
    <2>1. UNCHANGED <<batch, sent>>
      BY <1>1 DEF Enqueue, Redrive, BecomeDue, ExpireLease
    <2>2. \A p \in Process : LeasedBy(p)' = LeasedBy(p)
      BY <2>1 DEF LeasedBy
    <2>3. \A x \in Row :
            /\ outbox'[x].attempt_count >= outbox[x].attempt_count
            /\ outbox'[x].state = "IN_FLIGHT" => SameButClock(outbox[x], outbox'[x])
      <3>1. CASE Enqueue(r)
        BY <3>1, <1>a, EnqueueRow, RowFields DEF OneRowChanges, SameButClock, RowsOK
      <3>2. CASE Redrive(r)
        BY <3>2, <1>a, RedriveRow, RowFields DEF OneRowChanges, SameButClock
      <3>3. CASE BecomeDue(r) \/ ExpireLease(r)
        BY <3>3, <1>a, ClockRow, RowFields DEF OneRowChanges, SameButClock
      <3> QED
        BY <1>1, <3>1, <3>2, <3>3
    <2>4. ItemsOK'
      BY <1>0, <1>a, <2>2, <2>3, RowFields DEF ItemsOK, HoldsLease, SameButClock, LeasedDelivery
    <2> QED
      BY <2>2, <2>4 DEF ItemsDistinct
  <1>2. ASSUME NEW p \in Process, Lease(p) PROVE ItemsOK' /\ ItemsDistinct'
    <2>1. PICK S \in SUBSET Row :
            /\ \A r \in Row \ S : outbox'[r] = outbox[r]
            /\ \A r \in S : Leasable(r) /\ NextAttempt(p, outbox[r], outbox'[r])
            /\ batch' = [batch EXCEPT ![p] =
                 {[row |-> r, attempt_number |-> outbox'[r].attempt_count,
                   max_attempts |-> outbox'[r].max_attempts] : r \in S}]
      BY <1>2, LeaseRow
    <2> DEFINE Item(r) == [row |-> r, attempt_number |-> outbox'[r].attempt_count,
                           max_attempts |-> outbox'[r].max_attempts]
    <2>2. LeasedBy(p)' = {Item(r) : r \in S} /\ LeasedBy(p) = {}
      <3> DEFINE items == {Item(r) : r \in S}
      <3>1. batch' = [batch EXCEPT ![p] = items]
        BY <2>1
      <3>2. batch[p] = {} /\ sent[p] = {} /\ sent' = sent
        BY <1>2 DEF Lease
      <3> HIDE DEF items
      <3>3. batch'[p] = items
        BY <3>1 DEF TypeOK
      <3>4. LeasedBy(p)' = items /\ LeasedBy(p) = {}
        BY <3>2, <3>3 DEF LeasedBy
      <3> QED
        BY <3>4 DEF items
    <2>3. \A q \in Process \ {p} : LeasedBy(q)' = LeasedBy(q)
      <3> DEFINE items == {Item(r) : r \in S}
      <3>1. batch' = [batch EXCEPT ![p] = items] /\ sent' = sent
        BY <1>2, <2>1 DEF Lease
      <3> HIDE DEF items
      <3> QED
        BY <3>1 DEF LeasedBy, TypeOK
    <2>4. \A r \in S : outbox'[r].attempt_count = outbox[r].attempt_count + 1
      BY <2>1 DEF NextAttempt
    <2>5. \A x \in Row : outbox'[x].attempt_count >= outbox[x].attempt_count
      BY <1>a, <2>1, <2>4, RowFields
    <2>6. ItemsOK'
      <3>1. \A i \in LeasedBy(p)' :
              i.attempt_number = outbox'[i.row].attempt_count
              /\ i.max_attempts = outbox'[i.row].max_attempts
        BY <2>2
      <3>2. ASSUME NEW q \in Process \ {p}, NEW i \in LeasedBy(q)'
            PROVE  /\ i.attempt_number <= outbox'[i.row].attempt_count
                   /\ HoldsLease(q, i)' => i.max_attempts = outbox'[i.row].max_attempts
        <4>1. i \in LeasedBy(q) /\ i.row \in Row /\ i.attempt_number \in Nat
          BY <1>0, <2>3 DEF LeasedDelivery
        <4>2. i.attempt_number <= outbox[i.row].attempt_count
          BY <4>1 DEF ItemsOK
        <4>3. CASE i.row \in S
          BY <1>a, <2>4, <4>1, <4>2, <4>3, RowFields DEF HoldsLease
        <4>4. CASE i.row \notin S
          BY <2>1, <4>1, <4>2, <4>4 DEF HoldsLease, ItemsOK
        <4> QED
          BY <4>3, <4>4
      <3>3. \A i \in LeasedBy(p)' : i.row \in Row
        BY <2>2
      <3> QED
        BY <1>a, <3>1, <3>2, <3>3, RowFields DEF ItemsOK
    <2>7. ItemsDistinct'
      <3>1. ASSUME NEW q \in Process \ {p}, NEW i \in LeasedBy(p)', NEW j \in LeasedBy(q)',
                   i.row = j.row
            PROVE  i.attempt_number # j.attempt_number
        <4>1. j \in LeasedBy(q) /\ j.row \in Row /\ j.attempt_number \in Nat
          BY <1>0, <2>3 DEF LeasedDelivery
        <4>2. j.attempt_number <= outbox[j.row].attempt_count
          BY <4>1 DEF ItemsOK
        <4>3. i.row \in S /\ i.attempt_number = outbox[i.row].attempt_count + 1
          BY <2>2, <2>4
        <4> QED
          BY <1>a, <3>1, <4>1, <4>2, <4>3, RowFields
      <3>2. \A i, j \in LeasedBy(p)' : i.row = j.row => i = j
        BY <2>2
      <3> QED
        BY <2>3, <3>1, <3>2 DEF ItemsDistinct
    <2> QED
      BY <2>6, <2>7
  <1>3. ASSUME NEW p \in Process, Post(p) PROVE ItemsOK' /\ ItemsDistinct'
    <2>1. UNCHANGED outbox
      BY <1>3 DEF Post
    <2>2. PICK item \in batch[p], answer \in Answer :
            /\ sent'[p] = {[item |-> item, answer |-> answer]}
            /\ batch'[p] = batch[p] \ {item}
            /\ \A q \in Process \ {p} : batch'[q] = batch[q] /\ sent'[q] = sent[q]
      BY <1>3, PostStep
    <2>3. \A q \in Process : LeasedBy(q)' \subseteq LeasedBy(q)
      BY <2>2 DEF LeasedBy
    <2> QED
      BY <2>1, <2>3 DEF ItemsOK, ItemsDistinct, HoldsLease
  <1>4. ASSUME NEW p \in Process, RecordDelivered(p) \/ RecordRetry(p) \/ RecordDeadLetter(p)
        PROVE  ItemsOK' /\ ItemsDistinct'
    <2>1. PICK s \in sent[p], state \in {"PENDING", "DELIVERED", "DEAD_LETTER"} :
           /\ s.item.row \in Row
           /\ Recorded(p, s, state)
           /\ OneRowChanges(s.item.row)
           /\ outbox'[s.item.row].state = state
           /\ outbox'[s.item.row].attempt_count = outbox[s.item.row].attempt_count
      BY <1>4, RecordRow
    <2>2. \A q \in Process : LeasedBy(q)' \subseteq LeasedBy(q)
      BY <2>1 DEF LeasedBy, Recorded, TypeOK
    <2>3. ItemsOK'
      BY <1>0, <2>1, <2>2 DEF ItemsOK, HoldsLease, OneRowChanges
    <2> QED
      BY <2>2, <2>3 DEF ItemsDistinct
  <1>5. ASSUME Dropped PROVE ItemsOK' /\ ItemsDistinct'
    <2>1. \A q \in Process : LeasedBy(q)' \subseteq LeasedBy(q)
      BY <1>5 DEF LeasedBy, Dropped
    <2> QED
      BY <1>5, <2>1 DEF ItemsOK, ItemsDistinct, HoldsLease, Dropped
  <1> QED
    BY <1>1, <1>2, <1>3, <1>4, <1>5, StepKinds

--------------------------------------------------------------------------------
(* What was sent, and what is recorded of it *)

\* The three ways a row changes outside the workers' transactions.
QuietChange(old, new) ==
  \/ SameButClock(old, new)
  \/ /\ old.state = "UNCOMMITTED" /\ new.state = "PENDING"
     /\ old.attempt_count = 0 /\ new.attempt_count = 0
     /\ old.redrive_count = 0 /\ new.redrive_count = 0
  \/ /\ old.state = "DEAD_LETTER" /\ new.state = "PENDING"
     /\ new.attempt_count = old.attempt_count /\ new.last = old.last
     /\ new.redrive_count = old.redrive_count + 1

LEMMA QuietStep ==
  ASSUME TypeOK, RowsOK, NEW r \in Row,
         Enqueue(r) \/ Redrive(r) \/ BecomeDue(r) \/ ExpireLease(r)
  PROVE  /\ UNCHANGED <<attempt_events, ledger, batch, sent, requests>>
         /\ \A x \in Row : QuietChange(outbox[x], outbox'[x])
  <1>1. UNCHANGED <<attempt_events, ledger, batch, sent, requests>>
    BY DEF Enqueue, Redrive, BecomeDue, ExpireLease
  <1>2. outbox[r] \in OutboxRow
    BY DEF TypeOK
  <1>3. QuietChange(outbox[r], outbox'[r]) /\ OneRowChanges(r)
    <2>1. CASE Enqueue(r)
      <3>1. outbox[r].attempt_count = 0 /\ outbox[r].redrive_count = 0
        BY <1>2, <2>1, EnqueueRow, RowFields DEF RowsOK
      <3> QED
        BY <2>1, <3>1, EnqueueRow DEF QuietChange
    <2>2. CASE Redrive(r)
      BY <2>2, RedriveRow DEF QuietChange
    <2>3. CASE BecomeDue(r) \/ ExpireLease(r)
      BY <2>3, ClockRow DEF QuietChange
    <2> QED
      BY <2>1, <2>2, <2>3
  <1>4. \A x \in Row \ {r} : QuietChange(outbox[x], outbox'[x])
    BY <1>3 DEF OneRowChanges, QuietChange, SameButClock
  <1> QED
    BY <1>1, <1>3, <1>4

LEMMA RequestsStep ==
  ASSUME TypeOK, RowsOK, TypeOK', [Next]_vars, ItemsOK, ItemsDistinct, RequestsOK,
         DeliveredWasAccepted
  PROVE  RequestsOK' /\ DeliveredWasAccepted'
  <1>a. \A r \in Row : outbox[r] \in OutboxRow /\ outbox'[r] \in OutboxRow
    BY DEF TypeOK
  <1>b. \A q \in requests : q.row \in Row /\ q.attempt_number \in Nat
    BY DEF TypeOK, Request
  <1>1. ASSUME NEW r \in Row, Enqueue(r) \/ Redrive(r) \/ BecomeDue(r) \/ ExpireLease(r)
        PROVE  RequestsOK' /\ DeliveredWasAccepted'
    <2>1. /\ UNCHANGED <<batch, sent, requests>>
          /\ \A x \in Row : QuietChange(outbox[x], outbox'[x])
      BY <1>1, QuietStep
    <2>2. \A x \in Row : outbox'[x].attempt_count = outbox[x].attempt_count
      BY <2>1 DEF QuietChange, SameButClock
    <2>3. RequestsOK'
      BY <1>b, <2>1, <2>2 DEF RequestsOK
    <2>4. DeliveredWasAccepted'
      BY <2>1 DEF DeliveredWasAccepted, QuietChange, SameButClock
    <2> QED
      BY <2>3, <2>4
  <1>2. ASSUME NEW p \in Process, Lease(p) PROVE RequestsOK' /\ DeliveredWasAccepted'
    <2>1. PICK S \in SUBSET Row :
            /\ \A r \in Row \ S : outbox'[r] = outbox[r]
            /\ \A r \in S : Leasable(r) /\ NextAttempt(p, outbox[r], outbox'[r])
            /\ batch' = [batch EXCEPT ![p] =
                 {[row |-> r, attempt_number |-> outbox'[r].attempt_count,
                   max_attempts |-> outbox'[r].max_attempts] : r \in S}]
      BY <1>2, LeaseRow
    <2>2. UNCHANGED <<sent, requests>>
      BY <1>2 DEF Lease
    <2>3. \A r \in S : outbox'[r].attempt_count = outbox[r].attempt_count + 1
      BY <2>1 DEF NextAttempt
    <2>4. \A x \in Row : outbox'[x].attempt_count >= outbox[x].attempt_count
      BY <1>a, <2>1, <2>3, RowFields
    <2>5. \A q \in requests : q.attempt_number <= outbox'[q.row].attempt_count
      BY <1>a, <1>b, <2>4, RowFields DEF RequestsOK
    <2>6. ASSUME NEW w \in Process, NEW i \in batch'[w], NEW q \in requests
          PROVE  <<q.row, q.attempt_number>> # <<i.row, i.attempt_number>>
      <3> DEFINE items == {[row |-> r, attempt_number |-> outbox'[r].attempt_count,
                            max_attempts |-> outbox'[r].max_attempts] : r \in S}
      <3>1. batch' = [batch EXCEPT ![p] = items]
        BY <2>1
      <3>2. \A j \in items : j.row \in S /\ j.attempt_number = outbox[j.row].attempt_count + 1
        BY <2>3
      <3> HIDE DEF items
      <3>3. CASE w = p
        <4>1. i.row \in S /\ i.attempt_number = outbox[i.row].attempt_count + 1
          BY <3>1, <3>2, <3>3 DEF TypeOK
        <4>2. q.attempt_number <= outbox[q.row].attempt_count
          BY DEF RequestsOK
        <4> QED
          BY <1>a, <1>b, <4>1, <4>2, RowFields
      <3>4. CASE w # p
        BY <3>1, <3>4 DEF TypeOK, RequestsOK
      <3> QED
        BY <3>3, <3>4
    <2>7. DeliveredWasAccepted'
      BY <2>1, <2>2 DEF DeliveredWasAccepted, NextAttempt
    <2> QED
      BY <2>2, <2>5, <2>6, <2>7 DEF RequestsOK
  <1>3. ASSUME NEW p \in Process, Post(p) PROVE RequestsOK' /\ DeliveredWasAccepted'
    <2>1. PICK item \in batch[p], answer \in Answer, accepted \in BOOLEAN :
            /\ Outcome(answer) = "DELIVERED" => accepted
            /\ requests' = requests \cup
                 {[row |-> item.row, attempt_number |-> item.attempt_number,
                   accepted |-> accepted]}
            /\ sent'[p] = {[item |-> item, answer |-> answer]}
            /\ batch'[p] = batch[p] \ {item}
            /\ \A q \in Process \ {p} : batch'[q] = batch[q] /\ sent'[q] = sent[q]
      BY <1>3, PostStep
    <2>2. UNCHANGED outbox
      BY <1>3, PostStep
    <2>3. item.attempt_number <= outbox[item.row].attempt_count
      BY DEF ItemsOK, LeasedBy
    <2>4. \A q \in requests' : q.attempt_number <= outbox'[q.row].attempt_count
      BY <2>1, <2>2, <2>3 DEF RequestsOK
    <2>5. ASSUME NEW w \in Process, NEW i \in batch'[w]
          PROVE  <<item.row, item.attempt_number>> # <<i.row, i.attempt_number>>
      BY <2>1 DEF ItemsDistinct, LeasedBy
    <2>6. \A w \in Process : \A i \in batch'[w] : \A q \in requests' :
            <<q.row, q.attempt_number>> # <<i.row, i.attempt_number>>
      BY <2>1, <2>5 DEF RequestsOK
    <2>7. \A w \in Process : \A s \in sent'[w] : Outcome(s.answer) = "DELIVERED" =>
            [row |-> s.item.row, attempt_number |-> s.item.attempt_number,
             accepted |-> TRUE] \in requests'
      <3>1. Outcome(answer) = "DELIVERED" =>
              [row |-> item.row, attempt_number |-> item.attempt_number,
               accepted |-> TRUE] \in requests'
        <4>1. SUFFICES ASSUME Outcome(answer) = "DELIVERED"
                       PROVE  [row |-> item.row, attempt_number |-> item.attempt_number,
                               accepted |-> TRUE] \in requests'
          OBVIOUS
        <4>2. accepted = TRUE
          BY <2>1, <4>1
        <4> QED
          BY <2>1, <4>2
      <3>2. \A s \in sent'[p] : s.item = item /\ s.answer = answer
        BY <2>1
      <3>3. requests \subseteq requests'
        BY <2>1
      <3> QED
        BY <2>1, <3>1, <3>2, <3>3 DEF RequestsOK
    <2>8. DeliveredWasAccepted'
      BY <2>1, <2>2 DEF DeliveredWasAccepted
    <2> QED
      BY <2>4, <2>6, <2>7, <2>8 DEF RequestsOK
  <1>4. ASSUME NEW p \in Process, RecordDelivered(p) \/ RecordRetry(p) \/ RecordDeadLetter(p)
        PROVE  RequestsOK' /\ DeliveredWasAccepted'
    <2>1. PICK s \in sent[p], state \in {"PENDING", "DELIVERED", "DEAD_LETTER"} :
           /\ s.item.row \in Row
           /\ Recorded(p, s, state)
           /\ OneRowChanges(s.item.row)
           /\ outbox'[s.item.row].state = state
           /\ outbox'[s.item.row].attempt_count = outbox[s.item.row].attempt_count
      BY <1>4, RecordRow
    <2>2. UNCHANGED <<batch, requests>> /\ \A q \in Process : sent'[q] \subseteq sent[q]
      BY <2>1 DEF Recorded, TypeOK
    <2>3. RequestsOK'
      BY <1>b, <2>1, <2>2 DEF RequestsOK, OneRowChanges
    <2>4. DeliveredWasAccepted'
      BY <2>1, <2>2 DEF DeliveredWasAccepted, RequestsOK, OneRowChanges, Recorded, HoldsLease
    <2> QED
      BY <2>3, <2>4
  <1>5. ASSUME Dropped PROVE RequestsOK' /\ DeliveredWasAccepted'
    <2>1. UNCHANGED <<outbox, requests>>
          /\ \A q \in Process : batch'[q] \subseteq batch[q] /\ sent'[q] \subseteq sent[q]
      BY <1>5 DEF Dropped
    <2> QED
      BY <2>1 DEF RequestsOK, DeliveredWasAccepted
  <1> QED
    BY <1>1, <1>2, <1>3, <1>4, <1>5, StepKinds

\* A recording transaction adds the one event of the active attempt.
LEMMA RecordEvent ==
  ASSUME TypeOK, EventsOK, NEW p \in Process, NEW s \in Sent, HoldsLease(p, s.item),
         AppendAttemptEvent(p, s)
  PROVE  /\ s.item.attempt_number = outbox[s.item.row].attempt_count
         /\ attempt_events' = attempt_events \cup
              {[row |-> s.item.row, attempt_number |-> s.item.attempt_number,
                outcome |-> Outcome(s.answer), answer |-> s.answer, lease_owner |-> Id[p]]}
  <1>1. outbox[s.item.row].state = "IN_FLIGHT"
        /\ s.item.attempt_number = outbox[s.item.row].attempt_count
    BY DEF HoldsLease
  <1>2. outbox[s.item.row].attempt_count \in Nat
    BY CeilingAssumption DEF TypeOK, OutboxRow, Sent, LeasedDelivery
  <1>3. \A e \in attempt_events : e.attempt_number \in Nat
    BY CeilingAssumption DEF TypeOK, AttemptEvent
  <1>4. ~ \E e \in attempt_events :
            e.row = s.item.row /\ e.attempt_number = s.item.attempt_number
    BY <1>1, <1>2, <1>3 DEF EventsOK
  <1> QED
    BY <1>1, <1>4 DEF AppendAttemptEvent

\* EvidenceAgrees and LedgerAgrees, one row or event at a time.
EventFits(e, row) ==
  /\ e.attempt_number <= row.attempt_count
  /\ e.outcome = "DELIVERED" =>
       row.state = "DELIVERED" /\ e.attempt_number = row.attempt_count

HasEvidence(r, row, evs) ==
  row.state \in OutboxState \ {"IN_FLIGHT"} /\ row.attempt_count > 0 =>
    \E e \in evs :
      /\ e.row = r /\ e.attempt_number = row.attempt_count /\ e.answer = row.last
      /\ e.outcome = "DELIVERED" <=> row.state = "DELIVERED"

LedgerFits(row, led) ==
  /\ led.status = "ABSENT" <=>
       row.redrive_count = 0 /\ row.state \notin {"DELIVERED", "DEAD_LETTER"}
  /\ row.redrive_count > 0 => led.status = "FAILED"
  /\ row.redrive_count = 0 /\ row.state \in {"DELIVERED", "DEAD_LETTER"} =>
       led.attempt_count = row.attempt_count

LedgerHasEvidence(r, led, evs) ==
  led.status # "ABSENT" =>
    \E e \in evs :
      /\ e.row = r /\ e.attempt_number = led.attempt_count /\ e.answer = led.answer
      /\ e.outcome = "DELIVERED" <=> led.status = "DELIVERED"

LEMMA EvidenceByRow ==
  /\ EvidenceAgrees <=>
       /\ \A e, f \in attempt_events :
            e.row = f.row /\ e.attempt_number = f.attempt_number => e = f
       /\ \A e \in attempt_events : EventFits(e, outbox[e.row])
       /\ \A r \in Row : HasEvidence(r, outbox[r], attempt_events)
  /\ LedgerAgrees <=>
       \A r \in Row : LedgerFits(outbox[r], ledger[r])
                      /\ LedgerHasEvidence(r, ledger[r], attempt_events)
  BY DEF EvidenceAgrees, LedgerAgrees, EventFits, HasEvidence, LedgerFits, LedgerHasEvidence

LEMMA EvidenceByRowNext ==
  /\ EvidenceAgrees' <=>
       /\ \A e, f \in attempt_events' :
            e.row = f.row /\ e.attempt_number = f.attempt_number => e = f
       /\ \A e \in attempt_events' : EventFits(e, outbox'[e.row])
       /\ \A r \in Row : HasEvidence(r, outbox'[r], attempt_events')
  /\ LedgerAgrees' <=>
       \A r \in Row : LedgerFits(outbox'[r], ledger'[r])
                      /\ LedgerHasEvidence(r, ledger'[r], attempt_events')
  BY DEF EvidenceAgrees, LedgerAgrees, EventFits, HasEvidence, LedgerFits, LedgerHasEvidence

LEMMA EvidenceStep ==
  ASSUME TypeOK, RowsOK, TypeOK', [Next]_vars, EventsOK, EvidenceAgrees, LedgerAgrees
  PROVE  EventsOK' /\ EvidenceAgrees' /\ LedgerAgrees'
  <1>a. \A r \in Row : outbox[r] \in OutboxRow /\ outbox'[r] \in OutboxRow
    BY DEF TypeOK
  <1>b. \A e \in attempt_events : e.row \in Row /\ e.attempt_number \in Nat
    BY CeilingAssumption DEF TypeOK, AttemptEvent
  <1>c. /\ \A e, f \in attempt_events :
             e.row = f.row /\ e.attempt_number = f.attempt_number => e = f
        /\ \A e \in attempt_events : EventFits(e, outbox[e.row])
        /\ \A r \in Row : /\ HasEvidence(r, outbox[r], attempt_events)
                          /\ LedgerFits(outbox[r], ledger[r])
                          /\ LedgerHasEvidence(r, ledger[r], attempt_events)
    BY EvidenceByRow
  <1>1. ASSUME NEW r \in Row, Enqueue(r) \/ Redrive(r) \/ BecomeDue(r) \/ ExpireLease(r)
        PROVE  EventsOK' /\ EvidenceAgrees' /\ LedgerAgrees'
    <2>1. /\ UNCHANGED <<attempt_events, ledger>>
          /\ \A x \in Row : QuietChange(outbox[x], outbox'[x])
      BY <1>1, QuietStep
    <2>2. EventsOK'
      BY <1>b, <2>1 DEF EventsOK, QuietChange, SameButClock
    <2>3. \A e \in attempt_events : EventFits(e, outbox'[e.row])
      BY <1>b, <1>c, <2>1 DEF EventFits, QuietChange, SameButClock
    <2>4. ASSUME NEW x \in Row
          PROVE  HasEvidence(x, outbox'[x], attempt_events) /\ LedgerFits(outbox'[x], ledger[x])
      <3>1. QuietChange(outbox[x], outbox'[x]) /\ outbox[x].redrive_count \in Nat
        BY <1>a, <2>1, RowFields
      <3>2. HasEvidence(x, outbox[x], attempt_events) /\ LedgerFits(outbox[x], ledger[x])
            /\ LedgerHasEvidence(x, ledger[x], attempt_events)
        BY <1>c
      <3>3. outbox[x].state = "DEAD_LETTER" => ledger[x].status = "FAILED"
        <4>1. ledger[x].status \in {"ABSENT", "DELIVERED", "FAILED"}
          BY DEF TypeOK, LedgerRow
        <4>2. outbox[x].state = "DEAD_LETTER" => ledger[x].status # "ABSENT"
          BY <3>2 DEF LedgerFits
        <4>3. ledger[x].status = "DELIVERED" => outbox[x].state = "DELIVERED"
          BY <1>c, <3>2 DEF LedgerHasEvidence, EventFits
        <4> QED
          BY <4>1, <4>2, <4>3
      <3>4. CASE SameButClock(outbox[x], outbox'[x])
        BY <3>2, <3>4 DEF HasEvidence, LedgerFits, SameButClock
      <3>5. CASE outbox[x].state = "UNCOMMITTED" /\ ~SameButClock(outbox[x], outbox'[x])
        BY <3>1, <3>2, <3>5 DEF HasEvidence, LedgerFits, QuietChange
      <3>6. CASE outbox[x].state = "DEAD_LETTER" /\ ~SameButClock(outbox[x], outbox'[x])
        BY <3>1, <3>2, <3>3, <3>6 DEF HasEvidence, LedgerFits, QuietChange, OutboxState
      <3> QED
        BY <3>1, <3>4, <3>5, <3>6 DEF QuietChange
    <2> QED
      BY <1>c, <2>1, <2>2, <2>3, <2>4, EvidenceByRowNext
  <1>2. ASSUME NEW p \in Process, Lease(p)
        PROVE  EventsOK' /\ EvidenceAgrees' /\ LedgerAgrees'
    <2>1. PICK S \in SUBSET Row :
            /\ \A r \in Row \ S : outbox'[r] = outbox[r]
            /\ \A r \in S : Leasable(r) /\ NextAttempt(p, outbox[r], outbox'[r])
      BY <1>2, LeaseRow
    <2>2. UNCHANGED <<attempt_events, ledger>>
      BY <1>2 DEF Lease
    <2>3. \A r \in S : /\ outbox'[r].attempt_count = outbox[r].attempt_count + 1
                        /\ outbox[r].attempt_count \in Nat
                        /\ outbox[r].state \in {"PENDING", "IN_FLIGHT"}
                        /\ outbox'[r].state = "IN_FLIGHT"
                        /\ outbox'[r].redrive_count = outbox[r].redrive_count
      BY <1>a, <2>1, RowFields DEF Leasable, NextAttempt
    <2>4. ASSUME NEW e \in attempt_events
          PROVE  /\ EventFits(e, outbox'[e.row])
                 /\ outbox'[e.row].state = "IN_FLIGHT" =>
                      e.attempt_number < outbox'[e.row].attempt_count
      <3>1. EventFits(e, outbox[e.row])
        BY <1>c
      <3>2. CASE e.row \in S
        BY <1>b, <2>3, <3>1, <3>2 DEF EventFits
      <3>3. CASE e.row \notin S
        BY <1>b, <2>1, <3>1, <3>3 DEF EventsOK
      <3> QED
        BY <3>2, <3>3
    <2>5. \A r \in Row : HasEvidence(r, outbox'[r], attempt_events)
      BY <1>c, <2>1, <2>3 DEF HasEvidence
    <2>6. \A r \in Row : LedgerFits(outbox'[r], ledger[r])
      BY <1>c, <2>1, <2>3 DEF LedgerFits
    <2>7. EventsOK'
      BY <2>2, <2>4 DEF EventsOK
    <2> QED
      BY <1>c, <2>2, <2>4, <2>5, <2>6, <2>7, EvidenceByRowNext
  <1>3. ASSUME UNCHANGED <<outbox, attempt_events, ledger>>
        PROVE  EventsOK' /\ EvidenceAgrees' /\ LedgerAgrees'
    BY <1>3 DEF EventsOK, EvidenceAgrees, LedgerAgrees
  <1>4. ASSUME NEW p \in Process, RecordDelivered(p) \/ RecordRetry(p) \/ RecordDeadLetter(p)
        PROVE  EventsOK' /\ EvidenceAgrees' /\ LedgerAgrees'
    <2>1. PICK s \in sent[p], state \in {"PENDING", "DELIVERED", "DEAD_LETTER"} :
           /\ s \in Sent /\ s.item.row \in Row
           /\ Recorded(p, s, state)
           /\ OneRowChanges(s.item.row)
           /\ outbox'[s.item.row].state = state
           /\ outbox'[s.item.row].attempt_count = outbox[s.item.row].attempt_count
           /\ outbox'[s.item.row].redrive_count = outbox[s.item.row].redrive_count
           /\ outbox'[s.item.row].last = s.answer
      BY <1>4, RecordRow
    <2> DEFINE r == s.item.row
               event == [row |-> r, attempt_number |-> s.item.attempt_number,
                         outcome |-> Outcome(s.answer), answer |-> s.answer,
                         lease_owner |-> Id[p]]
    <2>2. /\ s.item.attempt_number = outbox[r].attempt_count
          /\ attempt_events' = attempt_events \cup {event}
      BY <2>1, RecordEvent DEF Recorded
    <2>3. /\ event.row = r /\ event.attempt_number = outbox[r].attempt_count
          /\ event.outcome = Outcome(s.answer) /\ event.answer = s.answer
          /\ event.outcome = "DELIVERED" <=> state = "DELIVERED"
      BY <2>1, <2>2 DEF Recorded
    <2> HIDE DEF event
    <2>4. outbox[r].state = "IN_FLIGHT" /\ outbox[r].attempt_count \in Nat
      BY <1>a, <2>1, RowFields DEF Recorded, HoldsLease
    <2>5. \A e \in attempt_events : e.row = r => e.attempt_number < outbox[r].attempt_count
      BY <2>4 DEF EventsOK
    <2>6. EventsOK'
      BY <1>b, <2>1, <2>2, <2>3 DEF EventsOK, OneRowChanges
    <2>7. \A e, f \in attempt_events' :
            e.row = f.row /\ e.attempt_number = f.attempt_number => e = f
      BY <1>b, <1>c, <2>2, <2>3, <2>4, <2>5
    <2>8. \A e \in attempt_events' : EventFits(e, outbox'[e.row])
      <3>1. EventFits(event, outbox'[r])
        BY <2>1, <2>3, <2>4 DEF EventFits
      <3>2. \A e \in attempt_events : EventFits(e, outbox'[e.row])
        BY <1>b, <1>c, <2>1, <2>4 DEF EventFits, OneRowChanges
      <3> QED
        BY <2>2, <2>3, <3>1, <3>2
    <2>9. \A x \in Row : HasEvidence(x, outbox'[x], attempt_events')
      <3>1. HasEvidence(r, outbox'[r], attempt_events')
        BY <2>1, <2>2, <2>3 DEF HasEvidence
      <3>2. \A x \in Row \ {r} : outbox'[x] = outbox[x] /\ HasEvidence(x, outbox[x], attempt_events')
        BY <1>c, <2>1, <2>2 DEF HasEvidence, OneRowChanges
      <3> QED
        BY <3>1, <3>2
    <2>10. \A x \in Row \ {r} : ledger'[x] = ledger[x]
      BY <2>1 DEF Recorded, WriteTerminalLedger, TypeOK
    <2>11. LedgerFits(outbox'[r], ledger'[r]) /\ LedgerHasEvidence(r, ledger'[r], attempt_events')
      <3>1. LedgerFits(outbox[r], ledger[r]) /\ LedgerHasEvidence(r, ledger[r], attempt_events')
        BY <1>c, <2>1, <2>2 DEF LedgerHasEvidence
      <3>2. outbox[r].redrive_count \in Nat
        BY <1>a, <2>1, RowFields
      <3>3. CASE state = "PENDING" \/ ledger[r].status # "ABSENT"
        <4>1. ledger'[r] = ledger[r]
          BY <2>1, <3>3 DEF Recorded, WriteTerminalLedger
        <4> QED
          BY <2>1, <2>4, <3>1, <3>2, <3>3, <4>1 DEF LedgerFits
      <3>4. CASE state # "PENDING" /\ ledger[r].status = "ABSENT"
        <4> DEFINE status == IF state = "DELIVERED" THEN "DELIVERED" ELSE "FAILED"
        <4>1. ledger' = [ledger EXCEPT ![r] =
                [status |-> status, attempt_count |-> s.item.attempt_number, answer |-> s.answer]]
          BY <2>1, <3>4 DEF Recorded, WriteTerminalLedger
        <4>2. /\ ledger'[r].status = status /\ ledger'[r].answer = s.answer
              /\ ledger'[r].attempt_count = outbox[r].attempt_count
          BY <2>1, <2>2, <4>1 DEF TypeOK
        <4>3. LedgerFits(outbox'[r], ledger'[r])
          BY <2>1, <3>1, <3>2, <3>4, <4>2 DEF LedgerFits
        <4>4. LedgerHasEvidence(r, ledger'[r], attempt_events')
          BY <2>1, <2>2, <2>3, <3>4, <4>2 DEF LedgerHasEvidence
        <4> QED
          BY <4>3, <4>4
      <3> QED
        BY <3>3, <3>4
    <2>12. \A x \in Row \ {r} :
             LedgerFits(outbox'[x], ledger'[x]) /\ LedgerHasEvidence(x, ledger'[x], attempt_events')
      BY <1>c, <2>1, <2>2, <2>10 DEF OneRowChanges, LedgerHasEvidence
    <2> QED
      BY <2>6, <2>7, <2>8, <2>9, <2>11, <2>12, EvidenceByRowNext
  <1> QED
    BY <1>1, <1>2, <1>3, <1>4, StepKinds DEF Post, Dropped

--------------------------------------------------------------------------------
(* The invariants *)

LEMMA InvariantStep == IInv /\ [Next]_vars => IInv'
  <1> SUFFICES ASSUME IInv, [Next]_vars PROVE IInv'
    OBVIOUS
  <1>1. TypeOK' /\ RowsOK'
    BY TypeStep DEF IInv
  <1>2. ItemsOK' /\ ItemsDistinct'
    BY <1>1, HoldersStep DEF IInv
  <1>3. RequestsOK' /\ DeliveredWasAccepted'
    BY <1>1, RequestsStep DEF IInv
  <1>4. EventsOK' /\ EvidenceAgrees' /\ LedgerAgrees'
    BY <1>1, EvidenceStep DEF IInv
  <1> QED
    BY <1>1, <1>2, <1>3, <1>4 DEF IInv

LEMMA Invariance == Spec => []IInv
  BY InitInvariant, InvariantStep, PTL DEF Spec

\* TypeOK: no lease, take-over or re-drive takes a counter of the tables past
\* the CHECK bounds of 0007 and 0008, whatever budgets and re-drives are used.
THEOREM TypeCorrect == Spec => []TypeOK
  <1>1. IInv => TypeOK
    BY DEF IInv
  <1> QED
    BY <1>1, Invariance, PTL

\* DeliveredWasAccepted: a row record_delivered closed was accepted by the
\* receiver, on the very attempt the row names.
THEOREM DeliveryIsReal == Spec => []DeliveredWasAccepted
  <1>1. IInv => DeliveredWasAccepted
    BY DEF IInv
  <1> QED
    BY <1>1, Invariance, PTL

\* EvidenceAgrees: the append-only attempt events and the outbox row tell one
\* story, through take-overs, late answers and re-drives.
THEOREM EvidenceIsFaithful == Spec => []EvidenceAgrees
  <1>1. IInv => EvidenceAgrees
    BY DEF IInv
  <1> QED
    BY <1>1, Invariance, PTL

\* LedgerAgrees: _write_terminal_ledger leaves in 0007 the first terminal
\* outcome of the intent and its evidence.
THEOREM LedgerIsFaithful == Spec => []LedgerAgrees
  <1>1. IInv => LedgerAgrees
    BY DEF IInv
  <1> QED
    BY <1>1, Invariance, PTL

\* SoleRecorder: the check of owner and attempt number under the row lock
\* leaves one process able to record, even if all share one --worker-id.
THEOREM OneRecorder == Spec => []SoleRecorder
  <1>1. IInv => SoleRecorder
    <2> SUFFICES ASSUME IInv, NEW p \in Process, NEW q \in Process,
                        NEW i \in LeasedBy(p), NEW j \in LeasedBy(q),
                        i.row = j.row, HoldsLease(p, i), HoldsLease(q, j)
                 PROVE  p = q /\ i = j
      BY DEF SoleRecorder
    <2>1. i.attempt_number = j.attempt_number
      BY DEF HoldsLease
    <2> QED
      BY <2>1 DEF IInv, ItemsDistinct
  <1> QED
    BY <1>1, Invariance, PTL

\* EgressBounded: every request still to be sent is for an attempt within the
\* row's budget that nobody has sent before.
THEOREM EgressIsBounded == Spec => []EgressBounded
  <1>1. IInv => EgressBounded
    <2> SUFFICES ASSUME IInv, NEW p \in Process, NEW i \in batch[p]
                 PROVE  /\ i.attempt_number <= outbox[i.row].attempt_count
                        /\ outbox[i.row].attempt_count <= outbox[i.row].max_attempts
                        /\ \A q \in requests :
                             <<q.row, q.attempt_number>> # <<i.row, i.attempt_number>>
      BY DEF EgressBounded
    <2>1. i \in LeasedBy(p) /\ i.row \in Row
      BY DEF LeasedBy, IInv, TypeOK, LeasedDelivery
    <2> QED
      BY <2>1 DEF IInv, ItemsOK, RowsOK, RequestsOK
  <1> QED
    BY <1>1, Invariance, PTL

--------------------------------------------------------------------------------
(* No open intent gets out of reach *)

\* A leased row stays due, and it is held unless its owner may have failed.
ReachOK ==
  /\ \A p \in Process : \A s \in sent[p] : s.answer \in Answers
  /\ \A r \in Row : outbox[r].state = "PENDING" =>
       outbox[r].attempt_count < outbox[r].max_attempts
  /\ \A r \in Row : outbox[r].state = "IN_FLIGHT" =>
       outbox[r].due /\ (Held(r) \/ OwnerMayHaveFailed(r))

\* A row whose lease columns stay, and whose holder keeps the item, stays held.
LEMMA StillHeld ==
  ASSUME NEW r \in Row,
         outbox'[r].state = outbox[r].state,
         outbox'[r].attempt_count = outbox[r].attempt_count,
         outbox'[r].lease_owner = outbox[r].lease_owner,
         \A p \in Process : \A i \in LeasedBy(p) :
           i.row = r /\ HoldsLease(p, i) => i \in LeasedBy(p)',
         Held(r) \/ OwnerMayHaveFailed(r)
  PROVE  Held(r)' \/ OwnerMayHaveFailed(r)'
  <1>1. CASE Held(r)
    <2>p. PICK p \in Process : \E i \in LeasedBy(p) : i.row = r /\ HoldsLease(p, i)
      BY <1>1 DEF Held
    <2>1. PICK i \in LeasedBy(p) : i.row = r /\ HoldsLease(p, i)
      BY <2>p
    <2>2. i \in LeasedBy(p)' /\ HoldsLease(p, i)'
      BY <2>1 DEF HoldsLease
    <2> QED
      BY <2>1, <2>2 DEF Held
  <1>2. CASE OwnerMayHaveFailed(r)
    BY <1>2 DEF OwnerMayHaveFailed
  <1> QED
    BY <1>1, <1>2

LEMMA ReachStep ==
  ASSUME IInv, ReachOK, [Next]_vars
  PROVE  ReachOK'
  <1>a. TypeOK /\ RowsOK /\ ItemsOK
    BY DEF IInv
  <1>b. \A r \in Row : outbox[r] \in OutboxRow
    BY <1>a DEF TypeOK
  <1>1. ASSUME NEW r \in Row, Enqueue(r) PROVE ReachOK'
    <2>1. \A p \in Process : LeasedBy(p)' = LeasedBy(p)
      BY <1>1 DEF Enqueue, LeasedBy
    <2>2. sent' = sent
      BY <1>1 DEF Enqueue
    <2>3. /\ outbox'[r].state = "PENDING"
          /\ outbox'[r].attempt_count < outbox'[r].max_attempts
      <3>1. /\ outbox'[r].state = "PENDING" /\ outbox'[r].attempt_count = 0
            /\ outbox'[r].max_attempts \in Budgets
        BY <1>a, <1>1, EnqueueRow
      <3>2. \A budget \in Budgets : 0 < budget
        BY BudgetAssumption, CeilingAssumption
      <3> QED
        BY <3>1, <3>2
    <2>4. \A x \in Row \ {r} : outbox'[x] = outbox[x]
      BY <1>a, <1>1, EnqueueRow DEF OneRowChanges
    <2> QED
      BY <2>1, <2>2, <2>3, <2>4, StillHeld DEF ReachOK
  <1>2. ASSUME NEW r \in Row, Redrive(r) PROVE ReachOK'
    <2>1. \A p \in Process : LeasedBy(p)' = LeasedBy(p)
      BY <1>2 DEF Redrive, LeasedBy
    <2>2. sent' = sent
      BY <1>2 DEF Redrive
    <2>3. /\ outbox'[r].state = "PENDING"
          /\ outbox'[r].attempt_count < outbox'[r].max_attempts
      BY <1>a, <1>b, <1>2, RedriveRow, RowFields
    <2>4. \A x \in Row \ {r} : outbox'[x] = outbox[x]
      BY <1>a, <1>2, RedriveRow DEF OneRowChanges
    <2> QED
      BY <2>1, <2>2, <2>3, <2>4, StillHeld DEF ReachOK
  <1>3. ASSUME NEW r \in Row, BecomeDue(r) \/ ExpireLease(r) PROVE ReachOK'
    <2>1. \A p \in Process : LeasedBy(p)' = LeasedBy(p)
      BY <1>3 DEF BecomeDue, ExpireLease, LeasedBy
    <2>2. sent' = sent
      BY <1>3 DEF BecomeDue, ExpireLease
    <2>3. SameButClock(outbox[r], outbox'[r]) /\ (outbox[r].due => outbox'[r].due)
      <3>1. SameButClock(outbox[r], outbox'[r]) /\ ClockStep(outbox[r], outbox'[r])
        BY <1>a, <1>3, ClockRow
      <3> QED
        BY <1>b, <3>1 DEF ClockStep, OutboxRow
    <2>4. \A x \in Row \ {r} : outbox'[x] = outbox[x]
      BY <1>a, <1>3, ClockRow DEF OneRowChanges
    <2>5. \A x \in Row : SameButClock(outbox[x], outbox'[x]) /\ (outbox[x].due => outbox'[x].due)
      BY <2>3, <2>4 DEF SameButClock
    <2> QED
      BY <2>1, <2>2, <2>5, StillHeld DEF ReachOK, SameButClock
  <1>4. ASSUME NEW p \in Process, Lease(p) PROVE ReachOK'
    <2>1. PICK S \in SUBSET Row :
            /\ \A r \in Row \ S : outbox'[r] = outbox[r]
            /\ \A r \in S : Leasable(r) /\ NextAttempt(p, outbox[r], outbox'[r])
            /\ batch' = [batch EXCEPT ![p] =
                 {[row |-> r, attempt_number |-> outbox'[r].attempt_count,
                   max_attempts |-> outbox'[r].max_attempts] : r \in S}]
      BY <1>a, <1>4, LeaseRow
    <2>2. sent' = sent /\ LeasedBy(p) = {}
      BY <1>a, <1>4, LeaseRow DEF Lease, LeasedBy
    <2>3. \A q \in Process \ {p} : LeasedBy(q)' = LeasedBy(q)
      BY <1>a, <2>1, <2>2 DEF LeasedBy, TypeOK
    <2>4. ASSUME NEW r \in Row \ S, outbox[r].state = "IN_FLIGHT"
          PROVE  outbox'[r].due /\ (Held(r)' \/ OwnerMayHaveFailed(r)')
      BY <2>1, <2>2, <2>3, <2>4, StillHeld DEF ReachOK
    <2>5. ASSUME NEW r \in S
          PROVE  /\ outbox'[r].state = "IN_FLIGHT"
                 /\ outbox'[r].due /\ Held(r)'
      <3>1. PICK i \in batch'[p] : i.row = r /\ i.attempt_number = outbox'[r].attempt_count
        <4>1. [row |-> r, attempt_number |-> outbox'[r].attempt_count,
               max_attempts |-> outbox'[r].max_attempts] \in batch'[p]
          BY <1>a, <2>1 DEF TypeOK
        <4> QED
          BY <4>1
      <3>2. i \in LeasedBy(p)'
        BY <3>1 DEF LeasedBy
      <3>3. i.row = r /\ i.attempt_number = outbox'[r].attempt_count
        BY <3>1
      <3>4. NextAttempt(p, outbox[r], outbox'[r]) /\ outbox[r].due
        BY <2>1 DEF Leasable
      <3>5. HoldsLease(p, i)'
        BY <3>3, <3>4 DEF HoldsLease, NextAttempt
      <3> QED
        BY <3>2, <3>3, <3>4, <3>5 DEF Held, NextAttempt
    <2> QED
      BY <2>1, <2>2, <2>4, <2>5 DEF ReachOK
  <1>5. ASSUME NEW p \in Process, Post(p) PROVE ReachOK'
    <2>1. PICK item \in batch[p], answer \in Answers :
            /\ sent' = [sent EXCEPT ![p] = {[item |-> item, answer |-> answer]}]
            /\ batch' = [batch EXCEPT ![p] = @ \ {item}]
            /\ sent[p] = {} /\ UNCHANGED outbox
      BY <1>5 DEF Post
    <2> DEFINE s == [item |-> item, answer |-> answer]
    <2>2. s.item = item /\ s.answer = answer
      OBVIOUS
    <2>3. sent' = [sent EXCEPT ![p] = {s}]
      BY <2>1
    <2> HIDE DEF s
    <2>4. \A q \in Process : LeasedBy(q)' = LeasedBy(q)
      BY <1>a, <2>1, <2>2, <2>3 DEF LeasedBy, TypeOK
    <2>5. \A q \in Process : \A t \in sent'[q] : t.answer \in Answers
      BY <1>a, <2>2, <2>3 DEF ReachOK, TypeOK
    <2> QED
      BY <2>1, <2>4, <2>5, StillHeld DEF ReachOK
  <1>6. ASSUME NEW p \in Process, RecordDelivered(p) \/ RecordRetry(p) \/ RecordDeadLetter(p)
        PROVE  ReachOK'
    <2>1. PICK s \in sent[p], state \in {"PENDING", "DELIVERED", "DEAD_LETTER"} :
           /\ s.item \in LeasedDelivery /\ s.item.row \in Row
           /\ Recorded(p, s, state)
           /\ OneRowChanges(s.item.row)
           /\ outbox'[s.item.row].state = state
           /\ outbox'[s.item.row].attempt_count = outbox[s.item.row].attempt_count
           /\ outbox'[s.item.row].max_attempts = outbox[s.item.row].max_attempts
      BY <1>a, <1>6, RecordRow
    <2> DEFINE r == s.item.row
    <2>2. state = "PENDING" => outbox'[r].attempt_count < outbox'[r].max_attempts
      <3>1. s.item \in LeasedBy(p) /\ HoldsLease(p, s.item)
        BY <2>1 DEF LeasedBy, Recorded
      <3>2. /\ s.item.attempt_number = outbox[r].attempt_count
            /\ s.item.max_attempts = outbox[r].max_attempts
        BY <1>a, <3>1 DEF ItemsOK, HoldsLease
      <3>3. outbox[r].attempt_count \in Nat /\ outbox[r].max_attempts \in Nat
        BY <1>b, <2>1, RowFields
      <3> QED
        BY <2>1, <3>2, <3>3 DEF Recorded, IsFinalAttempt
    <2>3. batch' = batch /\ sent' = [sent EXCEPT ![p] = {}]
      BY <2>1 DEF Recorded
    <2>4. sent[p] = {s}
      BY <1>a DEF TypeOK
    <2>5. \A q \in Process : \A i \in LeasedBy(q) : i.row # r => i \in LeasedBy(q)'
      BY <1>a, <2>3, <2>4 DEF LeasedBy, TypeOK
    <2>6. \A x \in Row \ {r} : outbox'[x] = outbox[x]
      BY <2>1 DEF OneRowChanges
    <2>7. \A q \in Process : \A t \in sent'[q] : t.answer \in Answers
      BY <1>a, <2>3 DEF ReachOK, TypeOK
    <2> QED
      BY <2>1, <2>2, <2>5, <2>6, <2>7, StillHeld DEF ReachOK
  <1>7. ASSUME NEW p \in Process, LeaseLost(p) PROVE ReachOK'
    <2>1. PICK s \in sent[p] : /\ ~HoldsLease(p, s.item)
                               /\ sent' = [sent EXCEPT ![p] = {}]
                               /\ UNCHANGED <<outbox, batch>>
      BY <1>7 DEF LeaseLost
    <2>2. sent[p] = {s}
      BY <1>a DEF TypeOK
    <2>3. \A q \in Process : \A i \in LeasedBy(q) : HoldsLease(q, i) => i \in LeasedBy(q)'
      BY <1>a, <2>1, <2>2 DEF LeasedBy, TypeOK
    <2>4. \A q \in Process : \A t \in sent'[q] : t.answer \in Answers
      BY <1>a, <2>1 DEF ReachOK, TypeOK
    <2> QED
      BY <2>1, <2>3, <2>4, StillHeld DEF ReachOK
  <1>8. ASSUME NEW p \in Process, RecordFails(p) PROVE ReachOK'
    <2>1. "6xx" \in Answers /\ UNCHANGED outbox
      BY <1>8 DEF RecordFails, Forget, Unstorable, ReachOK
    <2>2. \A q \in Process : \A t \in sent'[q] : t.answer \in Answers
      BY <1>a, <1>8 DEF RecordFails, Forget, ReachOK, TypeOK
    <2> QED
      BY <2>1, <2>2 DEF ReachOK, OwnerMayHaveFailed
  <1>9. ASSUME NEW p \in Process, Crash(p) PROVE ReachOK'
    <2>1. /\ p \in MayCrash /\ UNCHANGED outbox
          /\ batch' = [batch EXCEPT ![p] = {}] /\ sent' = [sent EXCEPT ![p] = {}]
      BY <1>9 DEF Crash, Forget
    <2>2. \A q \in Process : \A t \in sent'[q] : t.answer \in Answers
      BY <1>a, <2>1 DEF ReachOK, TypeOK
    <2>3. \A q \in Process \ {p} : LeasedBy(q)' = LeasedBy(q)
      BY <1>a, <2>1 DEF LeasedBy, TypeOK
    <2>4. ASSUME NEW r \in Row, outbox[r].state = "IN_FLIGHT"
          PROVE  Held(r)' \/ OwnerMayHaveFailed(r)'
      <3>1. CASE \E i \in LeasedBy(p) : i.row = r /\ HoldsLease(p, i)
        BY <2>1, <3>1 DEF HoldsLease, OwnerMayHaveFailed
      <3>2. CASE ~ \E i \in LeasedBy(p) : i.row = r /\ HoldsLease(p, i)
        BY <2>1, <2>3, <2>4, <3>2, StillHeld DEF ReachOK
      <3> QED
        BY <3>1, <3>2
    <2> QED
      BY <2>1, <2>2, <2>4 DEF ReachOK
  <1>10. CASE UNCHANGED vars
    <2>1. \A p \in Process : LeasedBy(p)' = LeasedBy(p)
      BY <1>10 DEF vars, LeasedBy
    <2> QED
      BY <1>10, <2>1, StillHeld DEF ReachOK, vars
  <1> QED
    BY <1>1, <1>2, <1>3, <1>4, <1>5, <1>6, <1>7, <1>8, <1>9, <1>10 DEF Next, Record

\* OpenIntentsAreInReach: whatever the leases, take-overs, late answers and
\* re-drives, the scan of lease still finds every open intent that nobody holds
\* once it is due or its lease has expired, but the stranded ones; and only the
\* death of an owner, or an answer nobody can store, leaves a lease unheld.
THEOREM NothingIsOutOfReach == Spec => []OpenIntentsAreInReach
  <1>1. Init => ReachOK
    BY DEF Init, ReachOK, Uncommitted
  <1>2. IInv /\ ReachOK => OpenIntentsAreInReach
    <2> SUFFICES ASSUME IInv, ReachOK, NEW r \in Row, outbox[r].state = "IN_FLIGHT", ~Held(r)
                 PROVE  /\ OwnerMayHaveFailed(r)
                        /\ Stranded(r) \/ Leasable(r) \/ ~outbox[r].lease_expired
      BY DEF ReachOK, OpenIntentsAreInReach
    <2>1. OwnerMayHaveFailed(r) /\ outbox[r].due
      BY DEF ReachOK
    <2>2. /\ outbox[r].attempt_count \in Nat /\ outbox[r].max_attempts \in Nat
          /\ outbox[r].attempt_count <= outbox[r].max_attempts
      BY RowFields DEF IInv, TypeOK, RowsOK
    <2>3. CASE outbox[r].attempt_count < outbox[r].max_attempts
      BY <2>1, <2>3 DEF Leasable
    <2>4. CASE outbox[r].attempt_count = outbox[r].max_attempts
      <3>1. \A p \in Process : \A i \in LeasedBy(p) : i.row = r => ~HoldsLease(p, i)
        BY DEF Held
      <3>2. Stranded(r)
        BY <2>4, <3>1 DEF Stranded
      <3> QED
        BY <2>1, <3>2
    <2> QED
      BY <2>2, <2>3, <2>4
  <1> QED
    BY <1>1, <1>2, ReachStep, Invariance, PTL DEF Spec

--------------------------------------------------------------------------------
(* What the triggers of 0008 see *)

LEMMA GuardStep == IInv /\ [Next]_vars => Admitted
  <1> SUFFICES ASSUME IInv, [Next]_vars PROVE Admitted
    OBVIOUS
  <1>a. TypeOK /\ RowsOK /\ ItemsOK /\ EventsOK /\ EvidenceAgrees /\ LedgerAgrees
    BY DEF IInv
  <1>b. \A r \in Row : outbox[r] \in OutboxRow
    BY <1>a DEF TypeOK
  <1>1. ASSUME NEW r \in Row, Enqueue(r) PROVE Admitted
    <2>1. UNCHANGED attempt_events
      BY <1>1 DEF Enqueue
    <2> QED
      BY <1>a, <1>1, <2>1, EnqueueRow DEF Admitted, OneRowChanges, OutboxInsertAllowed
  <1>2. ASSUME NEW r \in Row, Redrive(r) PROVE Admitted
    <2>1. UNCHANGED attempt_events
      BY <1>2 DEF Redrive
    <2>2. OutboxUpdateAllowed(r, outbox[r], outbox'[r], attempt_events', ledger'[r])
      BY <1>a, <1>b, <1>2, RedriveRow, RowFields DEF OutboxUpdateAllowed
    <2> QED
      BY <1>a, <1>2, <2>1, <2>2, RedriveRow DEF Admitted, OneRowChanges
  <1>3. ASSUME NEW r \in Row, BecomeDue(r) \/ ExpireLease(r) PROVE Admitted
    <2>1. UNCHANGED attempt_events
      BY <1>3 DEF BecomeDue, ExpireLease
    <2> QED
      BY <1>a, <1>3, <2>1, ClockRow DEF Admitted, OneRowChanges
  <1>4. ASSUME NEW p \in Process, Lease(p) PROVE Admitted
    <2>1. PICK S \in SUBSET Row :
            /\ \A r \in Row \ S : outbox'[r] = outbox[r]
            /\ \A r \in S : Leasable(r) /\ NextAttempt(p, outbox[r], outbox'[r])
      BY <1>a, <1>4, LeaseRow
    <2>2. UNCHANGED attempt_events
      BY <1>4 DEF Lease
    <2>3. \A r \in S :
            OutboxUpdateAllowed(r, outbox[r], outbox'[r], attempt_events', ledger'[r])
      BY <1>b, <2>1, RowFields DEF OutboxUpdateAllowed, Leasable, NextAttempt
    <2> QED
      BY <2>1, <2>2, <2>3 DEF Admitted
  <1>5. ASSUME UNCHANGED <<outbox, attempt_events>> PROVE Admitted
    BY <1>5 DEF Admitted
  <1>6. ASSUME NEW p \in Process, RecordDelivered(p) \/ RecordRetry(p) \/ RecordDeadLetter(p)
        PROVE  Admitted
    <2>1. PICK s \in sent[p], state \in {"PENDING", "DELIVERED", "DEAD_LETTER"} :
           /\ s \in Sent /\ s.item \in LeasedDelivery /\ s.item.row \in Row
           /\ Recorded(p, s, state)
           /\ OneRowChanges(s.item.row)
           /\ outbox'[s.item.row].state = state
           /\ outbox'[s.item.row].attempt_count = outbox[s.item.row].attempt_count
           /\ outbox'[s.item.row].max_attempts = outbox[s.item.row].max_attempts
           /\ outbox'[s.item.row].redrive_count = outbox[s.item.row].redrive_count
           /\ outbox'[s.item.row].last = s.answer
      BY <1>a, <1>6, RecordRow
    <2> DEFINE r == s.item.row
               old == outbox[r]
               new == outbox'[r]
               event == [row |-> r, attempt_number |-> s.item.attempt_number,
                         outcome |-> Outcome(s.answer), answer |-> s.answer,
                         lease_owner |-> Id[p]]
    <2>2. /\ s.item.attempt_number = old.attempt_count
          /\ attempt_events' = attempt_events \cup {event}
      BY <1>a, <2>1, RecordEvent DEF Recorded
    <2>3. /\ event.row = r /\ event.attempt_number = old.attempt_count
          /\ event.outcome = Outcome(s.answer) /\ event.answer = s.answer
          /\ event.lease_owner = Id[p]
      BY <2>2
    <2> HIDE DEF event
    <2>4. /\ old.state = "IN_FLIGHT" /\ old.lease_owner = Id[p]
          /\ old.attempt_count \in Nat /\ old.max_attempts \in Nat /\ old.redrive_count \in Nat
          /\ s.item.max_attempts = old.max_attempts
      <3>1. s.item \in LeasedBy(p)
        BY DEF LeasedBy
      <3> QED
        BY <1>a, <1>b, <2>1, <3>1, RowFields DEF Recorded, HoldsLease, ItemsOK
    <2>5. EventInsertAllowed(event, old)
      BY <2>3, <2>4 DEF EventInsertAllowed
    <2>6. /\ Outcome(s.answer) = "DELIVERED" <=> state = "DELIVERED"
          /\ state = "PENDING" => /\ Outcome(s.answer) \in {"RETRYABLE_FAILURE", "AMBIGUOUS"}
                                  /\ old.attempt_count < old.max_attempts
          /\ state = "DEAD_LETTER" => \/ Outcome(s.answer) = "PERMANENT_FAILURE"
                                      \/ old.attempt_count >= old.max_attempts
      <3>1. Outcome(s.answer) \in AttemptOutcome
        BY DEF Outcome, AttemptOutcome
      <3> QED
        BY <2>1, <2>2, <2>4, <3>1 DEF Recorded, Retryable, IsFinalAttempt, AttemptOutcome
    <2>7. state # "PENDING" =>
            IF old.redrive_count = 0
            THEN /\ ledger'[r].status = IF state = "DELIVERED" THEN "DELIVERED" ELSE "FAILED"
                 /\ ledger'[r].attempt_count = old.attempt_count
                 /\ ledger'[r].answer = s.answer
            ELSE ledger'[r].status = "FAILED"
      <3> SUFFICES ASSUME state # "PENDING"
                   PROVE  IF old.redrive_count = 0
            THEN /\ ledger'[r].status = IF state = "DELIVERED" THEN "DELIVERED" ELSE "FAILED"
                 /\ ledger'[r].attempt_count = old.attempt_count
                 /\ ledger'[r].answer = s.answer
            ELSE ledger'[r].status = "FAILED"
        OBVIOUS
      <3>1. /\ ledger[r].status = "ABSENT" <=> old.redrive_count = 0
            /\ old.redrive_count # 0 => ledger[r].status = "FAILED"
        BY <1>a, <2>1, <2>4 DEF LedgerAgrees
      <3>2. WriteTerminalLedger(s, IF state = "DELIVERED" THEN "DELIVERED" ELSE "FAILED")
        BY <2>1 DEF Recorded
      <3>3. CASE old.redrive_count = 0
        <4> DEFINE status == IF state = "DELIVERED" THEN "DELIVERED" ELSE "FAILED"
        <4>1. ledger' = [ledger EXCEPT ![r] =
                [status |-> status, attempt_count |-> s.item.attempt_number, answer |-> s.answer]]
          BY <3>1, <3>2, <3>3 DEF WriteTerminalLedger
        <4>2. /\ ledger'[r].status = status /\ ledger'[r].answer = s.answer
              /\ ledger'[r].attempt_count = old.attempt_count
          BY <1>a, <2>1, <2>2, <4>1 DEF TypeOK
        <4> QED
          BY <3>3, <4>2
      <3>4. CASE old.redrive_count # 0
        BY <3>1, <3>2, <3>4 DEF WriteTerminalLedger
      <3> QED
        BY <3>3, <3>4
    <2>8. OutcomeAllowed(old, new, event, ledger'[r])
      BY <2>1, <2>3, <2>4, <2>6, <2>7 DEF OutcomeAllowed
    <2>9. event \in attempt_events'
      BY <2>2
    <2>10. OutboxUpdateAllowed(r, old, new, attempt_events', ledger'[r])
      BY <2>1, <2>3, <2>4, <2>8, <2>9 DEF OutboxUpdateAllowed
    <2>11. \A x \in Row \ {r} : outbox'[x] = outbox[x]
      BY <2>1 DEF OneRowChanges
    <2> QED
      BY <2>2, <2>3, <2>5, <2>10, <2>11 DEF Admitted
  <1> QED
    BY <1>a, <1>1, <1>2, <1>3, <1>4, <1>5, <1>6, StepKinds DEF Post, Dropped

\* GuardsNeverReject: whatever the workers, the operator and the clock do, the
\* triggers of 0008 accept every insert and update the repository sends.
THEOREM GuardsAccept == Spec => GuardsNeverReject
  BY Invariance, GuardStep, PTL DEF Spec, GuardsNeverReject

--------------------------------------------------------------------------------
(* The outbox implements DeliveryIntent *)

AbstractIntent == [r \in Row |-> IntentOf(outbox[r])]
AbstractReceived == {q.row : q \in {x \in requests : x.accepted}}

LEMMA IntentInit == Init => Intent!Init
  BY DEF Init, Intent!Init, IntentOf, Uncommitted

\* A step that moves one row, or none, between the abstract states.
LEMMA OneIntentMoves ==
  ASSUME NEW r \in Row, \A x \in Row \ {r} : outbox'[x] = outbox[x]
  PROVE  AbstractIntent' = [AbstractIntent EXCEPT ![r] = IntentOf(outbox'[r])]
  <1>1. \A x \in Row : AbstractIntent'[x] = IF x = r THEN IntentOf(outbox'[r])
                                            ELSE AbstractIntent[x]
    BY DEF AbstractIntent
  <1> QED
    BY <1>1 DEF AbstractIntent

LEMMA NoIntentMoves ==
  ASSUME \A x \in Row : IntentOf(outbox'[x]) = IntentOf(outbox[x])
  PROVE  AbstractIntent' = AbstractIntent
  BY DEF AbstractIntent

LEMMA IntentStep ==
  ASSUME IInv, IInv', [Next]_vars
  PROVE  [Intent!Next]_<<AbstractIntent, AbstractReceived>>
  <1>a. TypeOK /\ RowsOK
    BY DEF IInv
  <1>b. \A r \in Row : outbox[r] \in OutboxRow
    BY <1>a DEF TypeOK
  <1>1. ASSUME NEW r \in Row, Enqueue(r) PROVE Intent!Next
    <2>1. AbstractReceived' = AbstractReceived
      BY <1>1 DEF Enqueue, AbstractReceived
    <2>2. /\ AbstractIntent' = [AbstractIntent EXCEPT ![r] = "open"]
          /\ AbstractIntent[r] = "none"
      BY <1>a, <1>1, EnqueueRow, OneIntentMoves DEF OneRowChanges, IntentOf, AbstractIntent
    <2> QED
      BY <2>1, <2>2 DEF Intent!Next, Intent!Commit, AbstractIntent, AbstractReceived
  <1>2. ASSUME NEW r \in Row, Redrive(r) PROVE Intent!Next
    <2>1. AbstractReceived' = AbstractReceived
      BY <1>2 DEF Redrive, AbstractReceived
    <2>2. /\ AbstractIntent' = [AbstractIntent EXCEPT ![r] = "open"]
          /\ AbstractIntent[r] = "given_up"
      BY <1>a, <1>2, RedriveRow, OneIntentMoves DEF OneRowChanges, IntentOf, AbstractIntent
    <2> QED
      BY <2>1, <2>2 DEF Intent!Next, Intent!Reopen, AbstractIntent, AbstractReceived
  <1>3. ASSUME NEW r \in Row, BecomeDue(r) \/ ExpireLease(r)
        PROVE  UNCHANGED <<AbstractIntent, AbstractReceived>>
    <2>1. AbstractReceived' = AbstractReceived
      BY <1>3 DEF BecomeDue, ExpireLease, AbstractReceived
    <2> QED
      BY <1>a, <1>3, <2>1, ClockRow, NoIntentMoves DEF OneRowChanges, SameButClock, IntentOf
  <1>4. ASSUME NEW p \in Process, Lease(p)
        PROVE  UNCHANGED <<AbstractIntent, AbstractReceived>>
    <2>1. AbstractReceived' = AbstractReceived
      BY <1>4 DEF Lease, AbstractReceived
    <2>2. PICK S \in SUBSET Row :
            /\ \A r \in Row \ S : outbox'[r] = outbox[r]
            /\ \A r \in S : Leasable(r) /\ NextAttempt(p, outbox[r], outbox'[r])
      BY <1>a, <1>4, LeaseRow
    <2>3. \A r \in Row : IntentOf(outbox'[r]) = IntentOf(outbox[r])
      BY <2>2 DEF Leasable, NextAttempt, IntentOf
    <2> QED
      BY <2>1, <2>3, NoIntentMoves
  <1>5. ASSUME NEW p \in Process, Post(p)
        PROVE  [Intent!Next]_<<AbstractIntent, AbstractReceived>>
    <2>1. PICK item \in batch[p], accepted \in BOOLEAN :
            /\ item \in LeasedDelivery
            /\ requests' = requests \cup
                 {[row |-> item.row, attempt_number |-> item.attempt_number,
                   accepted |-> accepted]}
      BY <1>a, <1>5, PostStep
    <2>2. item.row \in Row /\ item.attempt_number \in 1..AttemptCeiling
      BY <2>1 DEF LeasedDelivery
    <2>3. AbstractIntent' = AbstractIntent
      BY <1>5 DEF Post, AbstractIntent
    <2>4. AbstractIntent[item.row] # "none"
      <3>1. item.attempt_number <= outbox[item.row].attempt_count
        BY DEF IInv, ItemsOK, LeasedBy
      <3>2. outbox[item.row].state # "UNCOMMITTED"
        BY <1>a, <2>2, <3>1, CeilingAssumption DEF RowsOK
      <3> QED
        BY <2>2, <3>2 DEF AbstractIntent, IntentOf
    <2>5. AbstractReceived' = AbstractReceived \cup (IF accepted THEN {item.row} ELSE {})
      <3> DEFINE request == [row |-> item.row, attempt_number |-> item.attempt_number,
                             accepted |-> accepted]
      <3>1. request.row = item.row /\ request.accepted = accepted
            /\ requests' = requests \cup {request}
        BY <2>1
      <3> HIDE DEF request
      <3> QED
        BY <3>1 DEF AbstractReceived
    <2>6. CASE accepted
      BY <2>2, <2>3, <2>4, <2>5, <2>6
      DEF Intent!Next, Intent!Receive, AbstractIntent, AbstractReceived
    <2>7. CASE ~accepted
      BY <2>3, <2>5, <2>7
    <2> QED
      BY <2>6, <2>7
  <1>6. ASSUME NEW p \in Process, RecordDelivered(p) \/ RecordRetry(p) \/ RecordDeadLetter(p)
        PROVE  [Intent!Next]_<<AbstractIntent, AbstractReceived>>
    <2>1. PICK s \in sent[p], state \in {"PENDING", "DELIVERED", "DEAD_LETTER"} :
           /\ s.item.row \in Row
           /\ Recorded(p, s, state)
           /\ OneRowChanges(s.item.row)
           /\ outbox'[s.item.row].state = state
      BY <1>a, <1>6, RecordRow
    <2> DEFINE r == s.item.row
    <2>2. /\ AbstractReceived' = AbstractReceived
          /\ AbstractIntent[r] = "open"
      BY <2>1 DEF Recorded, AbstractReceived, AbstractIntent, HoldsLease, IntentOf
    <2>3. AbstractIntent' = [AbstractIntent EXCEPT ![r] = IntentOf(outbox'[r])]
      BY <2>1, OneIntentMoves DEF OneRowChanges
    <2>4. CASE state = "PENDING"
      <3>1. IntentOf(outbox'[r]) = IntentOf(outbox[r])
        BY <2>1, <2>4 DEF IntentOf, Recorded, HoldsLease
      <3>2. AbstractIntent' = AbstractIntent
        BY <2>1, <3>1, NoIntentMoves DEF OneRowChanges
      <3> QED
        BY <2>2, <3>2
    <2>5. CASE state = "DELIVERED"
      <3>1. r \in AbstractReceived
        <4> DEFINE request == [row |-> s.item.row, attempt_number |-> s.item.attempt_number,
                               accepted |-> TRUE]
        <4>1. request \in requests
          BY <2>1, <2>5 DEF IInv, RequestsOK, Recorded
        <4>2. request.row = r /\ request.accepted
          OBVIOUS
        <4> HIDE DEF request
        <4> QED
          BY <4>1, <4>2 DEF AbstractReceived
      <3>2. AbstractIntent' = [AbstractIntent EXCEPT ![r] = "delivered"]
        BY <2>1, <2>3, <2>5 DEF IntentOf
      <3> QED
        BY <2>1, <2>2, <3>1, <3>2
        DEF Intent!Next, Intent!Deliver, AbstractIntent, AbstractReceived
    <2>6. CASE state = "DEAD_LETTER"
      <3>1. AbstractIntent' = [AbstractIntent EXCEPT ![r] = "given_up"]
        BY <2>1, <2>3, <2>6 DEF IntentOf
      <3> QED
        BY <2>1, <2>2, <3>1
        DEF Intent!Next, Intent!GiveUp, AbstractIntent, AbstractReceived
    <2> QED
      BY <2>1, <2>4, <2>5, <2>6
  <1>7. ASSUME Dropped PROVE UNCHANGED <<AbstractIntent, AbstractReceived>>
    BY <1>7 DEF Dropped, AbstractIntent, AbstractReceived
  <1> QED
    BY <1>a, <1>1, <1>2, <1>3, <1>4, <1>5, <1>6, <1>7, StepKinds

\* ImplementsIntent: leases, retries, take-overs and crashes stay inside one
\* open intent; _transition and redrive are the only code that closes or
\* reopens it, and it closes as delivered only what the receiver accepted.
THEOREM Refinement == Spec => ImplementsIntent
  <1>1. IInv /\ IInv' /\ [Next]_vars =>
          [Intent!Next]_<<[r \in Row |-> IntentOf(outbox[r])],
                          {q.row : q \in {x \in requests : x.accepted}}>>
    BY IntentStep DEF AbstractIntent, AbstractReceived
  <1> QED
    BY <1>1, IntentInit, Invariance, PTL DEF Spec, ImplementsIntent, Intent!Spec

--------------------------------------------------------------------------------
(* How far a row is *)

\* A number that grows with every change of a row: by the attempt, and within one
\* attempt from a fresh lease to what became of it.
Progress(row) ==
  LET within ==
        CASE row.state = "IN_FLIGHT" -> IF row.lease_expired THEN 1 ELSE 0
          [] row.state = "DEAD_LETTER" -> 2
          [] row.state = "PENDING" -> IF row.due THEN 4 ELSE 3
          [] row.state = "DELIVERED" -> 5
  IN IF row.state = "UNCOMMITTED" THEN 0 ELSE 6 * row.attempt_count + within

LEMMA ProgressIs ==
  ASSUME NEW row \in OutboxRow
  PROVE  /\ row.attempt_count \in 0..AttemptCeiling /\ AttemptCeiling \in Nat
         /\ row.state = "UNCOMMITTED" => Progress(row) = 0
         /\ row.state = "IN_FLIGHT" /\ ~row.lease_expired => Progress(row) = 6 * row.attempt_count
         /\ row.state = "IN_FLIGHT" /\ row.lease_expired => Progress(row) = 6 * row.attempt_count + 1
         /\ row.state = "DEAD_LETTER" => Progress(row) = 6 * row.attempt_count + 2
         /\ row.state = "PENDING" /\ ~row.due => Progress(row) = 6 * row.attempt_count + 3
         /\ row.state = "PENDING" /\ row.due => Progress(row) = 6 * row.attempt_count + 4
         /\ row.state = "DELIVERED" => Progress(row) = 6 * row.attempt_count + 5
<1>1. row.attempt_count \in Nat /\ row.attempt_count \in 0..AttemptCeiling /\ AttemptCeiling \in Nat
  BY RowFields
<1> QED BY <1>1 DEF Progress

\* What a row of some state may count, whatever its clock flags.
LEMMA ProgressWithin ==
  ASSUME NEW row \in OutboxRow
  PROVE  /\ Progress(row) \in 0..(6 * AttemptCeiling + 5)
         /\ Progress(row) <= 6 * row.attempt_count + 5
         /\ row.state = "IN_FLIGHT" => Progress(row) <= 6 * row.attempt_count + 1
         /\ row.state \in {"PENDING", "DELIVERED"} => Progress(row) >= 6 * row.attempt_count + 3
<1>1. row.state \in {"UNCOMMITTED", "IN_FLIGHT", "DEAD_LETTER", "PENDING", "DELIVERED"}
  BY DEF OutboxRow, OutboxState
<1>2. Progress(row) = 0 \/ Progress(row) \in (6 * row.attempt_count)..(6 * row.attempt_count + 5)
  BY <1>1, ProgressIs
<1>3. 6 * row.attempt_count + 5 <= 6 * AttemptCeiling + 5 /\ 0 <= 6 * row.attempt_count
  BY ProgressIs
<1>4. Progress(row) \in Int /\ row.attempt_count \in Nat /\ AttemptCeiling \in Nat
  BY <1>2, ProgressIs
<1>5. Progress(row) \in 0..(6 * AttemptCeiling + 5) /\ Progress(row) <= 6 * row.attempt_count + 5
  BY <1>2, <1>3, <1>4
<1> QED BY <1>5, ProgressIs

\* No change takes a row back.
Rises(r) == outbox'[r] = outbox[r] \/ Progress(outbox[r]) < Progress(outbox'[r])

LEMMA RowRises ==
  ASSUME IInv, IInv', [Next]_vars, NEW x \in Row
  PROVE  Rises(x)
<1> DEFINE old == outbox[x]
           new == outbox'[x]
<1>0. /\ TypeOK /\ RowsOK /\ old \in OutboxRow /\ new \in OutboxRow
      /\ old.attempt_count \in Nat /\ new.attempt_count \in Nat
  <2>1. TypeOK /\ RowsOK /\ old \in OutboxRow /\ new \in OutboxRow
    BY DEF IInv, TypeOK
  <2> QED BY <2>1, ProgressIs
<1>1. ASSUME NEW r \in Row, Enqueue(r) PROVE Rises(x)
  <2>1. CASE x = r
    <3>1. old.state = "UNCOMMITTED" /\ new.state = "PENDING"
      BY <1>0, <1>1, <2>1, EnqueueRow
    <3>2. Progress(old) = 0 /\ Progress(new) >= 6 * new.attempt_count + 3 /\ Progress(new) \in Int
      BY <1>0, <3>1, ProgressIs, ProgressWithin
    <3> QED BY <1>0, <3>2 DEF Rises
  <2> QED BY <1>0, <1>1, <2>1, EnqueueRow DEF OneRowChanges, Rises
<1>2. ASSUME NEW r \in Row, Redrive(r) PROVE Rises(x)
  <2>1. CASE x = r
    <3>1. /\ old.state = "DEAD_LETTER" /\ new.state = "PENDING"
          /\ new.attempt_count = old.attempt_count
      BY <1>0, <1>2, <2>1, RedriveRow
    <3>2. /\ Progress(old) = 6 * old.attempt_count + 2
          /\ Progress(new) >= 6 * new.attempt_count + 3 /\ Progress(new) \in Int
      BY <1>0, <3>1, ProgressIs, ProgressWithin
    <3> QED BY <1>0, <3>1, <3>2 DEF Rises
  <2> QED BY <1>0, <1>2, <2>1, RedriveRow DEF OneRowChanges, Rises
<1>3. ASSUME NEW r \in Row, BecomeDue(r) \/ ExpireLease(r) PROVE Rises(x)
  <2>1. CASE x = r
    <3>1. new.state = old.state /\ new.attempt_count = old.attempt_count
      BY <1>0, <1>3, <2>1, ClockRow DEF SameButClock
    <3>2. CASE BecomeDue(r)
      <4>1. old.state = "PENDING" /\ ~old.due /\ new.due
        BY <1>0, <2>1, <3>2 DEF BecomeDue, TypeOK, OutboxRow
      <4>2. Progress(old) = 6 * old.attempt_count + 3 /\ Progress(new) = 6 * new.attempt_count + 4
        BY <1>0, <3>1, <4>1, ProgressIs
      <4> QED BY <1>0, <3>1, <4>2 DEF Rises
    <3>3. CASE ExpireLease(r)
      <4>1. old.state = "IN_FLIGHT" /\ ~old.lease_expired /\ new.lease_expired
        BY <1>0, <2>1, <3>3 DEF ExpireLease, TypeOK, OutboxRow
      <4>2. Progress(old) = 6 * old.attempt_count /\ Progress(new) = 6 * new.attempt_count + 1
        BY <1>0, <3>1, <4>1, ProgressIs
      <4> QED BY <1>0, <3>1, <4>2 DEF Rises
    <3> QED BY <1>3, <3>2, <3>3
  <2> QED BY <1>0, <1>3, <2>1, ClockRow DEF OneRowChanges, Rises
<1>4. ASSUME NEW p \in Process, Lease(p) PROVE Rises(x)
  <2>1. PICK S \in SUBSET Row :
          /\ \A r \in Row \ S : outbox'[r] = outbox[r]
          /\ \A r \in S : Leasable(r) /\ NextAttempt(p, outbox[r], outbox'[r])
    BY <1>0, <1>4, LeaseRow
  <2>2. CASE x \in S
    <3>1. /\ new.state = "IN_FLIGHT" /\ ~new.lease_expired
          /\ new.attempt_count = old.attempt_count + 1
      BY <2>1, <2>2 DEF NextAttempt
    <3>2. /\ Progress(old) <= 6 * old.attempt_count + 5 /\ Progress(old) \in Int
          /\ Progress(new) = 6 * new.attempt_count
      BY <1>0, <3>1, ProgressIs, ProgressWithin
    <3> QED BY <1>0, <3>1, <3>2 DEF Rises
  <2> QED BY <2>1, <2>2 DEF Rises
<1>5. ASSUME NEW p \in Process, Post(p) PROVE Rises(x)
  BY <1>5 DEF Post, Rises
<1>6. ASSUME NEW p \in Process, RecordDelivered(p) \/ RecordRetry(p) \/ RecordDeadLetter(p)
      PROVE  Rises(x)
  <2>1. PICK s \in sent[p], state \in {"PENDING", "DELIVERED", "DEAD_LETTER"} :
          /\ Recorded(p, s, state) /\ OneRowChanges(s.item.row)
          /\ outbox'[s.item.row].state = state
          /\ outbox'[s.item.row].attempt_count = outbox[s.item.row].attempt_count
    BY <1>0, <1>6, RecordRow
  <2>2. CASE x = s.item.row
    <3>1. /\ old.state = "IN_FLIGHT" /\ new.attempt_count = old.attempt_count
          /\ new.state \in {"PENDING", "DELIVERED", "DEAD_LETTER"}
      BY <2>1, <2>2 DEF Recorded, HoldsLease
    <3>2. Progress(old) <= 6 * old.attempt_count + 1 /\ Progress(old) \in Int
      BY <1>0, <3>1, ProgressWithin
    <3>3. Progress(new) >= 6 * new.attempt_count + 2 /\ Progress(new) \in Int
      BY <1>0, <3>1, ProgressIs, ProgressWithin
    <3> QED BY <1>0, <3>1, <3>2, <3>3 DEF Rises
  <2> QED BY <2>1, <2>2 DEF OneRowChanges, Rises
<1>7. ASSUME Dropped PROVE Rises(x)
  BY <1>7 DEF Dropped, Rises
<1> QED BY <1>0, <1>1, <1>2, <1>3, <1>4, <1>5, <1>6, <1>7, StepKinds

\* No row is led in a circle, by workers that take it over from one another, by late
\* answers or by operators who keep re-driving it: each change of a row brings it
\* forward, and the ceiling of 0008 allows 6 * AttemptCeiling + 5 of them.
RowsRunDown ==
  [][\A r \in Row :
       /\ outbox'[r] # outbox[r] => Progress(outbox[r]) < Progress(outbox'[r])
       /\ Progress(outbox'[r]) \in 0..(6 * AttemptCeiling + 5)]_vars

THEOREM RowsEnd == Spec => RowsRunDown
<1>1. ASSUME IInv, IInv', [Next]_vars, NEW r \in Row
      PROVE  /\ outbox'[r] # outbox[r] => Progress(outbox[r]) < Progress(outbox'[r])
             /\ Progress(outbox'[r]) \in 0..(6 * AttemptCeiling + 5)
  <2>1. outbox'[r] \in OutboxRow
    BY <1>1 DEF IInv, TypeOK
  <2>2. Rises(r)
    BY <1>1, RowRises
  <2> QED BY <2>1, <2>2, ProgressWithin DEF Rises
<1>2. IInv /\ IInv' /\ [Next]_vars =>
        \A r \in Row :
          /\ outbox'[r] # outbox[r] => Progress(outbox[r]) < Progress(outbox'[r])
          /\ Progress(outbox'[r]) \in 0..(6 * AttemptCeiling + 5)
  BY <1>1
<1> QED BY <1>2, Invariance, PTL DEF Spec, RowsRunDown

================================================================================
