----------------------------- MODULE ShadowRunProofs -----------------------------
(***************************************************************************)
(* Proofs about ShadowRun for any number of requests, keys and cases, and  *)
(* whoever stops or loses its locks: type correctness, that the locks make *)
(* a claim exclusive, that the log tells the run, and that the stored      *)
(* result is never taken back by the analysis.                             *)
(***************************************************************************)
EXTENDS ShadowRun, FiniteSetTheorems, TLAPS

--------------------------------------------------------------------------------
(* How a step moves a request *)

Live == {"locking", "select", "reject", "insert", "record", "intake", "reasoning", "complete",
         "unlock"}
Pc == Live \cup {"idle", "done", "stopped"}
Answer == {"result", "identity_conflict", "idempotency_conflict", "completion_conflict",
           "unique_violation", "connection_lost"}

Moved(p, pc, run, result, lost, answer) ==
  call' = [call EXCEPT ![p] =
             [pc |-> pc, run |-> run, result |-> result, lost |-> lost, answer |-> answer]]

LEMMA CallFields ==
  ASSUME TypeOK, NEW p \in Caller
  PROVE  /\ call[p].pc \in Pc /\ call[p].run \in Caller \cup {None}
         /\ call[p].result \in Result \cup {None} /\ call[p].lost \in BOOLEAN
         /\ call[p].answer \in Answer \cup {None}
         /\ call[p] = [pc |-> call[p].pc, run |-> call[p].run, result |-> call[p].result,
                       lost |-> call[p].lost, answer |-> call[p].answer]
<1>1. call[p] \in Call
  BY DEF TypeOK
<1> QED BY <1>1 DEF Call, Pc, Live, Answer

\* The steps that move the program counter, and nothing else of the request; those
\* that claim a run; and those that conclude.
LEMMA MovedBy ==
  ASSUME TypeOK, NEW p \in Caller, NEW pc, NEW run, NEW result, NEW answer
  PROVE  /\ call' = [call EXCEPT ![p].pc = pc] =>
              Moved(p, pc, call[p].run, call[p].result, call[p].lost, call[p].answer)
         /\ call' = [call EXCEPT ![p].pc = pc, ![p].run = run] =>
              Moved(p, pc, run, call[p].result, call[p].lost, call[p].answer)
         /\ Conclude(p, answer, result) =>
              Moved(p, "unlock", call[p].run, result, call[p].lost, answer)
<1> DEFINE c == call[p]
<1>1. c \in Call /\ call = [call EXCEPT ![p] = c]
  BY DEF TypeOK
<1>2. [c EXCEPT !.pc = pc] =
        [pc |-> pc, run |-> c.run, result |-> c.result, lost |-> c.lost, answer |-> c.answer]
  <2> HIDE DEF c
  <2> QED BY <1>1 DEF Call
<1>3. [c EXCEPT !.pc = pc, !.run = run] =
        [pc |-> pc, run |-> run, result |-> c.result, lost |-> c.lost, answer |-> c.answer]
  <2>1. [c EXCEPT !.pc = pc, !.run = run] = [[c EXCEPT !.pc = pc] EXCEPT !.run = run]
    OBVIOUS
  <2>2. [[pc |-> pc, run |-> c.run, result |-> c.result, lost |-> c.lost, answer |-> c.answer]
           EXCEPT !.run = run] =
        [pc |-> pc, run |-> run, result |-> c.result, lost |-> c.lost, answer |-> c.answer]
    OBVIOUS
  <2> HIDE DEF c
  <2> QED BY <1>2, <2>1, <2>2
<1>4. [c EXCEPT !.pc = "unlock", !.answer = answer, !.result = result] =
        [pc |-> "unlock", run |-> c.run, result |-> result, lost |-> c.lost, answer |-> answer]
  <2>1. [c EXCEPT !.pc = "unlock", !.answer = answer, !.result = result] =
        [[[c EXCEPT !.pc = "unlock"] EXCEPT !.answer = answer] EXCEPT !.result = result]
    OBVIOUS
  <2>2. [c EXCEPT !.pc = "unlock"] =
        [pc |-> "unlock", run |-> c.run, result |-> c.result, lost |-> c.lost,
         answer |-> c.answer]
    <3> HIDE DEF c
    <3> QED BY <1>1 DEF Call
  <2>3. [[pc |-> "unlock", run |-> c.run, result |-> c.result, lost |-> c.lost,
          answer |-> c.answer] EXCEPT !.answer = answer] =
        [pc |-> "unlock", run |-> c.run, result |-> c.result, lost |-> c.lost, answer |-> answer]
    OBVIOUS
  <2>4. [[pc |-> "unlock", run |-> c.run, result |-> c.result, lost |-> c.lost,
          answer |-> answer] EXCEPT !.result = result] =
        [pc |-> "unlock", run |-> c.run, result |-> result, lost |-> c.lost, answer |-> answer]
    OBVIOUS
  <2> HIDE DEF c
  <2> QED BY <2>1, <2>2, <2>3, <2>4
<1>5. [call EXCEPT ![p].pc = pc] = [call EXCEPT ![p] = [c EXCEPT !.pc = pc]]
  BY DEF TypeOK
<1>6. [call EXCEPT ![p].pc = pc, ![p].run = run] =
        [call EXCEPT ![p] = [c EXCEPT !.pc = pc, !.run = run]]
  BY DEF TypeOK
<1>7. [call EXCEPT ![p].pc = "unlock", ![p].answer = answer, ![p].result = result] =
        [call EXCEPT ![p] = [c EXCEPT !.pc = "unlock", !.answer = answer, !.result = result]]
  BY DEF TypeOK
<1> QED BY <1>2, <1>3, <1>4, <1>5, <1>6, <1>7 DEF Moved, Conclude

\* Where each step takes its request.
LEMMA MoveOf ==
  ASSUME TypeOK, NEW p \in Caller
  PROVE  LET run == call[p].run
             result == call[p].result
             lost == call[p].lost
             answer == call[p].answer
         IN /\ Begin(p) => Moved(p, "locking", run, result, lost, answer)
            /\ TakeLock(p) => \E pc \in {"select", "locking"} :
                                Moved(p, pc, run, result, lost, answer)
            /\ RefuseIdentity(p) => Moved(p, "unlock", run, None, lost, "identity_conflict")
            /\ FindNothing(p) => Moved(p, "insert", run, result, lost, answer)
            /\ Reject(p) => Moved(p, "unlock", run, None, lost, "idempotency_conflict")
            /\ Insert(p) /\ Insertable(p) => Moved(p, "record", p, result, lost, answer)
            /\ Insert(p) /\ ~Insertable(p) =>
                 Moved(p, "unlock", run, None, lost, "unique_violation")
            /\ RecordStart(p) => Moved(p, "intake", run, result, lost, answer)
            /\ Complete(p) /\ StillStarted(run) => Moved(p, "unlock", run, result, lost, "result")
            /\ Complete(p) /\ ~StillStarted(run) =>
                 Moved(p, "unlock", run, None, lost, "completion_conflict")
            /\ Unlock(p) => \E pc \in {"unlock", "done"} :
                              Moved(p, pc, run, result, lost, answer)
            /\ Stop(p) => Moved(p, "stopped", run, result, lost, answer)
<1>1. Begin(p) => call' = [call EXCEPT ![p].pc = "locking"]
  BY DEF Begin
<1>2. TakeLock(p) => \E pc \in {"select", "locking"} : call' = [call EXCEPT ![p].pc = pc]
  BY DEF TakeLock
<1>3. FindNothing(p) => call' = [call EXCEPT ![p].pc = "insert"]
  BY DEF FindNothing
<1>4. RecordStart(p) => call' = [call EXCEPT ![p].pc = "intake"]
  BY DEF RecordStart
<1>5. Unlock(p) => \E pc \in {"unlock", "done"} : call' = [call EXCEPT ![p].pc = pc]
  BY DEF Unlock
<1>6. Stop(p) => call' = [call EXCEPT ![p].pc = "stopped"]
  BY DEF Stop
<1>7. Insert(p) /\ Insertable(p) => call' = [call EXCEPT ![p].pc = "record", ![p].run = p]
  BY DEF Insert
<1>8. /\ RefuseIdentity(p) => Conclude(p, "identity_conflict", None)
      /\ Reject(p) => Conclude(p, "idempotency_conflict", None)
      /\ Insert(p) /\ ~Insertable(p) => Conclude(p, "unique_violation", None)
      /\ Complete(p) /\ StillStarted(call[p].run) => Conclude(p, "result", call[p].result)
      /\ Complete(p) /\ ~StillStarted(call[p].run) => Conclude(p, "completion_conflict", None)
  BY DEF RefuseIdentity, Reject, Insert, Complete
<1>9. /\ Begin(p) => Moved(p, "locking", call[p].run, call[p].result, call[p].lost, call[p].answer)
      /\ FindNothing(p) =>
           Moved(p, "insert", call[p].run, call[p].result, call[p].lost, call[p].answer)
      /\ RecordStart(p) =>
           Moved(p, "intake", call[p].run, call[p].result, call[p].lost, call[p].answer)
      /\ Stop(p) => Moved(p, "stopped", call[p].run, call[p].result, call[p].lost, call[p].answer)
  BY <1>1, <1>3, <1>4, <1>6, MovedBy
<1>10. /\ TakeLock(p) => \E pc \in {"select", "locking"} :
            Moved(p, pc, call[p].run, call[p].result, call[p].lost, call[p].answer)
       /\ Unlock(p) => \E pc \in {"unlock", "done"} :
            Moved(p, pc, call[p].run, call[p].result, call[p].lost, call[p].answer)
  BY <1>2, <1>5, MovedBy
<1>11. Insert(p) /\ Insertable(p) =>
         Moved(p, "record", p, call[p].result, call[p].lost, call[p].answer)
  BY <1>7, MovedBy
<1> QED BY <1>8, <1>9, <1>10, <1>11, MovedBy

\* What a request makes of the analysis of r in its two reads.
FirstRead(r) ==
  [ phase |-> investigation[r].phase, draft |-> investigation[r].draft,
    evidence |-> results[r] \cap EvidenceTool,
    invoked |-> FALSE, provider |-> "not-invoked" ]
SecondRead(result, r) ==
  [result EXCEPT !.invoked = r \in consulted, !.provider = ProviderOf(r)]

LEMMA MoveOfOutcome ==
  ASSUME TypeOK, NEW p \in Caller
  PROVE  LET run == call[p].run
             lost == call[p].lost
             answer == call[p].answer
         IN /\ ReadOutcome(p) => Moved(p, "reasoning", run, FirstRead(run), lost, answer)
            /\ ReadReasoning(p) =>
                 Moved(p, "complete", run, SecondRead(call[p].result, run), lost, answer)
            /\ FailToUnlock(p) => Moved(p, "done", run, None, lost, "connection_lost")
            /\ LoseLock(p) => Moved(p, call[p].pc, run, call[p].result, TRUE, answer)
<1> DEFINE c == call[p]
<1>1. c \in Call
  BY DEF TypeOK
<1>2. ASSUME NEW pc, NEW result
      PROVE  [c EXCEPT !.pc = pc, !.result = result] =
               [pc |-> pc, run |-> c.run, result |-> result, lost |-> c.lost, answer |-> c.answer]
  <2>1. [c EXCEPT !.pc = pc, !.result = result] = [[c EXCEPT !.pc = pc] EXCEPT !.result = result]
    OBVIOUS
  <2>2. [c EXCEPT !.pc = pc] =
          [pc |-> pc, run |-> c.run, result |-> c.result, lost |-> c.lost, answer |-> c.answer]
    <3> HIDE DEF c
    <3> QED BY <1>1 DEF Call
  <2>3. [[pc |-> pc, run |-> c.run, result |-> c.result, lost |-> c.lost, answer |-> c.answer]
           EXCEPT !.result = result] =
          [pc |-> pc, run |-> c.run, result |-> result, lost |-> c.lost, answer |-> c.answer]
    OBVIOUS
  <2> HIDE DEF c
  <2> QED BY <2>1, <2>2, <2>3
<1>3. ASSUME NEW pc, NEW result
      PROVE  [call EXCEPT ![p].pc = pc, ![p].result = result] =
               [call EXCEPT ![p] = [c EXCEPT !.pc = pc, !.result = result]]
  BY DEF TypeOK
<1>4. ASSUME NEW pc, NEW result, call' = [call EXCEPT ![p].pc = pc, ![p].result = result]
      PROVE  Moved(p, pc, c.run, result, c.lost, c.answer)
  <2>1. call' = [call EXCEPT ![p] = [c EXCEPT !.pc = pc, !.result = result]]
    BY <1>3, <1>4
  <2>2. [c EXCEPT !.pc = pc, !.result = result] =
          [pc |-> pc, run |-> c.run, result |-> result, lost |-> c.lost, answer |-> c.answer]
    BY <1>2
  <2> HIDE DEF c
  <2> QED BY <2>1, <2>2 DEF Moved
<1>5. ASSUME ReadOutcome(p)
      PROVE  Moved(p, "reasoning", c.run, FirstRead(c.run), c.lost, c.answer)
  <2>1. call' = [call EXCEPT ![p].pc = "reasoning", ![p].result = FirstRead(c.run)]
    BY <1>5 DEF ReadOutcome, FirstRead
  <2> QED BY <1>4, <2>1
<1>6. ASSUME ReadReasoning(p)
      PROVE  Moved(p, "complete", c.run, SecondRead(c.result, c.run), c.lost, c.answer)
  <2>1. call' = [call EXCEPT ![p].pc = "complete", ![p].result = SecondRead(c.result, c.run)]
    BY <1>6 DEF ReadReasoning, SecondRead
  <2> QED BY <1>4, <2>1
<1>7. ASSUME FailToUnlock(p) PROVE Moved(p, "done", c.run, None, c.lost, "connection_lost")
  <2>1. [c EXCEPT !.pc = "done", !.answer = "connection_lost", !.result = None] =
          [[[c EXCEPT !.pc = "done"] EXCEPT !.answer = "connection_lost"] EXCEPT !.result = None]
    OBVIOUS
  <2>2. [c EXCEPT !.pc = "done"] =
          [pc |-> "done", run |-> c.run, result |-> c.result, lost |-> c.lost, answer |-> c.answer]
    <3> HIDE DEF c
    <3> QED BY <1>1 DEF Call
  <2>3. [[pc |-> "done", run |-> c.run, result |-> c.result, lost |-> c.lost,
          answer |-> c.answer] EXCEPT !.answer = "connection_lost"] =
          [pc |-> "done", run |-> c.run, result |-> c.result, lost |-> c.lost,
           answer |-> "connection_lost"]
    OBVIOUS
  <2>4. [[pc |-> "done", run |-> c.run, result |-> c.result, lost |-> c.lost,
          answer |-> "connection_lost"] EXCEPT !.result = None] =
          [pc |-> "done", run |-> c.run, result |-> None, lost |-> c.lost,
           answer |-> "connection_lost"]
    OBVIOUS
  <2>5. call' = [call EXCEPT ![p] =
                   [c EXCEPT !.pc = "done", !.answer = "connection_lost", !.result = None]]
    BY <1>7 DEF FailToUnlock, TypeOK
  <2> HIDE DEF c
  <2>6. [[c EXCEPT !.pc = "done"] EXCEPT !.answer = "connection_lost"] =
          [pc |-> "done", run |-> c.run, result |-> c.result, lost |-> c.lost,
           answer |-> "connection_lost"]
    BY <2>2, <2>3
  <2>7. [c EXCEPT !.pc = "done", !.answer = "connection_lost", !.result = None] =
          [pc |-> "done", run |-> c.run, result |-> None, lost |-> c.lost,
           answer |-> "connection_lost"]
    BY <2>1, <2>4, <2>6
  <2> QED BY <2>5, <2>7 DEF Moved
<1>8. ASSUME LoseLock(p) PROVE Moved(p, c.pc, c.run, c.result, TRUE, c.answer)
  <2>1. [c EXCEPT !.lost = TRUE] =
          [pc |-> c.pc, run |-> c.run, result |-> c.result, lost |-> TRUE, answer |-> c.answer]
    <3> HIDE DEF c
    <3>1. ASSUME NEW lost
          PROVE  [c EXCEPT !.lost = lost] =
                   [pc |-> c.pc, run |-> c.run, result |-> c.result, lost |-> lost,
                    answer |-> c.answer]
      BY <1>1 DEF Call
    <3> QED BY <3>1
  <2>2. call' = [call EXCEPT ![p] = [c EXCEPT !.lost = TRUE]]
    BY <1>8 DEF LoseLock, TypeOK
  <2> HIDE DEF c
  <2> QED BY <2>1, <2>2 DEF Moved
<1> QED BY <1>5, <1>6, <1>7, <1>8

LEMMA MoveOfRead ==
  ASSUME TypeOK, NEW p \in Caller, ReadOutcome(p) \/ ReadReasoning(p)
  PROVE  \E result :
           \/ Moved(p, "reasoning", call[p].run, result, call[p].lost, call[p].answer)
           \/ Moved(p, "complete", call[p].run, result, call[p].lost, call[p].answer)
<1>1. CASE ReadOutcome(p)
  BY <1>1, MoveOfOutcome
<1>2. CASE ReadReasoning(p)
  BY <1>2, MoveOfOutcome
<1> QED BY <1>1, <1>2

\* What Observe makes of the one row it finds.
LEMMA MoveOfObserve ==
  ASSUME TypeOK, NEW p \in Caller, Observe(p)
  PROVE  \E r \in Caller :
           /\ Found(p) = {r} /\ Exists(r) /\ SameRun(r, p)
           /\ \/ ~SamePayload(r, p)
                 /\ Moved(p, "reject", r, call[p].result, call[p].lost, call[p].answer)
              \/ SamePayload(r, p) /\ row[r].status \notin {"absent", "started"}
                 /\ Moved(p, "unlock", call[p].run, row[r].result, call[p].lost, "result")
              \/ SamePayload(r, p) /\ row[r].status = "started"
                 /\ Moved(p, "intake", r, call[p].result, call[p].lost, call[p].answer)
<1>1. PICK r \in Found(p) :
        /\ Found(p) = {r}
        /\ \/ ~SamePayload(r, p) /\ call' = [call EXCEPT ![p].pc = "reject", ![p].run = r]
           \/ SamePayload(r, p) /\ row[r].status # "started" /\ Conclude(p, "result", row[r].result)
           \/ SamePayload(r, p) /\ row[r].status = "started"
              /\ call' = [call EXCEPT ![p].pc = "intake", ![p].run = r]
  BY DEF Observe
<1>2. r \in Caller /\ Exists(r) /\ SameRun(r, p)
  BY DEF Found
<1> QED BY <1>1, <1>2, MovedBy DEF Exists

\* Only the requests at work move, and each moves alone.
LEMMA OthersStay ==
  ASSUME TypeOK, NEW p \in Caller, Begin(p) \/ Step(p) \/ LoseLock(p) \/ Stop(p)
  PROVE  \A q \in Caller : q # p => call'[q] = call[q]
<1>1. ASSUME NEW c, call' = [call EXCEPT ![p] = c]
      PROVE  \A q \in Caller : q # p => call'[q] = call[q]
  BY <1>1 DEF TypeOK
<1>2. \/ UNCHANGED call
      \/ \E c : call' = [call EXCEPT ![p] = c]
  <2>1. CASE Observe(p)
    BY <2>1, MoveOfObserve DEF Moved
  <2>2. CASE ReadOutcome(p) \/ ReadReasoning(p) \/ FailToUnlock(p) \/ LoseLock(p)
    BY <2>2, MoveOfOutcome DEF Moved
  <2>3. CASE Intake(p) \/ RecordResult(p)
    BY <2>3 DEF Intake, RecordResult
  <2>4. CASE \/ Begin(p) \/ TakeLock(p) \/ RefuseIdentity(p) \/ FindNothing(p) \/ Reject(p)
             \/ Insert(p) \/ RecordStart(p) \/ Complete(p) \/ Unlock(p) \/ Stop(p)
    BY <2>4, MoveOf DEF Moved
  <2> QED BY <2>1, <2>2, <2>3, <2>4 DEF Step
<1> QED BY <1>1, <1>2

--------------------------------------------------------------------------------
(* Type correctness *)

\* A request works on a run and on a result that are there.
WorkOK ==
  \A p \in Caller :
    /\ call[p].pc \in {"reject", "record"} \cup Claimed => call[p].run \in Caller
    /\ call[p].pc \in {"reasoning", "complete"} => call[p].result \in Result

TypeInv == TypeOK /\ WorkOK

LEMMA TypeInit == Init => TypeInv
<1> SUFFICES ASSUME Init PROVE TypeInv
  OBVIOUS
<1>1. NoRow \in Row /\ NewCall \in Call
  BY DEF NoRow, Row, NewCall, Call
<1>2. Spine!NoCase \in [phase : {"none", "open", "recommended", "escalated"},
                        mode : {"human_review", "shadow"}, draft : Draft \cup {None}]
  BY DEF Spine!NoCase
<1>3. TypeOK
  BY <1>1, <1>2 DEF Init, TypeOK, Spine!Init
<1>4. \A p \in Caller : call[p].pc = "idle"
  BY DEF Init, NewCall
<1> QED BY <1>3, <1>4 DEF TypeInv, WorkOK, Claimed

\* A place, run, result, connection and answer that go together.
Fits(pc, run, result, lost, answer) ==
  /\ pc \in Pc /\ run \in Caller \cup {None} /\ result \in Result \cup {None}
  /\ lost \in BOOLEAN /\ answer \in Answer \cup {None}
  /\ pc \in {"reject", "record"} \cup Claimed => run \in Caller
  /\ pc \in {"reasoning", "complete"} => result \in Result

LEMMA MovedType ==
  ASSUME TypeInv, NEW p \in Caller, NEW pc, NEW run, NEW result, NEW lost, NEW answer,
         Moved(p, pc, run, result, lost, answer), Fits(pc, run, result, lost, answer)
  PROVE  call' \in [Caller -> Call] /\ WorkOK'
<1> DEFINE c == [pc |-> pc, run |-> run, result |-> result, lost |-> lost, answer |-> answer]
<1>1. c \in Call
  BY DEF Fits, Call, Pc, Live, Answer
<1>2. c.pc = pc /\ c.run = run /\ c.result = result
  OBVIOUS
<1>3. call' = [call EXCEPT ![p] = c]
  BY DEF Moved
<1>4. /\ pc \in {"reject", "record"} \cup Claimed => run \in Caller
      /\ pc \in {"reasoning", "complete"} => result \in Result
  BY DEF Fits
<1> HIDE DEF c
<1>5. call' \in [Caller -> Call] /\ call'[p] = c /\ \A q \in Caller : q # p => call'[q] = call[q]
  BY <1>1, <1>3 DEF TypeInv, TypeOK
<1> QED BY <1>2, <1>4, <1>5 DEF TypeInv, WorkOK

\* A request that moves on, claims a run, or concludes.
LEMMA AdvancedType ==
  ASSUME TypeInv, NEW p \in Caller,
         NEW pc \in {"locking", "select", "insert", "unlock", "done", "stopped"},
         Moved(p, pc, call[p].run, call[p].result, call[p].lost, call[p].answer)
  PROVE  call' \in [Caller -> Call] /\ WorkOK'
<1>1. TypeOK
  BY DEF TypeInv
<1>2. pc \in Pc /\ pc \notin {"reject", "record"} \cup Claimed /\ pc \notin {"reasoning", "complete"}
  BY DEF Pc, Live, Claimed
<1>3. /\ call[p].run \in Caller \cup {None} /\ call[p].result \in Result \cup {None}
      /\ call[p].lost \in BOOLEAN /\ call[p].answer \in Answer \cup {None}
  BY <1>1, CallFields
<1>4. Fits(pc, call[p].run, call[p].result, call[p].lost, call[p].answer)
  BY <1>2, <1>3 DEF Fits
<1> QED BY <1>4, MovedType

LEMMA ClaimedType ==
  ASSUME TypeInv, NEW p \in Caller, NEW pc \in {"reject", "record", "intake"}, NEW r \in Caller,
         Moved(p, pc, r, call[p].result, call[p].lost, call[p].answer)
  PROVE  call' \in [Caller -> Call] /\ WorkOK'
<1>1. TypeOK
  BY DEF TypeInv
<1>2. pc \in Pc /\ pc \notin {"reasoning", "complete"} /\ r \in Caller \cup {None}
  BY DEF Pc, Live
<1>3. /\ call[p].result \in Result \cup {None}
      /\ call[p].lost \in BOOLEAN /\ call[p].answer \in Answer \cup {None}
  BY <1>1, CallFields
<1>4. Fits(pc, r, call[p].result, call[p].lost, call[p].answer)
  BY <1>2, <1>3 DEF Fits
<1> QED BY <1>4, MovedType

LEMMA ConcludedType ==
  ASSUME TypeInv, NEW p \in Caller, NEW pc \in {"unlock", "done"},
         NEW result \in Result \cup {None}, NEW answer \in Answer,
         Moved(p, pc, call[p].run, result, call[p].lost, answer)
  PROVE  call' \in [Caller -> Call] /\ WorkOK'
<1>1. TypeOK
  BY DEF TypeInv
<1>2. pc \in Pc /\ pc \notin {"reject", "record"} \cup Claimed /\ pc \notin {"reasoning", "complete"}
      /\ answer \in Answer \cup {None}
  BY DEF Pc, Live, Claimed
<1>3. call[p].run \in Caller \cup {None} /\ call[p].lost \in BOOLEAN
  BY <1>1, CallFields
<1>4. Fits(pc, call[p].run, result, call[p].lost, answer)
  BY <1>2, <1>3 DEF Fits
<1> QED BY <1>4, MovedType

\* One event more in the log of a run.
LEMMA AppendType ==
  ASSUME TypeOK, NEW p \in Caller, NEW r \in Caller,
         NEW type \in {"started", "rejected", "completed"}, AppendEvent(r, type, p)
  PROVE  log' \in [Caller -> Seq(Event)]
<1>1. [type |-> type, by |-> p] \in Event
  BY DEF Event
<1>2. Append(log[r], [type |-> type, by |-> p]) \in Seq(Event)
  BY <1>1 DEF TypeOK
<1>3. log' = [log EXCEPT ![r] = Append(log[r], [type |-> type, by |-> p])]
  BY DEF AppendEvent, TypeOK
<1> QED BY <1>2, <1>3 DEF TypeOK

\* The second read changes two fields of a result.
LEMMA SecondReadIs ==
  ASSUME NEW result \in Result, NEW r \in Caller
  PROVE  /\ SecondRead(result, r) =
              [ phase |-> result.phase, draft |-> result.draft, evidence |-> result.evidence,
                invoked |-> r \in consulted, provider |-> ProviderOf(r) ]
         /\ SecondRead(result, r) \in Result
<1> DEFINE invoked == r \in consulted
           provider == ProviderOf(r)
           asked == [ phase |-> result.phase, draft |-> result.draft,
                      evidence |-> result.evidence, invoked |-> invoked,
                      provider |-> result.provider ]
           read == [ phase |-> result.phase, draft |-> result.draft,
                     evidence |-> result.evidence, invoked |-> invoked, provider |-> provider ]
<1>1. invoked \in BOOLEAN /\ provider \in {"not-invoked", "model"}
  BY DEF ProviderOf
<1> HIDE DEF invoked, provider
<1>2. [result EXCEPT !.invoked = invoked, !.provider = provider] =
        [[result EXCEPT !.invoked = invoked] EXCEPT !.provider = provider]
  OBVIOUS
<1>3. [result EXCEPT !.invoked = invoked] = asked
  BY DEF Result
<1>4. [asked EXCEPT !.provider = provider] = read
  OBVIOUS
<1>5. read \in Result
  BY <1>1 DEF Result
<1>6. SecondRead(result, r) = [result EXCEPT !.invoked = invoked, !.provider = provider]
  BY DEF SecondRead, invoked, provider
<1> HIDE DEF asked
<1>7. SecondRead(result, r) = read
  BY <1>2, <1>3, <1>4, <1>6
<1> QED BY <1>5, <1>7 DEF invoked, provider

LEMMA TypeStepOf ==
  ASSUME TypeInv, NEW p \in Caller, Begin(p) \/ Step(p) \/ LoseLock(p) \/ Stop(p)
  PROVE  TypeInv'
<1>0. TypeOK /\ WorkOK
  BY DEF TypeInv
<1>1. /\ call[p].pc \in Pc /\ call[p].run \in Caller \cup {None}
      /\ call[p].result \in Result \cup {None} /\ call[p].lost \in BOOLEAN
      /\ call[p].answer \in Answer \cup {None}
  BY <1>0, CallFields
<1>2. /\ "result" \in Answer /\ "identity_conflict" \in Answer /\ "idempotency_conflict" \in Answer
      /\ "completion_conflict" \in Answer /\ "unique_violation" \in Answer
      /\ "connection_lost" \in Answer /\ None \in Result \cup {None}
  BY DEF Answer
<1>3. FreedLocks(p) \in [Lock -> Caller \cup {None}]
  BY <1>0 DEF FreedLocks, TypeOK
<1>4. CASE Begin(p) \/ FindNothing(p) \/ RefuseIdentity(p)
  <2>1. UNCHANGED <<row, log, lock, investigation, consulted, results>>
    BY <1>4 DEF Begin, FindNothing, RefuseIdentity
  <2>2. call' \in [Caller -> Call] /\ WorkOK'
    BY <1>0, <1>2, <1>4, MoveOf, AdvancedType, ConcludedType
  <2> QED BY <1>0, <2>1, <2>2 DEF TypeInv, TypeOK
<1>5. CASE TakeLock(p) \/ Unlock(p)
  <2>1. UNCHANGED <<row, log, investigation, consulted, results>> /\ lock' \in [Lock -> Caller \cup {None}]
    BY <1>0, <1>5 DEF TakeLock, Unlock, TypeOK
  <2>2. call' \in [Caller -> Call] /\ WorkOK'
    <3>1. PICK pc \in {"select", "locking", "unlock", "done"} :
            Moved(p, pc, call[p].run, call[p].result, call[p].lost, call[p].answer)
      BY <1>0, <1>5, MoveOf
    <3> QED BY <3>1, AdvancedType
  <2> QED BY <1>0, <2>1, <2>2 DEF TypeInv, TypeOK
<1>6. CASE Observe(p)
  <2>1. UNCHANGED <<row, log, lock, investigation, consulted, results>>
    BY <1>6 DEF Observe
  <2>2. PICK r \in Caller :
          \/ Moved(p, "reject", r, call[p].result, call[p].lost, call[p].answer)
          \/ Moved(p, "unlock", call[p].run, row[r].result, call[p].lost, "result")
          \/ Moved(p, "intake", r, call[p].result, call[p].lost, call[p].answer)
    BY <1>0, <1>6, MoveOfObserve
  <2>3. row[r].result \in Result \cup {None} /\ r \in Caller \cup {None}
    BY <1>0 DEF TypeOK, Row
  <2>4. call' \in [Caller -> Call] /\ WorkOK'
    BY <1>2, <2>2, <2>3, ClaimedType, ConcludedType
  <2> QED BY <1>0, <2>1, <2>4 DEF TypeInv, TypeOK
<1>7. CASE Reject(p)
  <2>1. UNCHANGED <<row, lock, investigation, consulted, results>> /\ call[p].run \in Caller
        /\ AppendEvent(call[p].run, "rejected", p)
    BY <1>0, <1>7 DEF Reject, WorkOK
  <2>2. log' \in [Caller -> Seq(Event)]
    BY <1>0, <2>1, AppendType
  <2>3. call' \in [Caller -> Call] /\ WorkOK'
    BY <1>0, <1>2, <1>7, MoveOf, ConcludedType
  <2> QED BY <1>0, <2>1, <2>2, <2>3 DEF TypeInv, TypeOK
<1>8. CASE Insert(p)
  <2>1. UNCHANGED <<log, lock, investigation, consulted, results>>
    BY <1>8 DEF Insert
  <2>2. call' \in [Caller -> Call] /\ WorkOK'
    <3>1. CASE Insertable(p)
      BY <1>0, <1>8, <3>1, MoveOf, ClaimedType
    <3>2. CASE ~Insertable(p)
      BY <1>0, <1>2, <1>8, <3>2, MoveOf, ConcludedType
    <3> QED BY <3>1, <3>2
  <2>3. row' \in [Caller -> Row]
    <3>1. row \in [Caller -> Row] /\ row[p] \in Row
      BY <1>0 DEF TypeOK
    <3>2. \A w \in Row : [w EXCEPT !.status = "started"] \in Row
      BY DEF Row
    <3>3. row' = [row EXCEPT ![p] = [row[p] EXCEPT !.status = "started"]] \/ UNCHANGED row
      BY <1>8, <3>1 DEF Insert
    <3> QED BY <3>1, <3>2, <3>3
  <2> QED BY <1>0, <2>1, <2>2, <2>3 DEF TypeInv, TypeOK
<1>9. CASE RecordStart(p)
  <2>1. UNCHANGED <<row, lock, investigation, consulted, results>> /\ call[p].run \in Caller
        /\ AppendEvent(p, "started", p)
    BY <1>0, <1>9 DEF RecordStart, WorkOK
  <2>2. log' \in [Caller -> Seq(Event)]
    BY <1>0, <2>1, AppendType
  <2>3. call' \in [Caller -> Call] /\ WorkOK'
    BY <1>0, <1>9, <2>1, MoveOf, ClaimedType
  <2> QED BY <1>0, <2>1, <2>2, <2>3 DEF TypeInv, TypeOK
<1>10. CASE Intake(p)
  <2>1. UNCHANGED <<row, log, lock, call>> /\ call[p].run \in Caller
    BY <1>0, <1>10 DEF Intake, WorkOK, Claimed
  <2> DEFINE r == call[p].run
             Rows == [phase : {"none", "open", "recommended", "escalated"},
                      mode : {"human_review", "shadow"}, draft : Draft \cup {None}]
  <2>2. investigation' \in [Caller -> Rows]
    <3>0. investigation \in [Caller -> Rows] /\ r \in Caller
      BY <1>0, <2>1 DEF TypeOK
    <3>1. CASE Spine!Open(r)
      <4>1. [investigation[r] EXCEPT !.phase = "open", !.mode = "shadow"] \in Rows
        <5> DEFINE c == investigation[r]
                   opened == [phase |-> "open", mode |-> c.mode, draft |-> c.draft]
        <5>1. [c EXCEPT !.phase = "open", !.mode = "shadow"] =
                [[c EXCEPT !.phase = "open"] EXCEPT !.mode = "shadow"]
          OBVIOUS
        <5>2. c \in Rows
          BY <3>0
        <5>3. [opened EXCEPT !.mode = "shadow"] =
                [phase |-> "open", mode |-> "shadow", draft |-> c.draft]
          OBVIOUS
        <5> HIDE DEF c
        <5>4. [c EXCEPT !.phase = "open"] = opened
          BY <5>2
        <5>5. [phase |-> "open", mode |-> "shadow", draft |-> c.draft] \in Rows
          BY <5>2
        <5> HIDE DEF opened
        <5> QED BY <5>1, <5>3, <5>4, <5>5 DEF c
      <4>2. investigation' =
              [investigation EXCEPT ![r] = [investigation[r] EXCEPT !.phase = "open",
                                                                    !.mode = "shadow"]]
        BY <3>0, <3>1 DEF Spine!Open
      <4> HIDE DEF Rows
      <4> QED BY <3>0, <4>1, <4>2
    <3>2. CASE Spine!Consult(r)
      BY <3>0, <3>2 DEF Spine!Consult
    <3>3. CASE Spine!Recommend(r)
      <4>1. PICK draft \in Draft :
              investigation' = [investigation EXCEPT ![r].phase = "recommended",
                                                     ![r].draft = draft]
        BY <3>3 DEF Spine!Recommend
      <4>2. [investigation[r] EXCEPT !.phase = "recommended", !.draft = draft] \in Rows
        <5> DEFINE c == investigation[r]
                   recommended == [phase |-> "recommended", mode |-> c.mode, draft |-> c.draft]
        <5>1. [c EXCEPT !.phase = "recommended", !.draft = draft] =
                [[c EXCEPT !.phase = "recommended"] EXCEPT !.draft = draft]
          OBVIOUS
        <5>2. c \in Rows
          BY <3>0
        <5>3. [recommended EXCEPT !.draft = draft] =
                [phase |-> "recommended", mode |-> c.mode, draft |-> draft]
          OBVIOUS
        <5> HIDE DEF c
        <5>4. [c EXCEPT !.phase = "recommended"] = recommended
          BY <5>2
        <5>5. [phase |-> "recommended", mode |-> c.mode, draft |-> draft] \in Rows
          BY <5>2
        <5> HIDE DEF recommended
        <5> QED BY <5>1, <5>3, <5>4, <5>5 DEF c
      <4>3. investigation' =
              [investigation EXCEPT ![r] = [investigation[r] EXCEPT !.phase = "recommended",
                                                                    !.draft = draft]]
        BY <3>0, <4>1
      <4> HIDE DEF Rows
      <4> QED BY <3>0, <4>2, <4>3
    <3>4. CASE Spine!Escalate(r)
      <4>1. [investigation[r] EXCEPT !.phase = "escalated"] \in Rows
        BY <3>0
      <4> HIDE DEF Rows
      <4> QED BY <3>0, <3>4, <4>1 DEF Spine!Escalate
    <3> QED BY <1>10, <3>1, <3>2, <3>3, <3>4 DEF Intake
  <2>3. consulted' \subseteq Caller /\ UNCHANGED results
    BY <1>0, <1>10, <2>1
       DEF Intake, TypeOK, Spine!Open, Spine!Consult, Spine!Recommend, Spine!Escalate
  <2> QED BY <1>0, <2>1, <2>2, <2>3 DEF TypeInv, TypeOK, WorkOK
<1>17. CASE RecordResult(p)
  <2>1. UNCHANGED <<row, log, lock, call, investigation, consulted>>
    BY <1>17 DEF RecordResult, Spine!Record
  <2>2. results' \in [Caller -> SUBSET Spine!Tools]
    <3>1. PICK t \in Spine!Tools : Spine!Record(call[p].run, t)
      BY <1>17 DEF RecordResult
    <3> QED BY <1>0, <3>1 DEF TypeOK, Spine!Record
  <2> QED BY <1>0, <2>1, <2>2 DEF TypeInv, TypeOK, WorkOK
<1>11. CASE ReadOutcome(p)
  <2>1. UNCHANGED <<row, log, lock, investigation, consulted, results>> /\ call[p].run \in Caller
    BY <1>0, <1>11 DEF ReadOutcome, WorkOK, Claimed
  <2> DEFINE r == call[p].run
             outcome == FirstRead(r)
  <2>2. outcome \in Result
    <3>1. /\ investigation[r].phase \in {"recommended", "escalated"}
          /\ investigation[r].draft \in Draft \cup {None}
      BY <1>0, <1>11, <2>1 DEF ReadOutcome, AtRest, TypeOK
    <3> QED BY <3>1 DEF FirstRead, Result
  <2>3. Moved(p, "reasoning", r, outcome, call[p].lost, call[p].answer)
    BY <1>0, <1>11, MoveOfOutcome
  <2> HIDE DEF outcome
  <2>4. call' \in [Caller -> Call] /\ WorkOK'
    <3>1. "reasoning" \in Pc /\ "complete" \in Pc
      BY DEF Pc, Live
    <3>2. Fits("reasoning", call[p].run, outcome, call[p].lost, call[p].answer)
      BY <1>1, <2>1, <2>2, <3>1 DEF Fits
    <3> QED BY <2>3, <3>2, MovedType
  <2> QED BY <1>0, <2>1, <2>4 DEF TypeInv, TypeOK
<1>12. CASE ReadReasoning(p)
  <2>1. UNCHANGED <<row, log, lock, investigation, consulted, results>> /\ call[p].run \in Caller
        /\ call[p].result \in Result
    BY <1>0, <1>12 DEF ReadReasoning, WorkOK, Claimed
  <2> DEFINE outcome == SecondRead(call[p].result, call[p].run)
  <2>2. outcome \in Result
    BY <2>1, SecondReadIs
  <2>3. Moved(p, "complete", call[p].run, outcome, call[p].lost, call[p].answer)
    BY <1>0, <1>12, MoveOfOutcome
  <2> HIDE DEF outcome
  <2>4. call' \in [Caller -> Call] /\ WorkOK'
    <3>1. "reasoning" \in Pc /\ "complete" \in Pc
      BY DEF Pc, Live
    <3>2. Fits("complete", call[p].run, outcome, call[p].lost, call[p].answer)
      BY <1>1, <2>1, <2>2, <3>1 DEF Fits
    <3> QED BY <2>3, <3>2, MovedType
  <2> QED BY <1>0, <2>1, <2>4 DEF TypeInv, TypeOK
<1>13. CASE Complete(p)
  <2>1. UNCHANGED <<lock, investigation, consulted, results>> /\ call[p].run \in Caller
        /\ call[p].result \in Result
    BY <1>0, <1>13 DEF Complete, WorkOK, Claimed
  <2>2. call' \in [Caller -> Call] /\ WorkOK'
    <3>1. CASE StillStarted(call[p].run)
      BY <1>0, <1>1, <1>2, <1>13, <3>1, MoveOf, ConcludedType
    <3>2. CASE ~StillStarted(call[p].run)
      BY <1>0, <1>2, <1>13, <3>2, MoveOf, ConcludedType
    <3> QED BY <3>1, <3>2
  <2>3. row' \in [Caller -> Row] /\ log' \in [Caller -> Seq(Event)]
    <3>1. CASE StillStarted(call[p].run)
      <4> DEFINE r == call[p].run
                 new == [status |-> TerminalStatus(call[p].result), result |-> call[p].result,
                         diff |-> Compare(ContentOf[r], call[p].result)]
      <4>1. Compare(ContentOf[r], call[p].result) \in Diff
        BY DEF Compare, Agree, Cover, Diff, Agreement
      <4>2. new \in Row
        BY <2>1, <4>1 DEF Row, TerminalStatus
      <4>3. row' = [row EXCEPT ![r] = new] /\ AppendEvent(r, "completed", p)
        BY <1>13, <3>1 DEF Complete
      <4> HIDE DEF new
      <4> QED BY <1>0, <2>1, <4>2, <4>3, AppendType DEF TypeOK
    <3>2. CASE ~StillStarted(call[p].run)
      BY <1>0, <1>13, <3>2 DEF Complete, TypeOK
    <3> QED BY <3>1, <3>2
  <2> QED BY <1>0, <2>1, <2>2, <2>3 DEF TypeInv, TypeOK
<1>14. CASE FailToUnlock(p)
  <2>1. UNCHANGED <<row, log, lock, investigation, consulted, results>>
    BY <1>14 DEF FailToUnlock
  <2>2. call' \in [Caller -> Call] /\ WorkOK'
    BY <1>0, <1>2, <1>14, MoveOfOutcome, ConcludedType
  <2> QED BY <1>0, <2>1, <2>2 DEF TypeInv, TypeOK
<1>15. CASE LoseLock(p)
  <2>1. UNCHANGED <<row, log, investigation, consulted, results>> /\ lock' = FreedLocks(p)
    BY <1>15 DEF LoseLock
  <2>2. call' \in [Caller -> Call] /\ WorkOK'
    <3>1. Fits(call[p].pc, call[p].run, call[p].result, TRUE, call[p].answer)
      BY <1>0, <1>1, <1>2 DEF Fits, WorkOK
    <3>2. Moved(p, call[p].pc, call[p].run, call[p].result, TRUE, call[p].answer)
      BY <1>0, <1>15, MoveOfOutcome
    <3> QED BY <3>1, <3>2, MovedType
  <2> QED BY <1>0, <1>3, <2>1, <2>2 DEF TypeInv, TypeOK
<1>16. CASE Stop(p)
  <2>1. UNCHANGED <<row, log, investigation, consulted, results>> /\ lock' = FreedLocks(p)
    BY <1>16 DEF Stop
  <2>2. call' \in [Caller -> Call] /\ WorkOK'
    BY <1>0, <1>16, MoveOf, AdvancedType
  <2> QED BY <1>0, <1>3, <2>1, <2>2 DEF TypeInv, TypeOK
<1> QED BY <1>4, <1>5, <1>6, <1>7, <1>8, <1>9, <1>10, <1>11, <1>12, <1>13, <1>14, <1>15, <1>16,
           <1>17
     DEF Step

LEMMA TypeStep == TypeInv /\ [Next]_vars => TypeInv'
<1> SUFFICES ASSUME TypeInv, [Next]_vars PROVE TypeInv'
  OBVIOUS
<1>1. CASE Next
  BY <1>1, TypeStepOf DEF Next
<1>2. CASE UNCHANGED vars
  BY <1>2 DEF vars, TypeInv, TypeOK, WorkOK
<1> QED BY <1>1, <1>2

\* The rows, events, locks and requests keep the shape the code and migration 0004
\* give them.
THEOREM TypeCorrectness == Spec => []TypeOK
BY TypeInit, TypeStep, PTL DEF Spec, TypeInv

--------------------------------------------------------------------------------
(* The locks *)

\* What a step makes of its request, field by field.
To(p, pc, run, result, lost, answer) ==
  /\ call'[p].pc = pc /\ call'[p].run = run /\ call'[p].result = result
  /\ call'[p].lost = lost /\ call'[p].answer = answer

LEMMA MovedTo ==
  ASSUME TypeOK, NEW p \in Caller, NEW pc, NEW run, NEW result, NEW lost, NEW answer,
         Moved(p, pc, run, result, lost, answer)
  PROVE  To(p, pc, run, result, lost, answer)
<1> DEFINE c == [pc |-> pc, run |-> run, result |-> result, lost |-> lost, answer |-> answer]
<1>1. c.pc = pc /\ c.run = run /\ c.result = result /\ c.lost = lost /\ c.answer = answer
  OBVIOUS
<1>2. call' = [call EXCEPT ![p] = c]
  BY DEF Moved
<1> HIDE DEF c
<1>3. call'[p] = c
  BY <1>2 DEF TypeOK
<1> QED BY <1>1, <1>3 DEF To

\* The steps that leave the locks alone.
Quiet(p) ==
  \/ Begin(p) \/ RefuseIdentity(p) \/ Observe(p) \/ FindNothing(p) \/ Reject(p) \/ Insert(p)
  \/ RecordStart(p) \/ Intake(p) \/ RecordResult(p) \/ ReadOutcome(p) \/ ReadReasoning(p)
  \/ Complete(p) \/ FailToUnlock(p)

\* A request at work under its locks.
Under == {"select", "reject", "insert", "record"} \cup Claimed

\* A lock is held by a request that works or waits for its other lock, and a request
\* at work that has not lost its connection holds both.
LocksOK ==
  \A p \in Caller :
    /\ \A l \in Lock : lock[l] = p =>
         l \in LocksOf(p) /\ call[p].pc \in Live /\ ~call[p].lost
    /\ call[p].pc \in Under /\ ~call[p].lost => \A l \in LocksOf(p) : lock[l] = p
    /\ call[p].lost => call[p].pc \in Claimed \cup {"unlock", "done", "stopped"}

LEMMA LocksInit == Init => LocksOK
BY NoneAssumption DEF Init, NewCall, LocksOK, Under, Claimed

LEMMA QuietMoves ==
  ASSUME TypeOK, LocksOK, NEW p \in Caller, Quiet(p)
  PROVE  /\ UNCHANGED lock /\ call'[p].lost = call[p].lost
         /\ call'[p].pc \in Under => call[p].pc \in Under
         /\ call[p].pc \in Live => call'[p].pc \in Live \/ call[p].lost
         /\ call'[p].lost => call'[p].pc \in Claimed \cup {"unlock", "done", "stopped"}
<1>1. call[p].lost => call[p].pc \in Claimed \cup {"unlock", "done", "stopped"}
  BY DEF LocksOK
<1>2. UNCHANGED lock
  BY DEF Quiet, Begin, RefuseIdentity, Observe, FindNothing, Reject, Insert, RecordStart, Intake,
         RecordResult, ReadOutcome, ReadReasoning, Complete, FailToUnlock
<1>3. CASE Begin(p)
  <2>1. call[p].pc = "idle" /\ call'[p].pc = "locking" /\ call'[p].lost = call[p].lost
    <3>1. Moved(p, "locking", call[p].run, call[p].result, call[p].lost, call[p].answer)
      BY <1>3, MoveOf
    <3> QED BY <1>3, <3>1, MovedTo DEF Begin, To
  <2> QED BY <1>1, <1>2, <2>1 DEF Under, Claimed, Live
<1>4. CASE RefuseIdentity(p) \/ Reject(p) \/ FindNothing(p)
  <2>1. call[p].pc \in {"select", "reject"} /\ call'[p].pc \in {"unlock", "insert"}
        /\ call'[p].lost = call[p].lost
    BY <1>4, MoveOf, MovedTo DEF RefuseIdentity, Reject, FindNothing, To
  <2> QED BY <1>1, <1>2, <2>1 DEF Under, Claimed, Live
<1>5. CASE Insert(p) \/ RecordStart(p)
  <2>1. call[p].pc \in {"insert", "record"} /\ call'[p].pc \in {"unlock", "record", "intake"}
        /\ call'[p].lost = call[p].lost
    BY <1>5, MoveOf, MovedTo DEF Insert, RecordStart, To
  <2> QED BY <1>1, <1>2, <2>1 DEF Under, Claimed, Live
<1>6. CASE Complete(p)
  <2>1. call[p].pc = "complete" /\ call'[p].pc = "unlock" /\ call'[p].lost = call[p].lost
    BY <1>6, MoveOf, MovedTo DEF Complete, To
  <2> QED BY <1>1, <1>2, <2>1 DEF Under, Claimed, Live
<1>7. CASE Observe(p)
  <2>1. call[p].pc = "select" /\ call'[p].pc \in {"reject", "unlock", "intake"}
        /\ call'[p].lost = call[p].lost
    BY <1>7, MoveOfObserve, MovedTo DEF Observe, To
  <2> QED BY <1>1, <1>2, <2>1 DEF Under, Claimed, Live
<1>8. CASE Intake(p) \/ RecordResult(p)
  BY <1>1, <1>2, <1>8 DEF Intake, RecordResult
<1>9. CASE ReadOutcome(p) \/ ReadReasoning(p)
  <2>1. call[p].pc \in Claimed /\ call'[p].pc \in {"reasoning", "complete"}
        /\ call'[p].lost = call[p].lost
    <3>1. PICK result :
            \/ Moved(p, "reasoning", call[p].run, result, call[p].lost, call[p].answer)
            \/ Moved(p, "complete", call[p].run, result, call[p].lost, call[p].answer)
      BY <1>9, MoveOfRead
    <3> QED BY <1>9, <3>1, MovedTo DEF ReadOutcome, ReadReasoning, To, Claimed
  <2> QED BY <1>1, <1>2, <2>1 DEF Under, Claimed, Live
<1>10. CASE FailToUnlock(p)
  <2>1. call[p].lost /\ call'[p].pc = "done" /\ call'[p].lost = call[p].lost
    <3>1. Moved(p, "done", call[p].run, None, call[p].lost, "connection_lost")
      BY <1>10, MoveOfOutcome
    <3>2. To(p, "done", call[p].run, None, call[p].lost, "connection_lost")
      BY <3>1, MovedTo
    <3>3. call[p].lost
      BY <1>10 DEF FailToUnlock
    <3> QED BY <3>2, <3>3 DEF To
  <2> QED BY <1>1, <1>2, <2>1 DEF Under, Claimed, Live
<1> QED BY <1>3, <1>4, <1>5, <1>6, <1>7, <1>8, <1>9, <1>10 DEF Quiet

LEMMA LockTypes ==
  ASSUME NEW p \in Caller
  PROVE  LocksOf(p) \subseteq Lock /\ KeyOf[p] \in LocksOf(p) /\ CaseOf[p] \in LocksOf(p)
BY RequestAssumption DEF LocksOf, Lock

LEMMA LocksStepOf ==
  ASSUME TypeOK, LocksOK, NEW p \in Caller, Begin(p) \/ Step(p) \/ LoseLock(p) \/ Stop(p)
  PROVE  LocksOK'
<1>1. \A q \in Caller : q # p => call'[q] = call[q]
  BY OthersStay
<1>2. p # None /\ \A q \in Caller : q # None
  BY NoneAssumption
<1> DEFINE One(q) ==
      /\ \A l \in Lock : lock[l] = q =>
           l \in LocksOf(q) /\ call[q].pc \in Live /\ ~call[q].lost
      /\ call[q].pc \in Under /\ ~call[q].lost => \A l \in LocksOf(q) : lock[l] = q
      /\ call[q].lost => call[q].pc \in Claimed \cup {"unlock", "done", "stopped"}
<1>3. \A q \in Caller : One(q)
  BY DEF LocksOK
<1>4. SUFFICES \A q \in Caller : One(q)'
  BY DEF LocksOK
<1>5. CASE Quiet(p)
  <2>1. ASSUME NEW q \in Caller, q # p PROVE One(q)'
    BY <1>1, <1>3, <1>5, <2>1, QuietMoves DEF LocksOf
  <2>2. One(p)'
    BY <1>3, <1>5, QuietMoves DEF LocksOf
  <2> QED BY <2>1, <2>2
<1>6. CASE TakeLock(p)
  <2>1. PICK l \in LocksOf(p) :
          /\ lock[l] = None /\ lock' = [lock EXCEPT ![l] = p]
          /\ call' = [call EXCEPT ![p].pc =
               IF \A m \in LocksOf(p) \ {l} : lock[m] = p THEN "select" ELSE "locking"]
    BY <1>6 DEF TakeLock, Granted
  <2>2. call[p].pc = "locking" /\ call'[p].lost = call[p].lost
        /\ call'[p].pc = IF \A m \in LocksOf(p) \ {l} : lock[m] = p THEN "select" ELSE "locking"
    <3>1. Moved(p, IF \A m \in LocksOf(p) \ {l} : lock[m] = p THEN "select" ELSE "locking",
                call[p].run, call[p].result, call[p].lost, call[p].answer)
      BY <2>1, MovedBy
    <3> QED BY <1>6, <3>1, MovedTo DEF TakeLock, To
  <2>3. ~call[p].lost
    BY <1>3, <2>2 DEF Claimed
  <2>4. l \in Lock /\ \A m \in Lock : lock'[m] = IF m = l THEN p ELSE lock[m]
    BY <2>1, LockTypes DEF TypeOK
  <2>5. ASSUME NEW q \in Caller, q # p PROVE One(q)'
    <3>1. \A m \in Lock : lock'[m] = q <=> lock[m] = q
      BY <1>2, <2>1, <2>4, <2>5
    <3> QED BY <1>1, <1>3, <2>5, <3>1, LockTypes
  <2>6. One(p)'
    <3>1. \A m \in Lock : lock'[m] = p => m \in LocksOf(p)
      BY <1>3, <2>1, <2>4
    <3>2. call'[p].pc \in Live /\ ~call'[p].lost
      BY <2>2, <2>3 DEF Live
    <3>3. call'[p].pc \in Under => \A m \in LocksOf(p) : lock'[m] = p
      BY <2>2, <2>4, LockTypes DEF Under, Claimed
    <3> QED BY <3>1, <3>2, <3>3
  <2> QED BY <2>5, <2>6
<1>7. CASE Unlock(p)
  <2>1. PICK l \in LocksOf(p) :
          /\ lock[l] = p /\ lock' = [lock EXCEPT ![l] = None]
          /\ call' = [call EXCEPT ![p].pc =
               IF \E m \in LocksOf(p) \ {l} : lock[m] = p THEN "unlock" ELSE "done"]
    BY <1>7 DEF Unlock
  <2>2. call[p].pc = "unlock" /\ ~call[p].lost /\ call'[p].lost = call[p].lost
        /\ call'[p].pc = IF \E m \in LocksOf(p) \ {l} : lock[m] = p THEN "unlock" ELSE "done"
    <3>1. Moved(p, IF \E m \in LocksOf(p) \ {l} : lock[m] = p THEN "unlock" ELSE "done",
                call[p].run, call[p].result, call[p].lost, call[p].answer)
      BY <2>1, MovedBy
    <3> QED BY <1>7, <3>1, MovedTo DEF Unlock, To
  <2>3. l \in Lock /\ \A m \in Lock : lock'[m] = IF m = l THEN None ELSE lock[m]
    BY <2>1, LockTypes DEF TypeOK
  <2>4. ASSUME NEW q \in Caller, q # p PROVE One(q)'
    <3>1. \A m \in Lock : lock'[m] = q <=> lock[m] = q
      BY <1>2, <2>1, <2>3, <2>4
    <3> QED BY <1>1, <1>3, <2>4, <3>1, LockTypes
  <2>5. One(p)'
    <3>1. \A m \in Lock : lock'[m] = p => m \in LocksOf(p) \ {l} /\ lock[m] = p
      BY <1>2, <1>3, <2>3
    <3>2. (\E m \in LocksOf(p) \ {l} : lock[m] = p) => call'[p].pc \in Live
      BY <2>2 DEF Live
    <3>3. call'[p].pc \notin Under /\ ~call'[p].lost
      BY <2>2 DEF Under, Claimed
    <3> QED BY <3>1, <3>2, <3>3
  <2> QED BY <2>4, <2>5
<1>8. CASE LoseLock(p) \/ Stop(p)
  <2>1. lock' = [l \in Lock |-> IF lock[l] = p THEN None ELSE lock[l]]
    BY <1>8 DEF LoseLock, Stop, FreedLocks
  <2>2. \/ call'[p].pc = "stopped"
        \/ call'[p].pc = call[p].pc /\ call[p].pc \in Claimed /\ call'[p].lost
    <3>1. CASE LoseLock(p)
      <4>1. Moved(p, call[p].pc, call[p].run, call[p].result, TRUE, call[p].answer)
        BY <3>1, MoveOfOutcome
      <4>2. To(p, call[p].pc, call[p].run, call[p].result, TRUE, call[p].answer)
        BY <4>1, MovedTo
      <4> QED BY <3>1, <4>2 DEF LoseLock, To
    <3>2. CASE Stop(p)
      BY <3>2, MoveOf, MovedTo DEF To
    <3> QED BY <1>8, <3>1, <3>2
  <2>3. ASSUME NEW q \in Caller, q # p PROVE One(q)'
    <3>1. \A m \in Lock : lock'[m] = q <=> lock[m] = q
      BY <1>2, <2>1, <2>3
    <3> QED BY <1>1, <1>3, <2>3, <3>1, LockTypes
  <2>4. One(p)'
    <3>1. \A m \in Lock : lock'[m] # p
      BY <1>2, <2>1
    <3>2. call'[p].pc \in Under => call'[p].lost
      BY <2>2 DEF Under, Claimed
    <3>3. call'[p].pc \in Claimed \cup {"stopped"}
      BY <2>2
    <3> QED BY <3>1, <3>2, <3>3
  <2> QED BY <2>3, <2>4
<1> QED BY <1>5, <1>6, <1>7, <1>8 DEF Step, Quiet

\* Two requests under locks of one run are one.
LEMMA SharedLock ==
  ASSUME LocksOK, NEW p \in Caller, NEW q \in Caller, SameRun(p, q),
         call[p].pc \in Under, ~call[p].lost, call[q].pc \in Under, ~call[q].lost
  PROVE  p = q
<1>1. PICK l : l \in LocksOf(p) /\ l \in LocksOf(q)
  BY DEF SameRun, LocksOf
<1> QED BY <1>1 DEF LocksOK

--------------------------------------------------------------------------------
(* Rows and the requests that work on them *)

\* A step takes up no run but by observing or inserting it, and finds no connection
\* again.
LEMMA KeepsRun ==
  ASSUME TypeOK, NEW p \in Caller, Begin(p) \/ Step(p) \/ LoseLock(p) \/ Stop(p)
  PROVE  /\ ~Observe(p) /\ ~Insert(p) => call'[p].run = call[p].run
         /\ call[p].lost => call'[p].lost
<1>1. ASSUME NEW pc, NEW run, NEW result, NEW lost, NEW answer,
             Moved(p, pc, run, result, lost, answer), call[p].lost => lost
      PROVE  call'[p].run = run /\ (call[p].lost => call'[p].lost)
  <2>1. To(p, pc, run, result, lost, answer)
    BY <1>1, MovedTo
  <2> QED BY <1>1, <2>1 DEF To
<1>2. CASE ReadOutcome(p)
  <2>1. PICK result : Moved(p, "reasoning", call[p].run, result, call[p].lost, call[p].answer)
    BY <1>2, MoveOfOutcome
  <2> QED BY <1>1, <2>1
<1>3. CASE ReadReasoning(p)
  <2>1. PICK result : Moved(p, "complete", call[p].run, result, call[p].lost, call[p].answer)
    BY <1>3, MoveOfOutcome
  <2> QED BY <1>1, <2>1
<1>4. CASE FailToUnlock(p)
  <2>1. Moved(p, "done", call[p].run, None, call[p].lost, "connection_lost")
    BY <1>4, MoveOfOutcome
  <2> QED BY <1>1, <2>1
<1>5. CASE LoseLock(p)
  <2>1. Moved(p, call[p].pc, call[p].run, call[p].result, TRUE, call[p].answer)
    BY <1>5, MoveOfOutcome
  <2> QED BY <1>1, <2>1
<1>6. CASE Intake(p) \/ RecordResult(p)
  BY <1>6 DEF Intake, RecordResult
<1>7. CASE \/ Begin(p) \/ TakeLock(p) \/ RefuseIdentity(p) \/ FindNothing(p) \/ Reject(p)
           \/ RecordStart(p) \/ Complete(p) \/ Unlock(p) \/ Stop(p)
  <2>1. PICK pc, result, answer : Moved(p, pc, call[p].run, result, call[p].lost, answer)
    BY <1>7, MoveOf
  <2> QED BY <1>1, <2>1
<1>8. CASE Observe(p)
  <2>1. PICK pc, run, result, answer : Moved(p, pc, run, result, call[p].lost, answer)
    BY <1>8, MoveOfObserve
  <2> QED BY <1>1, <1>8, <2>1
<1>9. CASE Insert(p)
  <2>1. PICK pc, run, result, answer : Moved(p, pc, run, result, call[p].lost, answer)
    BY <1>9, MoveOf
  <2> QED BY <1>1, <1>9, <2>1
<1> QED BY <1>2, <1>3, <1>4, <1>5, <1>6, <1>7, <1>8, <1>9 DEF Step

\* What the steps make of the rows.
LEMMA RowSteps ==
  ASSUME TypeInv, NEW p \in Caller, Begin(p) \/ Step(p) \/ LoseLock(p) \/ Stop(p)
  PROVE  \/ UNCHANGED row /\ ~(Insert(p) /\ Insertable(p))
            /\ ~(Complete(p) /\ StillStarted(call[p].run))
         \/ /\ Insert(p) /\ Insertable(p) /\ row'[p].status = "started"
            /\ \A r \in Caller : r # p => row'[r] = row[r]
         \/ /\ Complete(p) /\ StillStarted(call[p].run)
            /\ row'[call[p].run].status \in {"completed", "escalated"}
            /\ \A r \in Caller : r # call[p].run => row'[r] = row[r]
<1>0. TypeOK /\ call[p].pc \in Pc
  BY CallFields DEF TypeInv
<1>1. CASE Insert(p) /\ Insertable(p)
  <2>1. row[p] \in Row /\ row' = [row EXCEPT ![p] = [row[p] EXCEPT !.status = "started"]]
    BY <1>0, <1>1 DEF Insert, TypeOK
  <2>2. [row[p] EXCEPT !.status = "started"].status = "started"
    BY <2>1 DEF Row
  <2> QED BY <1>0, <1>1, <2>1, <2>2 DEF TypeOK
<1>2. CASE Complete(p) /\ StillStarted(call[p].run)
  <2> DEFINE r == call[p].run
             new == [status |-> TerminalStatus(call[p].result), result |-> call[p].result,
                     diff |-> Compare(ContentOf[r], call[p].result)]
  <2>1. row' = [row EXCEPT ![r] = new] /\ r \in Caller
    BY <1>2 DEF Complete, TypeInv, WorkOK, Claimed
  <2>2. new.status \in {"completed", "escalated"}
    BY DEF TerminalStatus
  <2> HIDE DEF new
  <2> QED BY <1>0, <1>2, <2>1, <2>2 DEF TypeOK
<1>3. CASE ~(Insert(p) /\ Insertable(p)) /\ ~(Complete(p) /\ StillStarted(call[p].run))
  <2>1. CASE Insert(p) \/ Complete(p)
    BY <1>3, <2>1 DEF Insert, Complete
  <2>2. CASE ~(Insert(p) \/ Complete(p))
    BY <2>2 DEF Begin, Step, TakeLock, RefuseIdentity, Observe, FindNothing, Reject, RecordStart,
                Intake, RecordResult, ReadOutcome, ReadReasoning, Unlock, FailToUnlock, LoseLock,
                Stop
  <2> QED BY <1>3, <2>1, <2>2
<1> QED BY <1>1, <1>2, <1>3

\* What a request knows of the run it works on, and of the row it may insert.
RunOf(p) ==
  /\ call[p].run # None => Exists(call[p].run) /\ SameRun(call[p].run, p)
  /\ call[p].pc \in Claimed => SamePayload(call[p].run, p)
  /\ call[p].pc \in {"idle", "locking", "select", "insert"} => ~Exists(p) /\ call[p].run = None
  /\ call[p].pc = "insert" => Found(p) = {}
  /\ call[p].pc = "record" =>
       /\ call[p].run = p /\ row[p].status = "started"
       /\ \A q \in Caller : q # p => call[q].run # p

RunsOK == \A p \in Caller : RunOf(p)

LEMMA RunsInit == Init => RunsOK
BY DEF Init, NewCall, NoRow, RunsOK, RunOf, Claimed, Exists

LEMMA RunsGrow ==
  ASSUME TypeInv, RunsOK, NEW p \in Caller, Begin(p) \/ Step(p) \/ LoseLock(p) \/ Stop(p),
         NEW r \in Caller
  PROVE  /\ Exists(r) => Exists(r)'
         /\ Exists(r)' => Exists(r) \/ (r = p /\ Insert(p) /\ Insertable(p))
<1>1. Complete(p) => call[p].run \in Caller /\ Exists(call[p].run) /\ call[p].run # None
  <2>1. Complete(p) => call[p].run \in Caller
    BY DEF Complete, TypeInv, WorkOK, Claimed
  <2> QED BY <2>1, NoneAssumption DEF RunsOK, RunOf
<1> QED BY <1>1, RowSteps DEF Exists

\* A request at rest keeps what it knows: nobody else inserts a row for it, takes up
\* the row it has just inserted, or completes it.
LEMMA OthersRunOf ==
  ASSUME TypeInv, LocksOK, RunsOK, NEW p \in Caller,
         Begin(p) \/ Step(p) \/ LoseLock(p) \/ Stop(p),
         NEW q \in Caller, q # p
  PROVE  RunOf(q)'
<1>0. TypeOK /\ RunOf(q) /\ RunOf(p) /\ call'[q] = call[q]
      /\ call[q].run \in Caller \cup {None}
  BY OthersStay, CallFields DEF TypeInv, RunsOK
<1>1. call[q].run # None => Exists(call[q].run)' /\ SameRun(call[q].run, q)
  BY <1>0, RunsGrow DEF RunOf
<1>2. call[q].pc \in {"idle", "locking", "select", "insert"} => ~Exists(q)' /\ call[q].run = None
  BY <1>0, RunsGrow DEF RunOf
<1>3. ASSUME call[q].pc = "insert" PROVE Found(q)' = {}
  <2>1. Insert(p) => ~SameRun(p, q)
    <3>1. ASSUME Insert(p), SameRun(p, q) PROVE FALSE
      <4>1. call[p].pc = "insert" /\ ~call[p].lost /\ ~call[q].lost
        BY <1>3, <3>1 DEF Insert, LocksOK, Claimed
      <4> QED BY <1>3, <3>1, <4>1, SharedLock DEF Under
    <3> QED BY <3>1
  <2>2. Found(q) = {}
    BY <1>0, <1>3 DEF RunOf
  <2> QED BY <2>1, <2>2, RunsGrow DEF Found
<1>4. ASSUME call[q].pc = "record"
      PROVE  /\ row'[q].status = "started"
             /\ \A s \in Caller : s # q => call'[s].run # q
  <2>1. call[q].run = q /\ row[q].status = "started" /\ call[p].run # q
        /\ \A s \in Caller : s # q => call[s].run # q
    BY <1>0, <1>4 DEF RunOf
  <2>2. row'[q].status = "started"
    BY <2>1, RowSteps
  <2>3. call'[p].run # q
    <3>1. CASE Observe(p)
      <4>1. PICK r \in Caller : SameRun(r, p) /\ call'[p].run \in {r, call[p].run}
        BY <1>0, <3>1, MoveOfObserve, MovedTo DEF To
      <4>2. ASSUME r = q PROVE FALSE
        <5>1. call[p].pc = "select" /\ ~call[p].lost /\ ~call[q].lost
          BY <1>4, <3>1 DEF Observe, LocksOK, Claimed
        <5>2. SameRun(q, p)
          BY <4>1, <4>2
        <5> QED BY <1>4, <5>1, <5>2, SharedLock DEF Under
      <4> QED BY <2>1, <4>1, <4>2
    <3>2. CASE Insert(p)
      BY <1>0, <2>1, <3>2, MoveOf, MovedTo DEF To
    <3>3. CASE ~Observe(p) /\ ~Insert(p)
      BY <1>0, <2>1, <3>3, KeepsRun
    <3> QED BY <3>1, <3>2, <3>3
  <2> QED BY <2>1, <2>2, <2>3, OthersStay, <1>0
<1> QED BY <1>0, <1>1, <1>2, <1>3, <1>4 DEF RunOf

\* A request that goes on with the run it has.
LEMMA CarriesRun ==
  ASSUME TypeInv, RunsOK, NEW p \in Caller, Begin(p) \/ Step(p) \/ LoseLock(p) \/ Stop(p),
         call'[p].run = call[p].run, call'[p].pc \in Claimed => call[p].pc \in Claimed,
         call'[p].pc \notin {"idle", "locking", "select", "insert", "record"}
  PROVE  RunOf(p)'
<1>1. TypeOK /\ RunOf(p) /\ call[p].run \in Caller \cup {None}
  BY CallFields DEF TypeInv, RunsOK
<1>2. call[p].run # None => Exists(call[p].run)' /\ SameRun(call[p].run, p)
  BY <1>1, RunsGrow DEF RunOf
<1>3. call'[p].pc \in Claimed => SamePayload(call[p].run, p)
  BY <1>1 DEF RunOf
<1> QED BY <1>2, <1>3 DEF RunOf, Exists

LEMMA OwnRunOf ==
  ASSUME TypeInv, LocksOK, RunsOK, NEW p \in Caller,
         Begin(p) \/ Step(p) \/ LoseLock(p) \/ Stop(p)
  PROVE  RunOf(p)'
<1>0. TypeOK /\ RunOf(p) /\ call[p].run \in Caller \cup {None} /\ p # None
  BY CallFields, NoneAssumption DEF TypeInv, RunsOK
<1>1. CASE Begin(p) \/ TakeLock(p) \/ FindNothing(p)
  <2>1. PICK pc \in {"locking", "select", "insert"} :
          /\ Moved(p, pc, call[p].run, call[p].result, call[p].lost, call[p].answer)
          /\ pc = "insert" => FindNothing(p)
    BY <1>0, <1>1, MoveOf
  <2>2. call'[p].pc = pc /\ call'[p].run = call[p].run
    BY <1>0, <2>1, MovedTo DEF To
  <2>3. call[p].run = None /\ ~Exists(p) /\ UNCHANGED row
    BY <1>0, <1>1 DEF Begin, TakeLock, FindNothing, RunOf
  <2>4. pc = "insert" => Found(p)' = {}
    BY <2>1, <2>3 DEF FindNothing, Found, Exists
  <2> QED BY <2>2, <2>3, <2>4 DEF RunOf, Claimed, Exists
<1>2. CASE Observe(p)
  <2>1. PICK r \in Caller :
          /\ Exists(r) /\ SameRun(r, p)
          /\ \/ Moved(p, "reject", r, call[p].result, call[p].lost, call[p].answer)
             \/ Moved(p, "unlock", call[p].run, row[r].result, call[p].lost, "result")
             \/ SamePayload(r, p)
                /\ Moved(p, "intake", r, call[p].result, call[p].lost, call[p].answer)
    BY <1>0, <1>2, MoveOfObserve
  <2>2. \/ call'[p].pc = "reject" /\ call'[p].run = r
        \/ call'[p].pc = "unlock" /\ call'[p].run = call[p].run
        \/ call'[p].pc = "intake" /\ call'[p].run = r /\ SamePayload(r, p)
    BY <1>0, <2>1, MovedTo DEF To
  <2>3. CASE call'[p].pc = "unlock" /\ call'[p].run = call[p].run
    BY <1>2, <2>3, CarriesRun DEF Step, Claimed
  <2>4. CASE call'[p].pc # "unlock"
    <3>1. UNCHANGED row
      BY <1>2 DEF Observe
    <3>2. call'[p].run = r /\ call'[p].pc \in {"reject", "intake"}
          /\ (call'[p].pc = "intake" => SamePayload(r, p))
      BY <2>2, <2>4
    <3>3. Exists(r)' /\ SameRun(r, p)
      BY <2>1, <3>1 DEF Exists
    <3>4. call'[p].pc \in Claimed => SamePayload(r, p)
      BY <3>2 DEF Claimed
    <3> QED BY <3>2, <3>3, <3>4 DEF RunOf, Exists
  <2> QED BY <2>2, <2>3, <2>4
<1>3. CASE Insert(p)
  <2>1. CASE Insertable(p)
    <3>1. Moved(p, "record", p, call[p].result, call[p].lost, call[p].answer)
      BY <1>0, <1>3, <2>1, MoveOf
    <3>2. call'[p].pc = "record" /\ call'[p].run = p
      BY <1>0, <3>1, MovedTo DEF To
    <3>3. row'[p].status = "started" /\ ~Exists(p)
      BY <1>0, <1>3, <2>1, RowSteps DEF Insert, RunOf, Complete
    <3>4. \A q \in Caller : q # p => call'[q].run # p
      <4>1. \A q \in Caller : call[q].run # p
        BY <1>0, <3>3 DEF RunsOK, RunOf
      <4> QED BY <1>0, <4>1, OthersStay
    <3> QED BY <3>2, <3>3, <3>4 DEF RunOf, Exists, SameRun, Claimed
  <2>2. CASE ~Insertable(p)
    <3>1. Moved(p, "unlock", call[p].run, None, call[p].lost, "unique_violation")
      BY <1>0, <1>3, <2>2, MoveOf
    <3>2. call'[p].pc = "unlock" /\ call'[p].run = call[p].run
      BY <1>0, <3>1, MovedTo DEF To
    <3> QED BY <1>3, <3>2, CarriesRun DEF Step, Claimed
  <2> QED BY <2>1, <2>2
<1>4. CASE RecordStart(p)
  <2>1. call[p].run = p /\ row[p].status = "started" /\ UNCHANGED row
    BY <1>0, <1>4 DEF RecordStart, RunOf
  <2>2. Moved(p, "intake", call[p].run, call[p].result, call[p].lost, call[p].answer)
    BY <1>0, <1>4, MoveOf
  <2>3. call'[p].pc = "intake" /\ call'[p].run = p
    BY <1>0, <2>1, <2>2, MovedTo DEF To
  <2> QED BY <2>1, <2>3 DEF RunOf, Exists, SameRun, SamePayload
<1>5. CASE Intake(p) \/ RecordResult(p)
  BY <1>0, <1>5 DEF Intake, RecordResult, RunOf, Exists, Found
<1>6. CASE \/ RefuseIdentity(p) \/ Reject(p) \/ Complete(p) \/ Unlock(p) \/ Stop(p)
  <2>1. PICK pc, result, answer :
          /\ pc \in {"unlock", "done", "stopped"}
          /\ Moved(p, pc, call[p].run, result, call[p].lost, answer)
    BY <1>0, <1>6, MoveOf
  <2>2. call'[p].pc \in {"unlock", "done", "stopped"} /\ call'[p].run = call[p].run
    BY <1>0, <2>1, MovedTo DEF To
  <2> QED BY <2>2, CarriesRun DEF Claimed
<1>7. CASE ReadOutcome(p) \/ ReadReasoning(p)
  <2>1. PICK result :
          \/ Moved(p, "reasoning", call[p].run, result, call[p].lost, call[p].answer)
          \/ Moved(p, "complete", call[p].run, result, call[p].lost, call[p].answer)
    BY <1>0, <1>7, MoveOfRead
  <2>2. call'[p].pc \in {"reasoning", "complete"} /\ call'[p].run = call[p].run
    BY <1>0, <2>1, MovedTo DEF To
  <2>3. call[p].pc \in Claimed
    BY <1>7 DEF ReadOutcome, ReadReasoning, Claimed
  <2> QED BY <2>2, <2>3, CarriesRun
<1>8. CASE FailToUnlock(p)
  <2>1. Moved(p, "done", call[p].run, None, call[p].lost, "connection_lost")
    BY <1>0, <1>8, MoveOfOutcome
  <2>2. call'[p].pc = "done" /\ call'[p].run = call[p].run
    BY <1>0, <2>1, MovedTo DEF To
  <2> QED BY <2>2, CarriesRun DEF Claimed
<1>9. CASE LoseLock(p)
  <2>1. Moved(p, call[p].pc, call[p].run, call[p].result, TRUE, call[p].answer)
    BY <1>0, <1>9, MoveOfOutcome
  <2>2. call'[p].pc = call[p].pc /\ call'[p].run = call[p].run
    <3>1. To(p, call[p].pc, call[p].run, call[p].result, TRUE, call[p].answer)
      BY <1>0, <2>1, MovedTo
    <3> QED BY <3>1 DEF To
  <2>3. call[p].pc \in Claimed
    BY <1>9 DEF LoseLock
  <2>4. call[p].pc \notin {"idle", "locking", "select", "insert", "record"}
    BY <2>3 DEF Claimed
  <2> QED BY <2>2, <2>3, <2>4, CarriesRun
<1> QED BY <1>1, <1>2, <1>3, <1>4, <1>5, <1>6, <1>7, <1>8, <1>9 DEF Step

--------------------------------------------------------------------------------
(* The claim of a run *)

\* Some request for the run has lost its locks.
Broken(r) == \E q \in Caller : call[q].run = r /\ call[q].lost
BrokenNext(r) == \E q \in Caller : call'[q].run = r /\ call'[q].lost

ClaimOf(p) ==
  /\ call[p].pc \in Claimed /\ row[call[p].run].status # "started" => Broken(call[p].run)
  /\ call[p].answer = "completion_conflict" => Broken(call[p].run)
  /\ call[p].answer # "unique_violation"
  /\ call[p].answer # None => call[p].pc \in {"unlock", "done", "stopped"}

ClaimsOK == \A p \in Caller : ClaimOf(p)

ClaimInv == TypeInv /\ LocksOK /\ RunsOK /\ ClaimsOK

LEMMA ClaimInit == Init => ClaimInv
<1>1. Init => ClaimsOK
  BY NoneAssumption DEF Init, NewCall, ClaimsOK, ClaimOf, Claimed
<1> QED BY <1>1, TypeInit, LocksInit, RunsInit DEF ClaimInv

LEMMA BrokenKept ==
  ASSUME ClaimInv, NEW p \in Caller, Begin(p) \/ Step(p) \/ LoseLock(p) \/ Stop(p), NEW r,
         Broken(r)
  PROVE  BrokenNext(r)
<1>1. TypeOK
  BY DEF ClaimInv, TypeInv
<1>2. PICK q \in Caller : call[q].run = r /\ call[q].lost
  BY DEF Broken
<1>3. call[q].pc \in Claimed \cup {"unlock", "done", "stopped"}
  BY <1>2 DEF ClaimInv, LocksOK
<1>4. q = p => ~Observe(p) /\ ~Insert(p)
  BY <1>3 DEF Observe, Insert, Claimed
<1>5. call'[q].run = r /\ call'[q].lost
  BY <1>1, <1>2, <1>4, KeepsRun, OthersStay
<1> QED BY <1>5 DEF BrokenNext

\* Two requests with a claim on one run: one has lost its locks.
LEMMA Exclusive ==
  ASSUME ClaimInv, NEW p \in Caller, NEW q \in Caller, q # p,
         call[p].pc \in Claimed, call[q].pc \in Claimed, call[p].run = call[q].run
  PROVE  call[p].lost \/ call[q].lost
<1>1. CaseOf[p] = CaseOf[q]
  BY DEF ClaimInv, RunsOK, RunOf, SamePayload
<1> QED BY <1>1, SharedLock DEF ClaimInv, SameRun, Under

\* What a step leaves of the claim and of the answer of its request.
LEMMA ClaimMoves ==
  ASSUME ClaimInv, NEW p \in Caller, Begin(p) \/ Step(p) \/ LoseLock(p) \/ Stop(p)
  PROVE  /\ call'[p].pc \in Claimed =>
              \/ row'[call'[p].run].status = "started"
              \/ call[p].pc \in Claimed /\ call'[p].run = call[p].run /\ UNCHANGED row
         /\ \/ call'[p].answer = call[p].answer
               /\ (call[p].pc \in {"unlock", "done", "stopped"} =>
                     call'[p].pc \in {"unlock", "done", "stopped"})
            \/ /\ call'[p].answer \notin {"unique_violation", "completion_conflict"}
               /\ call'[p].pc \in {"unlock", "done", "stopped"}
            \/ /\ call'[p].answer = "completion_conflict"
               /\ call'[p].pc = "unlock" /\ call'[p].run = call[p].run
               /\ Complete(p) /\ ~StillStarted(call[p].run)
<1>0. TypeOK /\ RunOf(p)
  BY DEF ClaimInv, TypeInv, RunsOK
<1>1. CASE \/ Begin(p) \/ TakeLock(p) \/ FindNothing(p)
  <2>1. PICK pc \in {"locking", "select", "insert"} :
          Moved(p, pc, call[p].run, call[p].result, call[p].lost, call[p].answer)
    BY <1>0, <1>1, MoveOf
  <2>2. call'[p].pc = pc /\ call'[p].answer = call[p].answer
    BY <1>0, <2>1, MovedTo DEF To
  <2>3. call[p].pc \notin {"unlock", "done", "stopped"}
    BY <1>1 DEF Begin, TakeLock, FindNothing
  <2> QED BY <2>2, <2>3 DEF Claimed
<1>2. CASE RefuseIdentity(p) \/ Reject(p)
  <2>1. PICK answer \in {"identity_conflict", "idempotency_conflict"} :
          Moved(p, "unlock", call[p].run, None, call[p].lost, answer)
    BY <1>0, <1>2, MoveOf
  <2>2. call'[p].pc = "unlock" /\ call'[p].answer = answer
    BY <1>0, <2>1, MovedTo DEF To
  <2> QED BY <2>2 DEF Claimed
<1>3. CASE Observe(p)
  <2>1. UNCHANGED row /\ call[p].pc = "select"
    BY <1>3 DEF Observe
  <2>2. PICK r \in Caller :
          \/ Moved(p, "reject", r, call[p].result, call[p].lost, call[p].answer)
          \/ Moved(p, "unlock", call[p].run, row[r].result, call[p].lost, "result")
          \/ row[r].status = "started"
             /\ Moved(p, "intake", r, call[p].result, call[p].lost, call[p].answer)
    BY <1>0, <1>3, MoveOfObserve
  <2>3. \/ call'[p].pc = "reject" /\ call'[p].answer = call[p].answer
        \/ call'[p].pc = "unlock" /\ call'[p].answer = "result"
        \/ /\ row[r].status = "started" /\ call'[p].pc = "intake" /\ call'[p].run = r
           /\ call'[p].answer = call[p].answer
    BY <1>0, <2>2, MovedTo DEF To
  <2> QED BY <2>1, <2>3 DEF Claimed
<1>4. CASE Insert(p)
  <2>1. call[p].pc = "insert" /\ Found(p) = {}
    BY <1>0, <1>4 DEF Insert, RunOf
  <2>2. Insertable(p)
    BY <2>1 DEF Insertable, Found, SameRun
  <2>3. Moved(p, "record", p, call[p].result, call[p].lost, call[p].answer)
    BY <1>0, <1>4, <2>2, MoveOf
  <2>4. call'[p].pc = "record" /\ call'[p].answer = call[p].answer
    BY <1>0, <2>3, MovedTo DEF To
  <2> QED BY <2>1, <2>4 DEF Claimed
<1>5. CASE RecordStart(p)
  <2>1. call[p].pc = "record" /\ call[p].run = p /\ row[p].status = "started" /\ UNCHANGED row
    BY <1>0, <1>5 DEF RecordStart, RunOf
  <2>2. Moved(p, "intake", call[p].run, call[p].result, call[p].lost, call[p].answer)
    BY <1>0, <1>5, MoveOf
  <2>3. call'[p].run = call[p].run /\ call'[p].answer = call[p].answer
    BY <1>0, <2>2, MovedTo DEF To
  <2> QED BY <2>1, <2>3
<1>6. CASE Intake(p) \/ RecordResult(p)
  BY <1>6 DEF Intake, RecordResult, Claimed
<1>7. CASE ReadOutcome(p) \/ ReadReasoning(p)
  <2>1. PICK pc, result : Moved(p, pc, call[p].run, result, call[p].lost, call[p].answer)
    BY <1>0, <1>7, MoveOfOutcome
  <2>2. call'[p].run = call[p].run /\ call'[p].answer = call[p].answer
    BY <1>0, <2>1, MovedTo DEF To
  <2>3. call[p].pc \in Claimed /\ UNCHANGED row
    BY <1>7 DEF ReadOutcome, ReadReasoning, Claimed
  <2> QED BY <2>2, <2>3 DEF Claimed
<1>8. CASE Complete(p)
  <2>1. CASE StillStarted(call[p].run)
    <3>1. Moved(p, "unlock", call[p].run, call[p].result, call[p].lost, "result")
      BY <1>0, <1>8, <2>1, MoveOf
    <3>2. call'[p].pc = "unlock" /\ call'[p].answer = "result"
      BY <1>0, <3>1, MovedTo DEF To
    <3> QED BY <3>2 DEF Claimed
  <2>2. CASE ~StillStarted(call[p].run)
    <3>1. Moved(p, "unlock", call[p].run, None, call[p].lost, "completion_conflict")
      BY <1>0, <1>8, <2>2, MoveOf
    <3>2. call'[p].pc = "unlock" /\ call'[p].run = call[p].run
          /\ call'[p].answer = "completion_conflict"
      BY <1>0, <3>1, MovedTo DEF To
    <3> QED BY <1>8, <2>2, <3>2 DEF Claimed
  <2> QED BY <2>1, <2>2
<1>9. CASE Unlock(p) \/ Stop(p)
  <2>1. PICK pc \in {"unlock", "done", "stopped"} :
          Moved(p, pc, call[p].run, call[p].result, call[p].lost, call[p].answer)
    BY <1>0, <1>9, MoveOf
  <2>2. call'[p].pc = pc /\ call'[p].answer = call[p].answer
    BY <1>0, <2>1, MovedTo DEF To
  <2> QED BY <2>2 DEF Claimed
<1>10. CASE FailToUnlock(p)
  <2>1. Moved(p, "done", call[p].run, None, call[p].lost, "connection_lost")
    BY <1>0, <1>10, MoveOfOutcome
  <2>2. call'[p].pc = "done" /\ call'[p].answer = "connection_lost"
    BY <1>0, <2>1, MovedTo DEF To
  <2> QED BY <2>2 DEF Claimed
<1>11. CASE LoseLock(p)
  <2>1. Moved(p, call[p].pc, call[p].run, call[p].result, TRUE, call[p].answer)
    BY <1>0, <1>11, MoveOfOutcome
  <2>2. To(p, call[p].pc, call[p].run, call[p].result, TRUE, call[p].answer)
    BY <1>0, <2>1, MovedTo
  <2>3. call[p].pc \in Claimed /\ UNCHANGED row
    BY <1>11 DEF LoseLock
  <2> QED BY <2>2, <2>3 DEF Claimed, To
<1> QED BY <1>1, <1>2, <1>3, <1>4, <1>5, <1>6, <1>7, <1>8, <1>9, <1>10, <1>11 DEF Step

LEMMA ClaimStepOf ==
  ASSUME ClaimInv, NEW p \in Caller, Begin(p) \/ Step(p) \/ LoseLock(p) \/ Stop(p)
  PROVE  ClaimsOK'
<1>0. TypeInv /\ TypeOK /\ ClaimsOK
  BY DEF ClaimInv, TypeInv
<1>1. ASSUME NEW q \in Caller, q # p PROVE ClaimOf(q)'
  <2>1. call'[q] = call[q] /\ ClaimOf(q)
    BY <1>0, <1>1, OthersStay DEF ClaimsOK
  <2>2. ASSUME call[q].pc \in Claimed, row'[call[q].run].status # "started"
        PROVE  BrokenNext(call[q].run)
    <3>1. CASE row[call[q].run].status # "started"
      BY <2>1, <2>2, <3>1, BrokenKept DEF ClaimOf
    <3>2. CASE row[call[q].run].status = "started"
      <4>1. call[q].run \in Caller
        BY <1>0, <2>2 DEF TypeInv, WorkOK
      <4>2. Complete(p) /\ call[q].run = call[p].run
        BY <1>0, <2>2, <3>2, <4>1, RowSteps
      <4>3. call[p].pc \in Claimed
        BY <4>2 DEF Complete, Claimed
      <4>4. call[p].lost \/ call[q].lost
        BY <1>1, <2>2, <4>2, <4>3, Exclusive
      <4>5. Broken(call[q].run)
        BY <4>2, <4>4 DEF Broken
      <4> QED BY <4>5, BrokenKept
    <3> QED BY <3>1, <3>2
  <2>3. call[q].answer = "completion_conflict" => BrokenNext(call[q].run)
    BY <2>1, BrokenKept DEF ClaimOf
  <2>4. call[q].answer # "unique_violation"
        /\ (call[q].answer # None => call[q].pc \in {"unlock", "done", "stopped"})
    BY <2>1 DEF ClaimOf
  <2> QED BY <2>1, <2>2, <2>3, <2>4 DEF ClaimOf, Broken, BrokenNext
<1>2. ClaimOf(p)'
  <2>1. ClaimOf(p)
    BY <1>0 DEF ClaimsOK
  <2>2. call'[p].pc \in Claimed /\ row'[call'[p].run].status # "started" => BrokenNext(call'[p].run)
    <3>1. ASSUME call'[p].pc \in Claimed, row'[call'[p].run].status # "started"
          PROVE  Broken(call[p].run) /\ call'[p].run = call[p].run
      <4>1. call[p].pc \in Claimed /\ call'[p].run = call[p].run /\ UNCHANGED row
        BY <3>1, ClaimMoves
      <4> QED BY <2>1, <3>1, <4>1 DEF ClaimOf
    <3> QED BY <3>1, BrokenKept
  <2>3. CASE /\ call'[p].answer = call[p].answer
             /\ call[p].pc \in {"unlock", "done", "stopped"} =>
                  call'[p].pc \in {"unlock", "done", "stopped"}
    <3>1. call[p].answer = "completion_conflict" => BrokenNext(call'[p].run)
      <4>1. ASSUME call[p].answer = "completion_conflict"
            PROVE  Broken(call[p].run) /\ call'[p].run = call[p].run
        <5>1. call[p].pc \in {"unlock", "done", "stopped"}
          BY <2>1, <4>1, NoneAssumption DEF ClaimOf
        <5>2. ~Observe(p) /\ ~Insert(p)
          BY <5>1 DEF Observe, Insert
        <5> QED BY <1>0, <2>1, <4>1, <5>2, KeepsRun DEF ClaimOf
      <4> QED BY <4>1, BrokenKept
    <3> QED BY <2>1, <2>2, <2>3, <3>1 DEF ClaimOf, Broken, BrokenNext
  <2>4. CASE /\ call'[p].answer \notin {"unique_violation", "completion_conflict"}
             /\ call'[p].pc \in {"unlock", "done", "stopped"}
    BY <2>2, <2>4 DEF ClaimOf, Broken, BrokenNext
  <2>5. CASE /\ call'[p].answer = "completion_conflict"
             /\ call'[p].pc = "unlock" /\ call'[p].run = call[p].run
             /\ Complete(p) /\ ~StillStarted(call[p].run)
    <3>1. Broken(call[p].run)
      BY <2>1, <2>5 DEF ClaimOf, Complete, Claimed, StillStarted
    <3>2. BrokenNext(call'[p].run)
      BY <2>5, <3>1, BrokenKept
    <3> QED BY <2>2, <2>5, <3>2 DEF ClaimOf, Broken, BrokenNext
  <2> QED BY <2>3, <2>4, <2>5, ClaimMoves
<1> QED BY <1>1, <1>2 DEF ClaimsOK

LEMMA ClaimStep == ClaimInv /\ [Next]_vars => ClaimInv'
<1> SUFFICES ASSUME ClaimInv, [Next]_vars PROVE ClaimInv'
  OBVIOUS
<1>1. CASE Next
  <2>1. PICK p \in Caller : Begin(p) \/ Step(p) \/ LoseLock(p) \/ Stop(p)
    BY <1>1 DEF Next
  <2>2. TypeInv' /\ LocksOK' /\ ClaimsOK'
    BY <2>1, TypeStepOf, LocksStepOf, ClaimStepOf DEF ClaimInv, TypeInv
  <2>3. RunsOK'
    BY <2>1, OthersRunOf, OwnRunOf DEF ClaimInv, RunsOK
  <2> QED BY <2>2, <2>3 DEF ClaimInv
<1>2. CASE UNCHANGED vars
  <2>1. TypeInv'
    BY <1>2, TypeStep DEF ClaimInv
  <2>2. LocksOK' /\ RunsOK' /\ ClaimsOK'
    BY <1>2 DEF vars, ClaimInv, LocksOK, LocksOf, RunsOK, RunOf, Exists, Found, ClaimsOK, ClaimOf,
                Broken
  <2> QED BY <2>1, <2>2 DEF ClaimInv
<1> QED BY <1>1, <1>2

LEMMA ClaimsAreExclusive == ClaimInv => ClaimIsExclusive
BY Exclusive DEF ClaimInv, ClaimsOK, ClaimOf, Broken, ClaimIsExclusive

\* The two ordered locks of begin_or_observe make the UNIQUE constraints of
\* shadow_run idle and a claim exclusive, as long as the lock connection lives.
THEOREM ExclusiveClaims == Spec => []ClaimIsExclusive
BY ClaimInit, ClaimStep, ClaimsAreExclusive, PTL DEF Spec

--------------------------------------------------------------------------------
(* The events of a run *)

EventsNext(r, type) == {i \in DOMAIN log'[r] : log'[r][i].type = type}

LEMMA EventsAppended ==
  ASSUME TypeOK, NEW r \in Caller, NEW type, NEW p, AppendEvent(r, type, p)
  PROVE  /\ EventsNext(r, type) = EventsOf(r, type) \cup {Len(log[r]) + 1}
         /\ \A t : t # type => EventsNext(r, t) = EventsOf(r, t)
         /\ \A s \in Caller : s # r => log'[s] = log[s]
<1> DEFINE e == [type |-> type, by |-> p]
<1>1. log[r] \in Seq(Event) /\ log' = [log EXCEPT ![r] = Append(log[r], e)]
  BY DEF TypeOK, AppendEvent
<1>2. e.type = type
  OBVIOUS
<1> HIDE DEF e
<1>3. log'[r] = Append(log[r], e) /\ \A s \in Caller : s # r => log'[s] = log[s]
  BY <1>1 DEF TypeOK
<1>4. /\ DOMAIN log'[r] = DOMAIN log[r] \cup {Len(log[r]) + 1}
      /\ DOMAIN log[r] = 1..Len(log[r]) /\ Len(log[r]) \in Nat
      /\ log'[r][Len(log[r]) + 1] = e
      /\ \A i \in DOMAIN log[r] : log'[r][i] = log[r][i]
  BY <1>1, <1>3
<1> QED BY <1>2, <1>3, <1>4 DEF EventsNext, EventsOf

LEMMA EventPositions ==
  ASSUME TypeOK, NEW r \in Caller, NEW type
  PROVE  Len(log[r]) \in Nat /\ \A i \in EventsOf(r, type) : i \in 1..Len(log[r])
BY DEF TypeOK, EventsOf

\* What each step appends.
LEMMA LogSteps ==
  ASSUME TypeInv, RunsOK, NEW p \in Caller, Begin(p) \/ Step(p) \/ LoseLock(p) \/ Stop(p)
  PROVE  \/ UNCHANGED log /\ ~RecordStart(p) /\ ~(Complete(p) /\ StillStarted(call[p].run))
         \/ /\ Reject(p) /\ UNCHANGED row /\ call[p].run \in Caller /\ Exists(call[p].run)
            /\ AppendEvent(call[p].run, "rejected", p)
         \/ /\ RecordStart(p) /\ UNCHANGED row /\ row[p].status = "started"
            /\ AppendEvent(p, "started", p)
         \/ /\ Complete(p) /\ StillStarted(call[p].run) /\ call[p].run \in Caller
            /\ AppendEvent(call[p].run, "completed", p)
<1>0. RunOf(p) /\ WorkOK
  BY DEF RunsOK, TypeInv
<1>1. CASE Reject(p)
  <2>1. call[p].run \in Caller /\ call[p].run # None
    BY <1>0, <1>1, NoneAssumption DEF Reject, WorkOK
  <2> QED BY <1>0, <1>1, <2>1 DEF Reject, RunOf
<1>2. CASE RecordStart(p)
  BY <1>0, <1>2 DEF RecordStart, RunOf
<1>3. CASE Complete(p)
  <2>1. call[p].run \in Caller /\ ~RecordStart(p)
    BY <1>0, <1>3 DEF Complete, RecordStart, WorkOK, Claimed
  <2> QED BY <1>3, <2>1 DEF Complete
<1>4. CASE ~Reject(p) /\ ~RecordStart(p) /\ ~Complete(p)
  BY <1>4 DEF Begin, Step, TakeLock, RefuseIdentity, Observe, FindNothing, Insert, Intake,
              RecordResult, ReadOutcome, ReadReasoning, Unlock, FailToUnlock, LoseLock, Stop
<1> QED BY <1>1, <1>2, <1>3, <1>4

Terminal(r) == row[r].status \in {"completed", "escalated"}

\* The start event is a statement of its own, after the INSERT and before the claim
\* is worked on; the completion event commits with the row.
LogOf(r) ==
  /\ ~Exists(r) => EventsOf(r, "started") = {}
  /\ ~Terminal(r) => EventsOf(r, "completed") = {}
  /\ Terminal(r) => \E i : EventsOf(r, "completed") = {i}
  /\ call[r].pc = "record" => EventsOf(r, "started") = {}
  /\ EventsOf(r, "started") = {} \/ \E i : EventsOf(r, "started") = {i}
  /\ \A i \in EventsOf(r, "started"), j \in EventsOf(r, "completed") : i < j
  /\ Exists(r) /\ EventsOf(r, "started") = {} => call[r].pc \in {"record", "stopped"}

LogInv == \A r \in Caller : LogOf(r)

LEMMA LogInit == Init => LogInv
<1> SUFFICES ASSUME Init, NEW r \in Caller PROVE LogOf(r)
  BY DEF LogInv
<1>1. row[r].status = "absent" /\ log[r] = <<>> /\ call[r].pc = "idle"
  BY DEF Init, NoRow, NewCall
<1>2. \A type : EventsOf(r, type) = {}
  BY <1>1 DEF EventsOf
<1> QED BY <1>1, <1>2 DEF LogOf, Exists, Terminal

\* Where a request stands that has inserted its row and not recorded it.
LEMMA RecordMoves ==
  ASSUME ClaimInv, NEW p \in Caller, Begin(p) \/ Step(p) \/ LoseLock(p) \/ Stop(p)
  PROVE  /\ call[p].pc \in {"record", "stopped"} => RecordStart(p) \/ call'[p].pc = "stopped"
         /\ Insert(p) /\ Insertable(p) => ~Exists(p) /\ call'[p].pc = "record"
         /\ call'[p].pc = "record" => Insert(p) /\ Insertable(p)
<1>0. TypeOK /\ RunOf(p)
  BY DEF ClaimInv, TypeInv, RunsOK
<1>1. ASSUME call[p].pc \in {"record", "stopped"} PROVE RecordStart(p) \/ Stop(p)
  BY <1>1 DEF Begin, Step, TakeLock, RefuseIdentity, Observe, FindNothing, Reject, Insert, Intake,
              RecordResult, ReadOutcome, ReadReasoning, Complete, Unlock, FailToUnlock, LoseLock,
              Claimed
<1>2. Stop(p) => call'[p].pc = "stopped"
  BY <1>0, MoveOf, MovedTo DEF To
<1>3. Insert(p) /\ Insertable(p) => ~Exists(p) /\ call'[p].pc = "record"
  BY <1>0, MoveOf, MovedTo DEF To, Insert, RunOf
<1>4. ASSUME call'[p].pc = "record" PROVE Insert(p) /\ Insertable(p)
  <2>1. CASE Observe(p)
    BY <1>0, <1>4, <2>1, MoveOfObserve, MovedTo DEF To
  <2>2. CASE ReadOutcome(p) \/ ReadReasoning(p)
    <3>1. PICK result :
            \/ Moved(p, "reasoning", call[p].run, result, call[p].lost, call[p].answer)
            \/ Moved(p, "complete", call[p].run, result, call[p].lost, call[p].answer)
      BY <1>0, <2>2, MoveOfRead
    <3> QED BY <1>0, <1>4, <3>1, MovedTo DEF To
  <2>3. CASE FailToUnlock(p)
    <3>1. Moved(p, "done", call[p].run, None, call[p].lost, "connection_lost")
      BY <1>0, <2>3, MoveOfOutcome
    <3> QED BY <1>0, <1>4, <3>1, MovedTo DEF To
  <2>4. CASE LoseLock(p)
    <3>1. Moved(p, call[p].pc, call[p].run, call[p].result, TRUE, call[p].answer)
      BY <1>0, <2>4, MoveOfOutcome
    <3>2. To(p, call[p].pc, call[p].run, call[p].result, TRUE, call[p].answer)
      BY <1>0, <3>1, MovedTo
    <3> QED BY <1>4, <2>4, <3>2 DEF To, LoseLock, Claimed
  <2>5. CASE Intake(p) \/ RecordResult(p)
    BY <1>4, <2>5 DEF Intake, RecordResult
  <2>6. CASE \/ Begin(p) \/ TakeLock(p) \/ RefuseIdentity(p) \/ FindNothing(p) \/ Reject(p)
             \/ RecordStart(p) \/ Complete(p) \/ Unlock(p) \/ Stop(p)
             \/ (Insert(p) /\ ~Insertable(p))
    <3>1. PICK pc, result, answer :
            /\ Moved(p, pc, call[p].run, result, call[p].lost, answer)
            /\ pc # "record"
      BY <1>0, <2>6, MoveOf
    <3> QED BY <1>0, <1>4, <3>1, MovedTo DEF To
  <2> QED BY <2>1, <2>2, <2>3, <2>4, <2>5, <2>6 DEF Step
<1> QED BY <1>1, <1>2, <1>3, <1>4

\* A request stays where its start is still to be recorded, or has moved on.
LEMMA StartPending ==
  ASSUME ClaimInv, LogInv, NEW p \in Caller, Begin(p) \/ Step(p) \/ LoseLock(p) \/ Stop(p),
         NEW r \in Caller, EventsNext(r, "started") = EventsOf(r, "started"),
         r = p => ~RecordStart(p)
  PROVE  /\ Exists(r)' /\ EventsNext(r, "started") = {} => call'[r].pc \in {"record", "stopped"}
         /\ call'[r].pc = "record" => EventsNext(r, "started") = {}
         /\ ~Exists(r)' => EventsNext(r, "started") = {}
<1>0. TypeInv /\ TypeOK /\ RunsOK /\ LogOf(r)
  BY DEF ClaimInv, TypeInv, LogInv
<1>1. CASE r = p
  <2>1. CASE Insert(p) /\ Insertable(p)
    <3>1. ~Exists(p) /\ call'[p].pc = "record"
      BY <2>1, RecordMoves
    <3> QED BY <1>0, <1>1, <3>1 DEF LogOf
  <2>2. CASE ~(Insert(p) /\ Insertable(p))
    <3>1. call'[p].pc # "record" /\ (Exists(p)' <=> Exists(p))
      BY <1>0, <2>2, RecordMoves, RunsGrow
    <3>2. call[p].pc \in {"record", "stopped"} => call'[p].pc = "stopped"
      BY <1>1, RecordMoves
    <3> QED BY <1>0, <1>1, <3>1, <3>2 DEF LogOf
  <2> QED BY <2>1, <2>2
<1>2. CASE r # p
  <2>1. call'[r] = call[r] /\ (Exists(r)' <=> Exists(r))
    BY <1>0, <1>2, OthersStay, RunsGrow
  <2> QED BY <1>0, <2>1 DEF LogOf
<1> QED BY <1>1, <1>2

LEMMA LogStepOf ==
  ASSUME ClaimInv, LogInv, NEW p \in Caller, Begin(p) \/ Step(p) \/ LoseLock(p) \/ Stop(p),
         NEW r \in Caller
  PROVE  LogOf(r)'
<1>0. TypeInv /\ TypeOK /\ RunsOK /\ LogOf(r)
  BY DEF ClaimInv, TypeInv, LogInv
<1> DEFINE Started == EventsOf(r, "started")
           Completed == EventsOf(r, "completed")
           StartedNext == EventsNext(r, "started")
           CompletedNext == EventsNext(r, "completed")
           TerminalNext == row'[r].status \in {"completed", "escalated"}
           Right ==
             /\ ~Exists(r)' => StartedNext = {}
             /\ ~TerminalNext => CompletedNext = {}
             /\ TerminalNext => \E i : CompletedNext = {i}
             /\ call'[r].pc = "record" => StartedNext = {}
             /\ StartedNext = {} \/ \E i : StartedNext = {i}
             /\ \A i \in StartedNext, j \in CompletedNext : i < j
             /\ Exists(r)' /\ StartedNext = {} => call'[r].pc \in {"record", "stopped"}
<1>1. SUFFICES Right
  BY DEF LogOf, EventsNext, EventsOf, Terminal
<1>2. ASSUME EventsNext(r, "started") = EventsOf(r, "started"),
             EventsNext(r, "completed") = EventsOf(r, "completed"),
             TerminalNext <=> Terminal(r), r = p => ~RecordStart(p)
      PROVE  Right
  <2>1. /\ ~TerminalNext => CompletedNext = {}
        /\ TerminalNext => \E i : CompletedNext = {i}
        /\ StartedNext = {} \/ \E i : StartedNext = {i}
        /\ \A i \in StartedNext, j \in CompletedNext : i < j
    BY <1>0, <1>2 DEF LogOf
  <2> HIDE DEF Started, Completed, StartedNext, CompletedNext, TerminalNext
  <2>2. /\ Exists(r)' /\ StartedNext = {} => call'[r].pc \in {"record", "stopped"}
        /\ call'[r].pc = "record" => StartedNext = {}
        /\ ~Exists(r)' => StartedNext = {}
    BY <1>2, StartPending DEF StartedNext
  <2> QED BY <2>1, <2>2
<1>3. ASSUME ~(Complete(p) /\ StillStarted(call[p].run) /\ call[p].run = r)
      PROVE  TerminalNext <=> Terminal(r)
  <2>1. CASE row'[r] = row[r]
    BY <2>1 DEF Terminal
  <2>2. CASE row'[r] # row[r]
    <3>1. r = p /\ Insert(p) /\ Insertable(p) /\ row'[p].status = "started"
      BY <1>0, <1>3, <2>2, RowSteps
    <3>2. ~Exists(r)
      BY <3>1, RecordMoves
    <3> QED BY <3>1, <3>2 DEF Terminal, Exists
  <2> QED BY <2>1, <2>2
<1>4. CASE UNCHANGED log /\ ~RecordStart(p) /\ ~(Complete(p) /\ StillStarted(call[p].run))
  <2>1. \A t : EventsNext(r, t) = EventsOf(r, t)
    BY <1>4 DEF EventsNext, EventsOf
  <2> QED BY <1>2, <1>3, <1>4, <2>1
<1>5. CASE /\ Reject(p) /\ UNCHANGED row /\ call[p].run \in Caller /\ Exists(call[p].run)
           /\ AppendEvent(call[p].run, "rejected", p)
  <2>1. EventsNext(r, "started") = EventsOf(r, "started")
        /\ EventsNext(r, "completed") = EventsOf(r, "completed")
    <3>1. CASE r = call[p].run
      <4>1. \A t : t # "rejected" => EventsNext(r, t) = EventsOf(r, t)
        BY <1>0, <1>5, <3>1, EventsAppended
      <4> QED BY <4>1
    <3>2. CASE r # call[p].run
      BY <1>0, <1>5, <3>2, EventsAppended DEF EventsNext, EventsOf
    <3> QED BY <3>1, <3>2
  <2>2. ~RecordStart(p) /\ ~Complete(p)
    BY <1>5 DEF Reject, RecordStart, Complete
  <2> QED BY <1>2, <1>3, <2>1, <2>2
<1>6. CASE /\ RecordStart(p) /\ UNCHANGED row /\ row[p].status = "started"
           /\ AppendEvent(p, "started", p)
  <2>1. CASE r # p
    <3>1. EventsNext(r, "started") = EventsOf(r, "started")
          /\ EventsNext(r, "completed") = EventsOf(r, "completed")
      BY <1>0, <1>6, <2>1, EventsAppended DEF EventsNext, EventsOf
    <3>2. ~Complete(p)
      BY <1>6 DEF RecordStart, Complete
    <3> QED BY <1>2, <1>3, <2>1, <3>1, <3>2
  <2>2. CASE r = p
    <3>1. call[p].pc = "record"
      BY <1>6 DEF RecordStart
    <3>2. Started = {} /\ Completed = {}
      BY <1>0, <1>6, <2>2, <3>1 DEF LogOf, Terminal
    <3>3. StartedNext = {Len(log[r]) + 1} /\ CompletedNext = {}
      BY <1>0, <1>6, <2>2, <3>2, EventsAppended
    <3>4. call'[p].pc = "intake"
      <4>1. Moved(p, "intake", call[p].run, call[p].result, call[p].lost, call[p].answer)
        BY <1>0, <1>6, MoveOf
      <4> QED BY <1>0, <4>1, MovedTo DEF To
    <3>5. row'[r].status = "started" /\ Exists(r)'
      BY <1>6, <2>2 DEF Exists
    <3> HIDE DEF StartedNext, CompletedNext
    <3> QED BY <2>2, <3>3, <3>4, <3>5
  <2> QED BY <2>1, <2>2
<1>7. CASE /\ Complete(p) /\ StillStarted(call[p].run) /\ call[p].run \in Caller
           /\ AppendEvent(call[p].run, "completed", p)
  <2>0. ~RecordStart(p)
    BY <1>7 DEF RecordStart, Complete
  <2>1. CASE r # call[p].run
    <3>1. EventsNext(r, "started") = EventsOf(r, "started")
          /\ EventsNext(r, "completed") = EventsOf(r, "completed")
      BY <1>0, <1>7, <2>1, EventsAppended DEF EventsNext, EventsOf
    <3> QED BY <1>2, <1>3, <2>0, <2>1, <3>1
  <2>2. CASE r = call[p].run
    <3>1. ~Terminal(r) /\ TerminalNext
      <4>1. row[r].status = "started"
        BY <1>7, <2>2 DEF StillStarted
      <4>2. ~(Insert(p) /\ Insertable(p))
        BY <1>7 DEF Complete, Insert
      <4> QED BY <1>0, <1>7, <2>2, <4>1, <4>2, RowSteps DEF Terminal
    <3>2. Completed = {}
      BY <1>0, <3>1 DEF LogOf
    <3>3. StartedNext = Started /\ CompletedNext = {Len(log[r]) + 1}
      BY <1>0, <1>7, <2>2, <3>2, EventsAppended
    <3>4. \A i \in Started : i < Len(log[r]) + 1
      BY <1>0, EventPositions
    <3>5. Started = {} \/ \E i : Started = {i}
      BY <1>0 DEF LogOf
    <3>6. /\ Exists(r)' /\ StartedNext = {} => call'[r].pc \in {"record", "stopped"}
          /\ call'[r].pc = "record" => StartedNext = {}
          /\ ~Exists(r)' => StartedNext = {}
      BY <2>0, <3>3, StartPending
    <3> HIDE DEF Started, StartedNext, CompletedNext, TerminalNext
    <3> QED BY <3>1, <3>3, <3>4, <3>5, <3>6
  <2> QED BY <2>1, <2>2
<1> QED BY <1>0, <1>4, <1>5, <1>6, <1>7, LogSteps

LEMMA LogStep == ClaimInv /\ LogInv /\ [Next]_vars => LogInv'
<1> SUFFICES ASSUME ClaimInv, LogInv, [Next]_vars PROVE LogInv'
  OBVIOUS
<1>1. CASE Next
  BY <1>1, LogStepOf DEF Next, LogInv
<1>2. CASE UNCHANGED vars
  <2>1. ASSUME NEW r \in Caller PROVE LogOf(r)'
    <3>1. row' = row /\ log' = log /\ call' = call
      BY <1>2 DEF vars
    <3>2. LogOf(r)
      BY DEF LogInv
    <3> QED BY <3>1, <3>2 DEF LogOf, EventsOf, Exists, Terminal
  <2> QED BY <2>1 DEF LogInv
<1> QED BY <1>1, <1>2

LEMMA LogsTell == LogInv => LogTellsTheRun
<1> SUFFICES ASSUME LogInv, NEW r \in Caller
             PROVE  /\ Cardinality(EventsOf(r, "completed")) = IF Terminal(r) THEN 1 ELSE 0
                    /\ Cardinality(EventsOf(r, "started")) <= 1
                    /\ \A i \in EventsOf(r, "started"), j \in EventsOf(r, "completed") : i < j
                    /\ Exists(r) /\ EventsOf(r, "started") = {} =>
                         call[r].pc \in {"record", "stopped"}
  BY DEF LogTellsTheRun, Terminal
<1>1. LogOf(r)
  BY DEF LogInv
<1>2. Cardinality({}) = 0 /\ \A i : Cardinality({i}) = 1
  BY FS_EmptySet, FS_Singleton
<1>3. Cardinality(EventsOf(r, "completed")) = IF Terminal(r) THEN 1 ELSE 0
  BY <1>1, <1>2 DEF LogOf
<1>4. Cardinality(EventsOf(r, "started")) <= 1
  <2>1. EventsOf(r, "started") = {} \/ \E i : EventsOf(r, "started") = {i}
    BY <1>1 DEF LogOf
  <2>2. Cardinality(EventsOf(r, "started")) \in {0, 1}
    BY <1>2, <2>1
  <2> QED BY <2>2
<1> QED BY <1>1, <1>3, <1>4 DEF LogOf

\* Every run has one completion event once it is terminal and none before, and at most
\* one start event, ahead of it, whoever reclaimed the run and wherever it stopped.
THEOREM ToldRuns == Spec => []LogTellsTheRun
BY ClaimInit, ClaimStep, LogInit, LogStep, LogsTell, PTL DEF Spec

--------------------------------------------------------------------------------
(* The stored result *)

\* A result that is recorded after an escalation comes from a request that has lost
\* its locks, or behind one that has.
Late(r) == investigation[r].phase = "escalated" /\ Broken(r)

\* What is true, from then on, of the phase, the draft and the evidence x that were
\* read of the analysis of r, and of what was read of its invocation.
ReadsOutcome(x, r) ==
  /\ AtRest(r)
  /\ x.phase = investigation[r].phase /\ x.draft = investigation[r].draft
  /\ x.evidence \subseteq results[r] \cap EvidenceTool
  /\ x.evidence = results[r] \cap EvidenceTool \/ Late(r)

ReadsModel(x, r) ==
  /\ x.invoked = (r \in consulted)
  /\ x.provider # "not-invoked" => x.provider = ProviderOf(r)
  /\ x.provider = ProviderOf(r) \/ Late(r)

\* What a request holds of the outcome of its run.
HoldsOutcome(p) ==
  /\ call[p].pc \in {"reasoning", "complete"} => ReadsOutcome(call[p].result, call[p].run)
  /\ call[p].pc = "complete" => ReadsModel(call[p].result, call[p].run)

\* What the row w of a terminal run r holds.
Stores(w, r) ==
  /\ w.result \in Result
  /\ w.status = TerminalStatus(w.result) /\ w.diff = Compare(ContentOf[r], w.result)
  /\ ReadsOutcome(w.result, r) /\ ReadsModel(w.result, r)

\* A recommendation rests on all results.
Rests(r) == investigation[r].phase = "recommended" => r \in consulted /\ results[r] = Spine!Tools

RunSettled(r) == (Terminal(r) => Stores(row[r], r)) /\ Rests(r)

SettledInv ==
  /\ \A p \in Caller : HoldsOutcome(p)
  /\ \A r \in Caller : RunSettled(r)

LEMMA SettledInit == Init => SettledInv
<1> SUFFICES ASSUME Init, NEW r \in Caller PROVE HoldsOutcome(r) /\ RunSettled(r)
  BY DEF SettledInv
<1>1. row[r].status = "absent" /\ call[r].pc = "idle" /\ investigation[r].phase = "none"
  BY DEF Init, NoRow, NewCall, Spine!Init, Spine!NoCase
<1> QED BY <1>1 DEF HoldsOutcome, RunSettled, Rests, Terminal

\* The control spine leaves a case at rest alone, but for results of an escalated one
\* that come in late; it does not take back what it put to the model or recorded.
LEMMA CasesRest ==
  ASSUME TypeInv, NEW p \in Caller, Begin(p) \/ Step(p) \/ LoseLock(p) \/ Stop(p),
         NEW r \in Caller
  PROVE  /\ AtRest(r) =>
              investigation'[r] = investigation[r] /\ (r \in consulted') = (r \in consulted)
         /\ results[r] \subseteq results'[r]
         /\ AtRest(r) /\ results'[r] # results[r] =>
              /\ investigation[r].phase = "escalated"
              /\ call[p].pc = "intake" /\ call[p].run = r /\ UNCHANGED call
         /\ Rests(r) => Rests(r)'
<1>1. CASE ~Intake(p) /\ ~RecordResult(p)
  <2>1. UNCHANGED <<investigation, consulted, results>>
    BY <1>1 DEF Begin, Step, TakeLock, RefuseIdentity, Observe, FindNothing, Reject, Insert,
                RecordStart, ReadOutcome, ReadReasoning, Complete, Unlock, FailToUnlock, LoseLock,
                Stop
  <2> QED BY <2>1 DEF Rests
<1>2. CASE Intake(p)
  <2> DEFINE s == call[p].run
  <2>1. s \in Caller /\ (Spine!Open(s) \/ Spine!Consult(s) \/ Spine!Recommend(s) \/ Spine!Escalate(s))
    BY <1>2 DEF Intake, TypeInv, WorkOK, Claimed
  <2>2. investigation \in [Caller ->
          [phase : {"none", "open", "recommended", "escalated"},
           mode : {"human_review", "shadow"}, draft : Draft \cup {None}]]
    BY DEF TypeInv, TypeOK
  <2> HIDE DEF s
  <2>3. ASSUME NEW mode, investigation[s] = Spine!NoCase, UNCHANGED consulted,
               investigation' = [investigation EXCEPT ![s].phase = "open", ![s].mode = mode]
        PROVE  /\ \A t \in Caller : t # s => investigation'[t] = investigation[t]
               /\ ~AtRest(s) /\ investigation'[s].phase = "open"
    BY <2>1, <2>2, <2>3 DEF AtRest, Spine!NoCase
  <2>4. ASSUME NEW draft, investigation[s].phase = "open", s \in consulted, UNCHANGED consulted,
               investigation' = [investigation EXCEPT ![s].phase = "recommended",
                                                      ![s].draft = draft]
        PROVE  (\A t \in Caller : t # s => investigation'[t] = investigation[t]) /\ ~AtRest(s)
    BY <2>1, <2>2, <2>4 DEF AtRest
  <2>5. ASSUME investigation[s].phase = "open", UNCHANGED consulted,
               investigation' = [investigation EXCEPT ![s].phase = "escalated"]
        PROVE  /\ \A t \in Caller : t # s => investigation'[t] = investigation[t]
               /\ ~AtRest(s) /\ investigation'[s].phase = "escalated"
    BY <2>1, <2>2, <2>5 DEF AtRest
  <2>6. UNCHANGED results
    BY <2>1 DEF Spine!Open, Spine!Consult, Spine!Recommend, Spine!Escalate
  <2>7. CASE Spine!Open(s)
    BY <2>3, <2>6, <2>7 DEF Spine!Open, Rests
  <2>8. CASE Spine!Consult(s)
    <3>1. UNCHANGED investigation /\ investigation[s].phase = "open"
          /\ consulted' = consulted \cup {s}
      BY <2>8 DEF Spine!Consult
    <3>2. AtRest(r) => r # s
      BY <3>1 DEF AtRest
    <3>3. r # s => (r \in consulted') = (r \in consulted)
      BY <3>1
    <3> QED BY <2>6, <3>1, <3>2, <3>3 DEF Rests
  <2>9. CASE Spine!Recommend(s)
    <3>1. s \in consulted /\ results[s] = Spine!Tools
      BY <2>9 DEF Spine!Recommend
    <3>2. UNCHANGED consulted /\ (\A t \in Caller : t # s => investigation'[t] = investigation[t])
          /\ ~AtRest(s)
      BY <2>4, <2>9 DEF Spine!Recommend
    <3> QED BY <2>6, <3>1, <3>2 DEF Rests
  <2>10. CASE Spine!Escalate(s)
    BY <2>5, <2>6, <2>10 DEF Spine!Escalate, Rests
  <2> QED BY <2>1, <2>7, <2>8, <2>9, <2>10
<1>3. CASE RecordResult(p)
  <2>1. PICK t \in Spine!Tools : Spine!Record(call[p].run, t)
    BY <1>3 DEF RecordResult
  <2>2. /\ call[p].pc = "intake" /\ UNCHANGED <<call, investigation, consulted>>
        /\ call[p].run \in Caller
        /\ investigation[call[p].run].phase \in {"open", "escalated"}
        /\ results' = [results EXCEPT ![call[p].run] = @ \cup {t}]
    BY <1>3, <2>1 DEF RecordResult, Spine!Record, TypeInv, WorkOK, Claimed
  <2>3. /\ results[r] \subseteq results'[r]
        /\ r # call[p].run => results'[r] = results[r]
    BY <2>2 DEF TypeInv, TypeOK
  <2> QED BY <2>2, <2>3 DEF Rests, AtRest
<1> QED BY <1>1, <1>2, <1>3

\* A reading of a run at rest stays true, if nothing is recorded for the run or a
\* request for it has lost its locks.
LEMMA ReadingKept ==
  ASSUME ClaimInv, NEW p \in Caller, Begin(p) \/ Step(p) \/ LoseLock(p) \/ Stop(p),
         NEW r \in Caller, NEW x, ReadsOutcome(x, r), results'[r] # results[r] => Broken(r)
  PROVE  ReadsOutcome(x, r)' /\ (ReadsModel(x, r) => ReadsModel(x, r)')
<1>1. /\ investigation'[r] = investigation[r] /\ (r \in consulted') = (r \in consulted)
      /\ results[r] \subseteq results'[r] /\ AtRest(r)
      /\ results'[r] # results[r] => investigation[r].phase = "escalated"
  BY CasesRest DEF ClaimInv, ReadsOutcome
<1>2. Broken(r) => BrokenNext(r)
  BY BrokenKept
<1>3. Late(r) => Late(r)'
  BY <1>1, <1>2 DEF Late, Broken, BrokenNext
<1>4. results'[r] # results[r] => Late(r)'
  BY <1>1, <1>2 DEF Late, Broken, BrokenNext
<1> HIDE DEF Late
<1>5. ReadsOutcome(x, r)'
  BY <1>1, <1>3, <1>4 DEF ReadsOutcome, AtRest
<1>6. ASSUME ReadsModel(x, r) PROVE ReadsModel(x, r)'
  BY <1>1, <1>3, <1>4, <1>6 DEF ReadsModel, ProviderOf
<1> QED BY <1>5, <1>6

\* A request that goes on with what it has read holds it: whoever else still records
\* results for the run shares it with that request.
LEMMA HoldsKept ==
  ASSUME ClaimInv, SettledInv, NEW p \in Caller, Begin(p) \/ Step(p) \/ LoseLock(p) \/ Stop(p),
         NEW q \in Caller, call'[q].pc = call[q].pc, call'[q].run = call[q].run,
         call'[q].result = call[q].result
  PROVE  HoldsOutcome(q)'
<1>1. CASE call[q].pc \notin {"reasoning", "complete"}
  BY <1>1 DEF HoldsOutcome
<1>2. ASSUME call[q].pc \in {"reasoning", "complete"},
             NEW r, NEW x, r = call[q].run, x = call[q].result
      PROVE  HoldsOutcome(q)'
  <2>1. /\ r \in Caller /\ ReadsOutcome(x, r)
        /\ call[q].pc = "complete" => ReadsModel(x, r)
    BY <1>2 DEF ClaimInv, TypeInv, WorkOK, Claimed, SettledInv, HoldsOutcome
  <2>2. ASSUME results'[r] # results[r] PROVE Broken(r)
    <3>1. call[p].pc = "intake" /\ call[p].run = r
      BY <2>1, <2>2, CasesRest DEF ClaimInv, ReadsOutcome
    <3>2. call[p].lost \/ call[q].lost
      <4>1. call[p].pc \in Claimed /\ call[q].pc \in Claimed /\ q # p
        BY <1>2, <3>1 DEF Claimed
      <4> QED BY <1>2, <3>1, <4>1, Exclusive
    <3> QED BY <1>2, <3>1, <3>2 DEF Broken
  <2>3. ReadsOutcome(x, r)' /\ (ReadsModel(x, r) => ReadsModel(x, r)')
    BY <2>1, <2>2, ReadingKept
  <2>4. call'[q].run = r /\ call'[q].result = x /\ call'[q].pc = call[q].pc
    BY <1>2
  <2>5. ReadsOutcome(call[q].result, call[q].run)'
    BY <2>3, <2>4 DEF ReadsOutcome, AtRest, Late, Broken
  <2>6. call[q].pc = "complete" => ReadsModel(call[q].result, call[q].run)'
    BY <2>1, <2>3, <2>4 DEF ReadsModel, ProviderOf, Late, Broken
  <2> QED BY <2>4, <2>5, <2>6 DEF HoldsOutcome
<1> QED BY <1>1, <1>2

LEMMA OwnHolds ==
  ASSUME ClaimInv, SettledInv, NEW p \in Caller, Begin(p) \/ Step(p) \/ LoseLock(p) \/ Stop(p)
  PROVE  HoldsOutcome(p)'
<1>0. TypeInv /\ TypeOK /\ HoldsOutcome(p)
  BY DEF ClaimInv, TypeInv, SettledInv
<1>1. CASE call'[p].pc \notin {"reasoning", "complete"}
  BY <1>1 DEF HoldsOutcome
<1>2. CASE Intake(p) \/ RecordResult(p)
  <2>1. call'[p] = call[p]
    BY <1>2 DEF Intake, RecordResult
  <2> QED BY <2>1, HoldsKept
<1>3. CASE LoseLock(p)
  <2>1. Moved(p, call[p].pc, call[p].run, call[p].result, TRUE, call[p].answer)
    BY <1>0, <1>3, MoveOfOutcome
  <2>2. To(p, call[p].pc, call[p].run, call[p].result, TRUE, call[p].answer)
    BY <1>0, <2>1, MovedTo
  <2> QED BY <2>2, HoldsKept DEF To
<1>4. CASE ReadOutcome(p)
  <2> DEFINE r == call[p].run
             x == FirstRead(r)
  <2>1. Moved(p, "reasoning", r, x, call[p].lost, call[p].answer)
    BY <1>0, <1>4, MoveOfOutcome
  <2>2. AtRest(r) /\ UNCHANGED <<investigation, consulted, results>>
    BY <1>4 DEF ReadOutcome
  <2>3. /\ x.phase = investigation[r].phase /\ x.draft = investigation[r].draft
        /\ x.evidence = results[r] \cap EvidenceTool
    BY DEF FirstRead
  <2> HIDE DEF r, x
  <2>4. call'[p].pc = "reasoning" /\ call'[p].run = r /\ call'[p].result = x
    BY <1>0, <2>1, MovedTo DEF To
  <2>5. ReadsOutcome(call[p].result, call[p].run)'
    BY <2>2, <2>3, <2>4 DEF ReadsOutcome, AtRest
  <2> QED BY <2>4, <2>5 DEF HoldsOutcome
<1>5. ASSUME ReadReasoning(p), NEW r, NEW x, r = call[p].run, x = call[p].result
      PROVE  HoldsOutcome(p)'
  <2>1. Moved(p, "complete", r, SecondRead(x, r), call[p].lost, call[p].answer)
    BY <1>0, <1>5, MoveOfOutcome
  <2>2. call[p].pc = "reasoning" /\ UNCHANGED <<investigation, consulted, results>>
    BY <1>5 DEF ReadReasoning
  <2>3. x \in Result /\ r \in Caller /\ ReadsOutcome(x, r)
    BY <1>0, <1>5, <2>2 DEF TypeInv, WorkOK, Claimed, HoldsOutcome
  <2>4. ReadsOutcome(x, r)'
    BY <2>2, <2>3, ReadingKept
  <2>5. PICK y : y = SecondRead(x, r)
    OBVIOUS
  <2>6. y = [ phase |-> x.phase, draft |-> x.draft, evidence |-> x.evidence,
              invoked |-> r \in consulted, provider |-> ProviderOf(r) ]
    BY <2>3, <2>5, SecondReadIs
  <2>7. /\ y.phase = x.phase /\ y.draft = x.draft /\ y.evidence = x.evidence
        /\ y.invoked = (r \in consulted) /\ y.provider = ProviderOf(r)
    BY <2>6
  <2>8. ReadsOutcome(y, r)'
    BY <2>4, <2>7 DEF ReadsOutcome
  <2>9. ReadsModel(y, r)'
    BY <2>2, <2>7 DEF ReadsModel, ProviderOf
  <2>10. call'[p].pc = "complete" /\ call'[p].run = r /\ call'[p].result = y
    <3>1. Moved(p, "complete", r, y, call[p].lost, call[p].answer)
      BY <2>1, <2>5
    <3> QED BY <1>0, <3>1, MovedTo DEF To
  <2>11. ReadsOutcome(call[p].result, call[p].run)'
    BY <2>8, <2>10 DEF ReadsOutcome, AtRest, Late, Broken
  <2>12. ReadsModel(call[p].result, call[p].run)'
    BY <2>9, <2>10 DEF ReadsModel, ProviderOf, Late, Broken
  <2> QED BY <2>11, <2>12 DEF HoldsOutcome
<1>6. CASE Observe(p) \/ FailToUnlock(p)
  <2>1. call'[p].pc \notin {"reasoning", "complete"}
    <3>1. CASE Observe(p)
      BY <1>0, <3>1, MoveOfObserve, MovedTo DEF To
    <3>2. CASE FailToUnlock(p)
      <4>1. Moved(p, "done", call[p].run, None, call[p].lost, "connection_lost")
        BY <1>0, <3>2, MoveOfOutcome
      <4> QED BY <1>0, <4>1, MovedTo DEF To
    <3> QED BY <1>6, <3>1, <3>2
  <2> QED BY <1>1, <2>1
<1>7. CASE \/ Begin(p) \/ TakeLock(p) \/ RefuseIdentity(p) \/ FindNothing(p) \/ Reject(p)
           \/ Insert(p) \/ RecordStart(p) \/ Complete(p) \/ Unlock(p) \/ Stop(p)
  <2>1. PICK pc, run, result, answer :
          /\ Moved(p, pc, run, result, call[p].lost, answer)
          /\ pc \notin {"reasoning", "complete"}
    BY <1>0, <1>7, MoveOf
  <2>2. call'[p].pc \notin {"reasoning", "complete"}
    BY <1>0, <2>1, MovedTo DEF To
  <2> QED BY <1>1, <2>2
<1> QED BY <1>2, <1>3, <1>4, <1>5, <1>6, <1>7 DEF Step

\* A completion stores what its request holds, whoever it is by.
LEMMA CompletionStores ==
  ASSUME TypeInv, SettledInv, NEW p \in Caller, Complete(p), StillStarted(call[p].run)
  PROVE  call[p].run \in Caller /\ Stores(row'[call[p].run], call[p].run)
<1> DEFINE r == call[p].run
           x == call[p].result
           w == [status |-> TerminalStatus(x), result |-> x, diff |-> Compare(ContentOf[r], x)]
<1>1. r \in Caller /\ x \in Result /\ HoldsOutcome(p) /\ call[p].pc = "complete"
  BY DEF Complete, TypeInv, WorkOK, Claimed, SettledInv
<1>2. ReadsOutcome(x, r) /\ ReadsModel(x, r)
  BY <1>1 DEF HoldsOutcome
<1>3. row' = [row EXCEPT ![r] = w]
  BY DEF Complete
<1>4. w.status = TerminalStatus(x) /\ w.result = x /\ w.diff = Compare(ContentOf[r], x)
  OBVIOUS
<1> HIDE DEF r, x, w
<1>5. row'[r] = w
  BY <1>1, <1>3 DEF TypeInv, TypeOK
<1>6. Stores(w, r)
  BY <1>1, <1>2, <1>4 DEF Stores
<1>7. Stores(row'[r], r)
  BY <1>5, <1>6
<1> QED BY <1>1, <1>7 DEF r

\* A row that holds of the run what it should goes on to hold it: whoever still
\* records results for a terminal run has lost its locks, or shares it with one that
\* has.
LEMMA StoresKept ==
  ASSUME ClaimInv, NEW p \in Caller, Begin(p) \/ Step(p) \/ LoseLock(p) \/ Stop(p),
         NEW r \in Caller, NEW w, Stores(w, r), Terminal(r) \/ Complete(p)
  PROVE  Stores(w, r)'
<1>1. /\ w.result \in Result /\ w.status = TerminalStatus(w.result)
      /\ w.diff = Compare(ContentOf[r], w.result)
      /\ ReadsOutcome(w.result, r) /\ ReadsModel(w.result, r)
  BY DEF Stores
<1>2. ASSUME results'[r] # results[r] PROVE Broken(r)
  <2>1. call[p].pc = "intake" /\ call[p].run = r
    BY <1>1, <1>2, CasesRest DEF ClaimInv, ReadsOutcome
  <2>2. row[call[p].run].status # "started"
    BY <2>1 DEF Terminal, Complete
  <2> QED BY <2>1, <2>2 DEF ClaimInv, ClaimsOK, ClaimOf, Claimed
<1>3. ReadsOutcome(w.result, r)' /\ ReadsModel(w.result, r)'
  BY <1>1, <1>2, ReadingKept
<1> QED BY <1>1, <1>3 DEF Stores

LEMMA RunSettles ==
  ASSUME ClaimInv, SettledInv, NEW p \in Caller, Begin(p) \/ Step(p) \/ LoseLock(p) \/ Stop(p),
         NEW r \in Caller
  PROVE  RunSettled(r)'
<1>0. RunSettled(r) /\ TypeInv
  BY DEF SettledInv, ClaimInv
<1>1. Rests(r)'
  BY <1>0, CasesRest DEF RunSettled
<1>2. ASSUME Terminal(r) \/ Complete(p), NEW w, Stores(w, r), row'[r] = w
      PROVE  RunSettled(r)'
  <2>1. Stores(w, r)'
    BY <1>2, StoresKept
  <2>2. Stores(row[r], r)'
    BY <1>2, <2>1 DEF Stores, ReadsOutcome, ReadsModel, AtRest, Late, Broken, ProviderOf
  <2> QED BY <1>1, <2>2 DEF RunSettled
<1>3. CASE Complete(p) /\ StillStarted(call[p].run) /\ r = call[p].run
  <2>1. Stores(row'[r], r)
    BY <1>0, <1>3, CompletionStores
  <2> QED BY <1>2, <1>3, <2>1
<1>4. CASE row'[r] = row[r]
  <2>1. CASE Terminal(r)
    <3>1. Stores(row[r], r)
      BY <1>0, <2>1 DEF RunSettled
    <3> QED BY <1>2, <1>4, <2>1, <3>1
  <2>2. CASE ~Terminal(r)
    BY <1>1, <1>4, <2>2 DEF RunSettled, Terminal
  <2> QED BY <2>1, <2>2
<1>5. CASE row'[r].status = "started"
  BY <1>1, <1>5 DEF RunSettled, Terminal
<1> QED BY <1>0, <1>3, <1>4, <1>5, RowSteps

LEMMA SettledStep == ClaimInv /\ SettledInv /\ [Next]_vars => SettledInv'
<1> SUFFICES ASSUME ClaimInv, SettledInv, [Next]_vars PROVE SettledInv'
  OBVIOUS
<1>1. CASE Next
  <2>1. PICK p \in Caller : Begin(p) \/ Step(p) \/ LoseLock(p) \/ Stop(p)
    BY <1>1 DEF Next
  <2>2. ASSUME NEW q \in Caller PROVE HoldsOutcome(q)'
    <3>1. CASE q = p
      BY <2>1, <3>1, OwnHolds
    <3>2. CASE q # p
      <4>1. call'[q] = call[q]
        BY <2>1, <3>2, OthersStay DEF ClaimInv, TypeInv
      <4> QED BY <2>1, <4>1, HoldsKept
    <3> QED BY <3>1, <3>2
  <2>3. \A r \in Caller : RunSettled(r)'
    BY <2>1, RunSettles
  <2> QED BY <2>2, <2>3 DEF SettledInv
<1>2. CASE UNCHANGED vars
  <2>1. ASSUME NEW q \in Caller PROVE HoldsOutcome(q)' /\ RunSettled(q)'
    <3>1. HoldsOutcome(q) /\ RunSettled(q)
      BY DEF SettledInv
    <3> QED BY <1>2, <3>1 DEF vars, HoldsOutcome, RunSettled, Terminal, Stores, Rests,
                              ReadsOutcome, ReadsModel, AtRest, Late, Broken, ProviderOf
  <2> QED BY <2>1 DEF SettledInv
<1> QED BY <1>1, <1>2

LEMMA ResultsSettle == SettledInv => ResultIsSettled
<1> SUFFICES ASSUME SettledInv, NEW r \in Caller, Terminal(r)
             PROVE  LET stored == row[r].result
                        now == Analysis(r)
                    IN /\ row[r].status = TerminalStatus(stored)
                       /\ row[r].diff = Compare(ContentOf[r], stored)
                       /\ stored.phase = now.phase /\ stored.draft = now.draft
                       /\ stored.invoked = now.invoked
                       /\ stored.evidence \subseteq now.evidence
                       /\ stored.provider # "not-invoked" => stored.provider = now.provider
                       /\ stored.phase = "recommended" =>
                            /\ stored.evidence = EvidenceTool /\ stored.invoked
                            /\ stored.provider = "model"
                       /\ stored # now => stored.phase = "escalated" /\ Broken(r)
  BY DEF ResultIsSettled, Terminal, Broken
<1> DEFINE x == row[r].result
           now == Analysis(r)
<1>1. /\ x \in Result /\ row[r].status = TerminalStatus(x)
      /\ row[r].diff = Compare(ContentOf[r], x)
      /\ ReadsOutcome(x, r) /\ ReadsModel(x, r) /\ Rests(r)
  BY DEF SettledInv, RunSettled, Stores
<1>2. /\ now.phase = investigation[r].phase /\ now.draft = investigation[r].draft
      /\ now.evidence = results[r] \cap EvidenceTool
      /\ now.invoked = (r \in consulted) /\ now.provider = ProviderOf(r)
  BY DEF Analysis
<1> HIDE DEF x
<1>3. x = [phase |-> x.phase, draft |-> x.draft, evidence |-> x.evidence,
           invoked |-> x.invoked, provider |-> x.provider]
  BY <1>1 DEF Result
<1>4. ~Late(r) => x = now
  BY <1>1, <1>3 DEF ReadsOutcome, ReadsModel, Analysis
<1> HIDE DEF now
<1>5. x # now => x.phase = "escalated" /\ Broken(r)
  BY <1>1, <1>4 DEF Late, ReadsOutcome
<1>6. ASSUME x.phase = "recommended"
      PROVE  x.evidence = EvidenceTool /\ x.invoked /\ x.provider = "model"
  <2>1. ~Late(r) /\ r \in consulted /\ results[r] = Spine!Tools
    BY <1>1, <1>6 DEF Late, ReadsOutcome, Rests
  <2>2. results[r] \cap EvidenceTool = EvidenceTool /\ ProviderOf(r) = "model"
    BY <2>1 DEF Spine!Tools, ProviderOf
  <2> QED BY <1>1, <2>1, <2>2 DEF ReadsOutcome, ReadsModel
<1>7. /\ x.phase = now.phase /\ x.draft = now.draft /\ x.invoked = now.invoked
      /\ x.evidence \subseteq now.evidence
      /\ x.provider # "not-invoked" => x.provider = now.provider
  BY <1>1, <1>2 DEF ReadsOutcome, ReadsModel
<1> QED BY <1>1, <1>5, <1>6, <1>7 DEF x, now

\* Output and comparison of a terminal run are those of its analysis as it stays, but
\* for evidence and metadata that come in behind an escalation after a request for the
\* run has lost its locks; what is stored is never taken back, and a recommendation is
\* stored with all that it rests on.
THEOREM SettledResults == Spec => []ResultIsSettled
BY ClaimInit, ClaimStep, SettledInit, SettledStep, ResultsSettle, PTL DEF Spec

================================================================================
