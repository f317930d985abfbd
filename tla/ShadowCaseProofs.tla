----------------------------- MODULE ShadowCaseProofs -----------------------------
(***************************************************************************)
(* ShadowRun implements ShadowCase, for any number of requests, keys and   *)
(* cases and whoever stops or loses its locks: at most one run is bound to *)
(* a case or to a key, and an answer or a refusal that a request carries   *)
(* to its end rests on a row that stays.  What requests owe one another on *)
(* the way is proved with it: they never all wait, and a refusal because   *)
(* of a payload and its event come together.                               *)
(***************************************************************************)
EXTENDS ShadowRunProofs

--------------------------------------------------------------------------------
(* What rows and answers rest on *)

\* The UNIQUE constraints of shadow_run, over a table t.
OneRun(t) ==
  \A r, s \in Caller :
    t[r].status # "absent" /\ t[s].status # "absent" /\ r # s =>
      KeyOf[r] # KeyOf[s] /\ CaseOf[r] # CaseOf[s]

\* A run has a result once it is terminal.
ResultsOK ==
  \A r \in Caller : row[r].result \in IF Terminal(r) THEN Result ELSE {None}

\* Run r has taken the key or the case of request p for something else.
Contradicts(r, p) ==
  \/ CaseOf[r] # CaseOf[p] /\ KeyOf[r] = KeyOf[p]
  \/ CaseOf[r] = CaseOf[p] /\ ContentOf[r] # ContentOf[p]

Refusable(p) == \E r \in Caller : Exists(r) /\ Contradicts(r, p)

Answerable(p, result) ==
  \E r \in Caller : Terminal(r) /\ SamePayload(r, p) /\ row[r].result = result

\* The same after the step.
AnswerableNext(p, result) ==
  \E r \in Caller :
    row'[r].status \in {"completed", "escalated"} /\ SamePayload(r, p) /\ row'[r].result = result

Refusals == {"identity_conflict", "idempotency_conflict"}

Backed(p) ==
  /\ call[p].pc = "reject" => ~SamePayload(call[p].run, p)
  /\ call[p].pc \in {"unlock", "done"} =>
       /\ call[p].answer = "result" => Answerable(p, call[p].result)
       /\ call[p].answer # "result" => call[p].result = None
       /\ call[p].answer \in Refusals => Refusable(p)

CaseInv == OneRun(row) /\ ResultsOK /\ \A p \in Caller : Backed(p)

LEMMA CaseInit == Init => CaseInv
BY DEF Init, NoRow, NewCall, CaseInv, OneRun, ResultsOK, Backed, Terminal

\* A row that is there stays, and a terminal one as it is.
LEMMA RowsStay ==
  ASSUME ClaimInv, NEW p \in Caller, Begin(p) \/ Step(p) \/ LoseLock(p) \/ Stop(p),
         NEW r \in Caller
  PROVE  /\ Exists(r) => Exists(r)'
         /\ Terminal(r) => row'[r] = row[r]
<1>1. TypeInv /\ RunsOK /\ RunOf(p)
  BY DEF ClaimInv, RunsOK
<1>2. Exists(r) => Exists(r)'
  BY <1>1, RunsGrow
<1>3. Terminal(r) => row'[r] = row[r]
  <2>1. Insert(p) => row[p].status = "absent"
    BY <1>1 DEF Insert, RunOf, Exists
  <2> QED BY <1>1, <2>1, RowSteps DEF Terminal, StillStarted
<1> QED BY <1>2, <1>3

LEMMA BasisStays ==
  ASSUME ClaimInv, NEW p \in Caller, Begin(p) \/ Step(p) \/ LoseLock(p) \/ Stop(p),
         NEW q \in Caller
  PROVE  /\ Refusable(q) => Refusable(q)'
         /\ \A result : Answerable(q, result) => AnswerableNext(q, result)
<1>1. Refusable(q) => Refusable(q)'
  BY RowsStay DEF Refusable
<1>2. ASSUME NEW result, Answerable(q, result) PROVE AnswerableNext(q, result)
  <2>1. PICK r \in Caller : Terminal(r) /\ SamePayload(r, q) /\ row[r].result = result
    BY <1>2 DEF Answerable
  <2>2. row'[r] = row[r]
    BY <2>1, RowsStay
  <2> QED BY <2>1, <2>2 DEF AnswerableNext, Terminal
<1> QED BY <1>1, <1>2

\* Two rows under the key and the case of a request: one is of another case.
LEMMA TwoFound ==
  ASSUME OneRun(row), NEW p \in Caller, Cardinality(Found(p)) > 1
  PROVE  Refusable(p)
<1>1. Cardinality({}) = 0 /\ \A r : Cardinality({r}) = 1
  BY FS_EmptySet, FS_Singleton
<1>2. PICK r \in Found(p), s \in Found(p) : r # s
  <2>1. Found(p) # {}
    BY <1>1
  <2>2. PICK r \in Found(p) : TRUE
    BY <2>1
  <2>3. Found(p) # {r}
    BY <1>1
  <2> QED BY <2>2, <2>3
<1>3. /\ r \in Caller /\ Exists(r) /\ SameRun(r, p)
      /\ s \in Caller /\ Exists(s) /\ SameRun(s, p)
  BY DEF Found
<1> QED BY <1>2, <1>3 DEF OneRun, Exists, SameRun, Refusable, Contradicts

LEMMA OtherPayload ==
  ASSUME NEW p \in Caller, NEW r \in Caller, Exists(r), SameRun(r, p), ~SamePayload(r, p)
  PROVE  Refusable(p)
BY DEF SameRun, SamePayload, Refusable, Contradicts

\* The place, result and answer a step leaves its request with, and what backs them.
LEMMA ToBacked ==
  ASSUME NEW p \in Caller, NEW pc, NEW run, NEW result, NEW lost, NEW answer,
         To(p, pc, run, result, lost, answer),
         pc = "reject" => ~SamePayload(run, p),
         pc \in {"unlock", "done"} =>
           /\ answer = "result" => AnswerableNext(p, result)
           /\ answer # "result" => result = None
           /\ answer \in Refusals => Refusable(p)'
  PROVE  Backed(p)'
<1>1. /\ call'[p].pc = pc /\ call'[p].run = run /\ call'[p].result = result
      /\ call'[p].answer = answer
  BY DEF To
<1>2. Answerable(p, call[p].result)' <=> AnswerableNext(p, result)
  BY <1>1 DEF Answerable, AnswerableNext, Terminal
<1> QED BY <1>1, <1>2 DEF Backed

LEMMA MovedBacked ==
  ASSUME TypeOK, NEW p \in Caller, NEW pc, NEW run, NEW result, NEW lost, NEW answer,
         Moved(p, pc, run, result, lost, answer),
         pc = "reject" => ~SamePayload(run, p),
         pc \in {"unlock", "done"} =>
           /\ answer = "result" => AnswerableNext(p, result)
           /\ answer # "result" => result = None
           /\ answer \in Refusals => Refusable(p)'
  PROVE  Backed(p)'
BY MovedTo, ToBacked

\* A request that does not move keeps what backs it.
LEMMA StillBacked ==
  ASSUME ClaimInv, CaseInv, NEW p \in Caller, Begin(p) \/ Step(p) \/ LoseLock(p) \/ Stop(p),
         NEW q \in Caller, call'[q] = call[q]
  PROVE  Backed(q)'
<1> DEFINE c == call[q]
<1>1. To(q, c.pc, c.run, c.result, c.lost, c.answer)
  BY DEF To
<1>2. Backed(q)
  BY DEF CaseInv
<1>3. c.pc \in {"unlock", "done"} =>
        /\ c.answer = "result" => AnswerableNext(q, c.result)
        /\ c.answer # "result" => c.result = None
        /\ c.answer \in Refusals => Refusable(q)'
  BY <1>2, BasisStays DEF Backed
<1>4. c.pc = "reject" => ~SamePayload(c.run, q)
  BY <1>2 DEF Backed
<1> HIDE DEF c
<1> QED BY <1>1, <1>3, <1>4, ToBacked

LEMMA OwnBacked ==
  ASSUME ClaimInv, SettledInv, CaseInv, NEW p \in Caller,
         Begin(p) \/ Step(p) \/ LoseLock(p) \/ Stop(p)
  PROVE  Backed(p)'
<1> DEFINE c == call[p]
<1>0. TypeOK /\ Backed(p) /\ RunOf(p) /\ TypeInv
  BY DEF ClaimInv, TypeInv, CaseInv, RunsOK
<1>1. CASE \/ Begin(p) \/ TakeLock(p) \/ FindNothing(p) \/ RecordStart(p) \/ Stop(p)
           \/ Insert(p) /\ Insertable(p)
  <2>1. PICK pc, run, result, answer :
          /\ Moved(p, pc, run, result, c.lost, answer)
          /\ pc \notin {"reject", "unlock", "done"}
    BY <1>0, <1>1, MoveOf
  <2> QED BY <1>0, <2>1, MovedBacked
<1>2. CASE ReadOutcome(p) \/ ReadReasoning(p)
  <2>1. PICK pc, result : /\ Moved(p, pc, c.run, result, c.lost, c.answer)
                          /\ pc \in {"reasoning", "complete"}
    BY <1>0, <1>2, MoveOfRead
  <2> QED BY <1>0, <2>1, MovedBacked
<1>3. CASE LoseLock(p)
  <2>1. Moved(p, c.pc, c.run, c.result, TRUE, c.answer)
    BY <1>0, <1>3, MoveOfOutcome
  <2>2. c.pc \notin {"reject", "unlock", "done"}
    BY <1>3 DEF LoseLock, Claimed
  <2> HIDE DEF c
  <2> QED BY <1>0, <2>1, <2>2, MovedBacked
<1>4. CASE RefuseIdentity(p)
  <2>1. Moved(p, "unlock", c.run, None, c.lost, "identity_conflict")
    BY <1>0, <1>4, MoveOf
  <2>2. Refusable(p)
    BY <1>4, TwoFound DEF RefuseIdentity, CaseInv
  <2>3. Refusable(p)'
    BY <2>2, BasisStays
  <2> QED BY <1>0, <2>1, <2>3, MovedBacked
<1>5. CASE Observe(p)
  <2>1. PICK r \in Caller :
          /\ Exists(r)
          /\ \/ ~SamePayload(r, p) /\ Moved(p, "reject", r, c.result, c.lost, c.answer)
             \/ SamePayload(r, p) /\ row[r].status \notin {"absent", "started"}
                /\ Moved(p, "unlock", c.run, row[r].result, c.lost, "result")
             \/ Moved(p, "intake", r, c.result, c.lost, c.answer)
    BY <1>0, <1>5, MoveOfObserve
  <2>2. CASE ~SamePayload(r, p) /\ Moved(p, "reject", r, c.result, c.lost, c.answer)
    BY <1>0, <2>2, MovedBacked
  <2>3. CASE SamePayload(r, p) /\ row[r].status \notin {"absent", "started"}
             /\ Moved(p, "unlock", c.run, row[r].result, c.lost, "result")
    <3>1. Terminal(r)
      BY <1>0, <2>3 DEF TypeOK, Row, Terminal
    <3>2. row'[r] = row[r]
      BY <3>1, RowsStay
    <3> DEFINE result == row[r].result
    <3>3. AnswerableNext(p, result)
      BY <2>3, <3>1, <3>2 DEF AnswerableNext, Terminal
    <3>4. Moved(p, "unlock", c.run, result, c.lost, "result")
      BY <2>3
    <3> HIDE DEF result
    <3> QED BY <1>0, <3>3, <3>4, MovedBacked DEF Refusals
  <2>4. CASE Moved(p, "intake", r, c.result, c.lost, c.answer)
    BY <1>0, <2>4, MovedBacked
  <2> QED BY <2>1, <2>2, <2>3, <2>4
<1>6. CASE Reject(p)
  <2>1. Moved(p, "unlock", c.run, None, c.lost, "idempotency_conflict")
    BY <1>0, <1>6, MoveOf
  <2>2. c.run \in Caller /\ c.run # None /\ c.pc = "reject"
    BY <1>0, <1>6, NoneAssumption DEF Reject, TypeInv, WorkOK
  <2>3. Refusable(p)
    BY <1>0, <2>2, OtherPayload DEF RunOf, Backed
  <2>4. Refusable(p)'
    BY <2>3, BasisStays
  <2> QED BY <1>0, <2>1, <2>4, MovedBacked
<1>7. CASE (Insert(p) /\ ~Insertable(p)) \/ (Complete(p) /\ ~StillStarted(c.run))
  <2>1. PICK answer \in {"unique_violation", "completion_conflict"} :
          Moved(p, "unlock", c.run, None, c.lost, answer)
    BY <1>0, <1>7, MoveOf
  <2>2. answer # "result" /\ answer \notin Refusals
    BY DEF Refusals
  <2> QED BY <1>0, <2>1, <2>2, MovedBacked
<1>8. CASE Complete(p) /\ StillStarted(c.run)
  <2> DEFINE r == c.run
             result == c.result
  <2>1. Moved(p, "unlock", r, result, c.lost, "result")
    BY <1>0, <1>8, MoveOf
  <2>2. r \in Caller /\ SamePayload(r, p)
    BY <1>0, <1>8 DEF Complete, RunOf, Claimed, TypeInv, WorkOK
  <2>3. row'[r].status \in {"completed", "escalated"} /\ row'[r].result = result
    <3> DEFINE new == [status |-> TerminalStatus(result), result |-> result,
                       diff |-> Compare(ContentOf[r], result)]
    <3>1. row' = [row EXCEPT ![r] = new]
      BY <1>8 DEF Complete
    <3>2. new.status \in {"completed", "escalated"} /\ new.result = result
      BY DEF TerminalStatus
    <3> HIDE DEF new, result, r
    <3> QED BY <1>0, <2>2, <3>1, <3>2 DEF TypeOK
  <2> HIDE DEF r, result
  <2>4. AnswerableNext(p, result)
    BY <2>2, <2>3 DEF AnswerableNext
  <2> QED BY <1>0, <2>1, <2>4, MovedBacked DEF Refusals
<1>9. CASE Unlock(p)
  <2>1. PICK pc \in {"unlock", "done"} : Moved(p, pc, c.run, c.result, c.lost, c.answer)
    BY <1>0, <1>9, MoveOf
  <2>2. c.pc = "unlock"
    BY <1>9 DEF Unlock
  <2>3. /\ c.answer = "result" => AnswerableNext(p, c.result)
        /\ c.answer # "result" => c.result = None
        /\ c.answer \in Refusals => Refusable(p)'
    BY <1>0, <2>2, BasisStays DEF Backed
  <2> HIDE DEF c
  <2> QED BY <1>0, <2>1, <2>3, MovedBacked
<1>10. CASE FailToUnlock(p)
  <2>1. Moved(p, "done", c.run, None, c.lost, "connection_lost")
    BY <1>0, <1>10, MoveOfOutcome
  <2> QED BY <1>0, <2>1, MovedBacked DEF Refusals
<1>11. CASE Intake(p) \/ RecordResult(p)
  BY <1>11, StillBacked DEF Intake, RecordResult
<1>12. CASE Insert(p) \/ Complete(p)
  BY <1>1, <1>7, <1>8, <1>12
<1> QED BY <1>1, <1>2, <1>3, <1>4, <1>5, <1>6, <1>9, <1>10, <1>11, <1>12 DEF Step

\* Insertion respects the constraints, and completion fills the result.
LEMMA RowsStep ==
  ASSUME ClaimInv, SettledInv, CaseInv, SettledInv', ClaimInv', NEW p \in Caller,
         Begin(p) \/ Step(p) \/ LoseLock(p) \/ Stop(p)
  PROVE  OneRun(row') /\ ResultsOK'
<1>0. TypeInv /\ TypeOK /\ TypeOK' /\ OneRun(row) /\ ResultsOK /\ RunsOK
  BY DEF ClaimInv, TypeInv, CaseInv
<1>1. OneRun(row')
  <2> SUFFICES ASSUME NEW r \in Caller, NEW s \in Caller, r # s,
                      row'[r].status # "absent", row'[s].status # "absent"
               PROVE  KeyOf[r] # KeyOf[s] /\ CaseOf[r] # CaseOf[s]
    BY DEF OneRun
  <2>1. /\ Exists(r) \/ (r = p /\ Insertable(p))
        /\ Exists(s) \/ (s = p /\ Insertable(p))
    BY <1>0, RunsGrow DEF Exists
  <2> QED BY <1>0, <2>1 DEF OneRun, Exists, Insertable
<1>2. ASSUME NEW r \in Caller
      PROVE  row'[r].result \in IF row'[r].status \in {"completed", "escalated"}
                                THEN Result ELSE {None}
  <2>1. row[r].result \in IF Terminal(r) THEN Result ELSE {None}
    BY <1>0 DEF ResultsOK
  <2>2. CASE row'[r] = row[r]
    BY <2>1, <2>2 DEF Terminal
  <2>3. CASE Insert(p) /\ Insertable(p) /\ r = p
    <3>1. row' = [row EXCEPT ![p] = [row[p] EXCEPT !.status = "started"]] /\ row[p] \in Row
      BY <1>0, <2>3 DEF Insert, TypeOK
    <3>2. row'[p].status = "started" /\ row'[p].result = row[p].result
      BY <1>0, <3>1 DEF TypeOK, Row
    <3>3. ~Terminal(p)
      BY <1>0, <2>3 DEF RunsOK, RunOf, Insert, Exists, Terminal
    <3> QED BY <2>1, <2>3, <3>2, <3>3
  <2>4. CASE row'[r].status \in {"completed", "escalated"}
    <3>1. row'[r] \in Row /\ RunSettled(r)'
      BY <1>0 DEF TypeOK, SettledInv
    <3>2. row'[r].result \in Result
      BY <2>4, <3>1 DEF RunSettled, Terminal, Stores
    <3> QED BY <2>4, <3>2
  <2> QED BY <1>0, <2>2, <2>3, <2>4, RowSteps
<1> QED BY <1>1, <1>2 DEF ResultsOK, Terminal

LEMMA CaseInvStep ==
  ClaimInv /\ SettledInv /\ CaseInv /\ ClaimInv' /\ SettledInv' /\ [Next]_vars => CaseInv'
<1> SUFFICES ASSUME ClaimInv, SettledInv, CaseInv, ClaimInv', SettledInv', [Next]_vars
             PROVE  CaseInv'
  OBVIOUS
<1>1. CASE Next
  <2>1. PICK p \in Caller : Begin(p) \/ Step(p) \/ LoseLock(p) \/ Stop(p)
    BY <1>1 DEF Next
  <2>2. ASSUME NEW q \in Caller PROVE Backed(q)'
    <3>1. CASE q = p
      BY <2>1, <3>1, OwnBacked
    <3>2. CASE q # p
      BY <2>1, <3>2, OthersStay, StillBacked DEF ClaimInv, TypeInv
    <3> QED BY <3>1, <3>2
  <2>3. OneRun(row') /\ ResultsOK'
    BY <2>1, RowsStep
  <2> QED BY <2>2, <2>3 DEF CaseInv, OneRun
<1>2. CASE UNCHANGED vars
  <2>1. row' = row /\ call' = call
    BY <1>2 DEF vars
  <2> QED BY <2>1 DEF CaseInv, OneRun, ResultsOK, Backed, Answerable, Refusable, Exists, Terminal
<1> QED BY <1>1, <1>2

--------------------------------------------------------------------------------
(* What ShadowCase sees *)

\* The binding of a case, in a table t of runs.
RunsIn(t, c) == {r \in Caller : t[r].status # "absent" /\ CaseOf[r] = c}

BindingIn(t, c) ==
  IF RunsIn(t, c) = {} THEN None
  ELSE LET r == CHOOSE r \in RunsIn(t, c) : TRUE
       IN [key |-> KeyOf[r], content |-> ContentOf[r], result |-> t[r].result]

ShadowIn(t) == [c \in Case |-> BindingIn(t, c)]

\* How a request stands that is at c.
AnswerAt(c) ==
  [ how |-> CASE c.pc # "done" -> "not yet"
              [] c.pc = "done" /\ c.answer = "result" -> "answered"
              [] c.pc = "done" /\ c.answer \in {"identity_conflict", "idempotency_conflict"} ->
                   "refused"
              [] OTHER -> "failed",
    result |-> IF c.pc = "done" THEN c.result ELSE None ]

AnswersIn(calls) == [p \in Caller |-> AnswerAt(calls[p])]

LEMMA BindingsIn ==
  ASSUME NEW t, OneRun(t)
  PROVE  /\ \A c \in Case : RunsIn(t, c) = {} => ShadowIn(t)[c] = None
         /\ \A r \in Caller : t[r].status # "absent" =>
              /\ CaseOf[r] \in Case /\ RunsIn(t, CaseOf[r]) = {r}
              /\ ShadowIn(t)[CaseOf[r]] =
                   [key |-> KeyOf[r], content |-> ContentOf[r], result |-> t[r].result]
<1>1. \A c \in Case : ShadowIn(t)[c] = BindingIn(t, c)
  BY DEF ShadowIn
<1>2. ASSUME NEW r \in Caller, t[r].status # "absent"
      PROVE  CaseOf[r] \in Case /\ RunsIn(t, CaseOf[r]) = {r}
  BY <1>2, RequestAssumption DEF OneRun, RunsIn
<1>3. ASSUME NEW r \in Caller, t[r].status # "absent"
      PROVE  ShadowIn(t)[CaseOf[r]] =
               [key |-> KeyOf[r], content |-> ContentOf[r], result |-> t[r].result]
  <2>1. CaseOf[r] \in Case /\ RunsIn(t, CaseOf[r]) = {r}
    BY <1>2, <1>3
  <2>2. (CHOOSE s \in {r} : TRUE) = r
    OBVIOUS
  <2> QED BY <1>1, <2>1, <2>2 DEF BindingIn
<1> QED BY <1>1, <1>2, <1>3 DEF BindingIn

LEMMA BindingStays ==
  ASSUME NEW t, NEW u, NEW c \in Case, \A r \in Caller : CaseOf[r] = c => u[r] = t[r]
  PROVE  ShadowIn(u)[c] = ShadowIn(t)[c]
<1>1. RunsIn(u, c) = RunsIn(t, c)
  BY DEF RunsIn
<1>2. RunsIn(t, c) # {} =>
        LET r == CHOOSE r \in RunsIn(t, c) : TRUE IN r \in Caller /\ CaseOf[r] = c
  BY DEF RunsIn
<1>3. BindingIn(u, c) = BindingIn(t, c)
  BY <1>1, <1>2 DEF BindingIn
<1> QED BY <1>3 DEF ShadowIn

\* What a step does to the bindings and to the answers.
ShadowStays == ShadowIn(row') = ShadowIn(row)
AnswersStay == AnswersIn(call') = AnswersIn(call)

CaseStarts(p) ==
  /\ ShadowIn(row)[CaseOf[p]] = None
  /\ \A c \in Case : ShadowIn(row)[c] # None => ShadowIn(row)[c].key # KeyOf[p]
  /\ ShadowIn(row') = [ShadowIn(row) EXCEPT ![CaseOf[p]] =
       [key |-> KeyOf[p], content |-> ContentOf[p], result |-> None]]

CaseFinishes(c) ==
  /\ ShadowIn(row)[c] # None /\ ShadowIn(row)[c].result = None
  /\ ShadowIn(row')[c].result \in Result
  /\ ShadowIn(row') = [ShadowIn(row) EXCEPT ![c].result = ShadowIn(row')[c].result]

CaseAnswers(p) ==
  /\ AnswersIn(call)[p].how = "not yet"
  /\ ShadowIn(row)[CaseOf[p]] # None /\ ShadowIn(row)[CaseOf[p]].content = ContentOf[p]
  /\ ShadowIn(row)[CaseOf[p]].result # None
  /\ AnswersIn(call') = [AnswersIn(call) EXCEPT ![p] =
       [how |-> "answered", result |-> ShadowIn(row)[CaseOf[p]].result]]

CaseRefuses(p) ==
  /\ AnswersIn(call)[p].how = "not yet"
  /\ \E c \in Case : ShadowIn(row)[c] # None /\
       \/ c # CaseOf[p] /\ ShadowIn(row)[c].key = KeyOf[p]
       \/ c = CaseOf[p] /\ ShadowIn(row)[c].content # ContentOf[p]
  /\ AnswersIn(call') = [AnswersIn(call) EXCEPT ![p] = [how |-> "refused", result |-> None]]

CaseFails(p) ==
  /\ AnswersIn(call)[p].how = "not yet"
  /\ AnswersIn(call') = [AnswersIn(call) EXCEPT ![p] = [how |-> "failed", result |-> None]]

CaseStep ==
  \/ ShadowStays /\ AnswersStay
  \/ AnswersStay /\ \/ \E p \in Caller : CaseStarts(p)
                    \/ \E c \in Case : CaseFinishes(c)
  \/ ShadowStays /\ \E p \in Caller : CaseAnswers(p) \/ CaseRefuses(p) \/ CaseFails(p)

LEMMA InsertStarts ==
  ASSUME ClaimInv, CaseInv, CaseInv', NEW p \in Caller, Insert(p), Insertable(p)
  PROVE  CaseStarts(p)
<1> DEFINE S == ShadowIn(row)
           T == ShadowIn(row')
           k == CaseOf[p]
           new == [key |-> KeyOf[p], content |-> ContentOf[p], result |-> None]
<1>0. TypeInv /\ TypeOK /\ OneRun(row) /\ OneRun(row') /\ ResultsOK /\ ResultsOK' /\ RunsOK
  BY DEF ClaimInv, TypeInv, CaseInv, OneRun
<1>1. /\ row'[p].status = "started" /\ \A r \in Caller : r # p => row'[r] = row[r]
      /\ row[p].status = "absent"
  <2>1. row'[p].status = "started" /\ \A r \in Caller : r # p => row'[r] = row[r]
    <3>1. ~Complete(p)
      BY DEF Insert, Complete
    <3> QED BY <1>0, <3>1, RowSteps DEF Step
  <2> QED BY <1>0, <2>1 DEF RunsOK, RunOf, Insert, Exists
<1>2. row'[p].result = None
  BY <1>0, <1>1 DEF ResultsOK, Terminal
<1>3. k \in Case /\ RunsIn(row, k) = {}
  BY RequestAssumption DEF RunsIn, Insertable, Exists
<1>4. S[k] = None
  BY <1>0, <1>3, BindingsIn
<1>5. ASSUME NEW c \in Case, S[c] # None PROVE S[c].key # KeyOf[p]
  <2>1. PICK r \in RunsIn(row, c) : TRUE
    BY <1>0, <1>5, BindingsIn
  <2>2. r \in Caller /\ row[r].status # "absent" /\ CaseOf[r] = c
    BY <2>1 DEF RunsIn
  <2>3. S[c] = [key |-> KeyOf[r], content |-> ContentOf[r], result |-> row[r].result]
    BY <1>0, <2>2, BindingsIn
  <2>4. S[c].key = KeyOf[r]
    BY <2>3
  <2> QED BY <2>2, <2>4 DEF Insertable, Exists
<1>6. T[k] = new
  BY <1>0, <1>1, <1>2, BindingsIn
<1>7. ASSUME NEW c \in Case, c # k PROVE T[c] = S[c]
  <2>1. \A r \in Caller : CaseOf[r] = c => row'[r] = row[r]
    BY <1>1, <1>7
  <2> QED BY <2>1, BindingStays
<1>8. T = [S EXCEPT ![k] = new]
  <2>1. S = [c \in Case |-> S[c]] /\ T = [c \in Case |-> T[c]]
    BY DEF ShadowIn
  <2> HIDE DEF S, T, new, k
  <2> QED BY <1>3, <1>6, <1>7, <2>1
<1> QED BY <1>4, <1>5, <1>8 DEF CaseStarts

LEMMA CompleteFinishes ==
  ASSUME ClaimInv, CaseInv, CaseInv', NEW p \in Caller, Complete(p), StillStarted(call[p].run)
  PROVE  \E c \in Case : CaseFinishes(c)
<1> DEFINE S == ShadowIn(row)
           T == ShadowIn(row')
           r == call[p].run
           k == CaseOf[r]
           new == [key |-> KeyOf[r], content |-> ContentOf[r], result |-> row'[r].result]
<1>0. TypeInv /\ TypeOK /\ OneRun(row) /\ OneRun(row') /\ ResultsOK /\ ResultsOK' /\ RunsOK
  BY DEF ClaimInv, TypeInv, CaseInv, OneRun
<1>1. /\ r \in Caller /\ row[r].status = "started"
      /\ row'[r].status \in {"completed", "escalated"}
      /\ \A s \in Caller : s # r => row'[s] = row[s]
  <2>1. r \in Caller /\ row[r].status = "started"
    BY <1>0 DEF Complete, StillStarted, TypeInv, WorkOK, Claimed
  <2>2. ~Insert(p)
    BY DEF Insert, Complete
  <2> QED BY <1>0, <2>1, <2>2, RowSteps DEF Step
<1>2. row[r].result = None /\ row'[r].result \in Result
  BY <1>0, <1>1 DEF ResultsOK, Terminal
<1> HIDE DEF r
<1>3. k \in Case /\ S[k] = [key |-> KeyOf[r], content |-> ContentOf[r], result |-> None]
  BY <1>0, <1>1, <1>2, BindingsIn
<1>4. T[k] = new
  BY <1>0, <1>1, BindingsIn
<1>5. S[k] # None
  BY <1>1, <1>3, RequestAssumption, NoneAssumption
<1>6. ASSUME NEW c \in Case, c # k PROVE T[c] = S[c]
  <2>1. \A s \in Caller : CaseOf[s] = c => row'[s] = row[s]
    BY <1>1, <1>6
  <2> QED BY <2>1, BindingStays
<1>7. new = [S[k] EXCEPT !.result = row'[r].result]
  BY <1>3
<1>8. T = [S EXCEPT ![k].result = row'[r].result]
  <2>1. S = [c \in Case |-> S[c]] /\ T = [c \in Case |-> T[c]]
    BY DEF ShadowIn
  <2>2. T = [S EXCEPT ![k] = new]
    <3> HIDE DEF S, T, new, k
    <3> QED BY <1>3, <1>4, <1>6, <2>1
  <2> HIDE DEF S, T, new, k
  <2> QED BY <1>3, <1>7, <2>2
<1>9. S[k].result = None /\ T[k].result = row'[r].result
  BY <1>3, <1>4
<1> QED BY <1>2, <1>3, <1>5, <1>8, <1>9 DEF CaseFinishes

\* Only the insertion and the completion of a run change the bindings.
LEMMA ShadowSteps ==
  ASSUME ClaimInv, CaseInv, CaseInv', NEW p \in Caller,
         Begin(p) \/ Step(p) \/ LoseLock(p) \/ Stop(p)
  PROVE  \/ ShadowStays
         \/ Insert(p) /\ CaseStarts(p)
         \/ Complete(p) /\ \E c \in Case : CaseFinishes(c)
<1>1. CASE Insert(p) /\ Insertable(p)
  BY <1>1, InsertStarts
<1>2. CASE Complete(p) /\ StillStarted(call[p].run)
  BY <1>2, CompleteFinishes
<1>3. CASE UNCHANGED row
  BY <1>3 DEF ShadowStays
<1> QED BY <1>1, <1>2, <1>3, RowSteps DEF ClaimInv

\* Answers appear when a request is done, and with nothing else.
LEMMA AnswerSteps ==
  ASSUME ClaimInv, NEW p \in Caller, Begin(p) \/ Step(p) \/ LoseLock(p) \/ Stop(p)
  PROVE  \/ AnswersStay
         \/ /\ UNCHANGED row /\ call[p].pc # "done"
            /\ AnswersIn(call') = [AnswersIn(call) EXCEPT ![p] = AnswerAt(call'[p])]
            /\ call'[p].pc = "done"
<1>1. TypeOK /\ TypeInv
  BY DEF ClaimInv, TypeInv
<1>2. \A q \in Caller : q # p => call'[q] = call[q]
  BY <1>1, OthersStay
<1>3. ASSUME AnswerAt(call'[p]) = AnswerAt(call[p]) PROVE AnswersStay
  <2>1. \A q \in Caller : AnswerAt(call'[q]) = AnswerAt(call[q])
    BY <1>2, <1>3
  <2> QED BY <2>1 DEF AnswersStay, AnswersIn
<1>4. AnswersIn(call') = [AnswersIn(call) EXCEPT ![p] = AnswerAt(call'[p])]
  BY <1>2 DEF AnswersIn
<1>5. call[p].pc # "done" \/ Intake(p) \/ RecordResult(p)
  BY DEF Begin, Step, TakeLock, RefuseIdentity, Observe, FindNothing, Reject, Insert, RecordStart,
         ReadOutcome, ReadReasoning, Complete, Unlock, FailToUnlock, LoseLock, Stop, Claimed
<1>6. CASE Unlock(p) \/ FailToUnlock(p)
  <2>1. UNCHANGED row /\ call[p].pc = "unlock"
    BY <1>6 DEF Unlock, FailToUnlock
  <2>2. CASE call'[p].pc = "done"
    BY <1>4, <2>1, <2>2
  <2>3. CASE call'[p].pc # "done"
    BY <1>3, <2>1, <2>3 DEF AnswerAt
  <2> QED BY <2>2, <2>3
<1>7. CASE Intake(p) \/ RecordResult(p)
  BY <1>3, <1>7 DEF Intake, RecordResult
<1>8. CASE ~(Unlock(p) \/ FailToUnlock(p) \/ Intake(p) \/ RecordResult(p))
  <2>1. call'[p].pc # "done"
    <3>1. CASE Observe(p)
      BY <1>1, <3>1, MoveOfObserve, MovedTo DEF To
    <3>2. CASE ReadOutcome(p) \/ ReadReasoning(p)
      BY <1>1, <3>2, MoveOfRead, MovedTo DEF To
    <3>3. CASE LoseLock(p)
      <4>1. Moved(p, call[p].pc, call[p].run, call[p].result, TRUE, call[p].answer)
        BY <1>1, <3>3, MoveOfOutcome
      <4>2. To(p, call[p].pc, call[p].run, call[p].result, TRUE, call[p].answer)
        BY <1>1, <4>1, MovedTo
      <4> QED BY <1>5, <1>8, <4>2 DEF To
    <3>4. CASE \/ Begin(p) \/ TakeLock(p) \/ RefuseIdentity(p) \/ FindNothing(p) \/ Reject(p)
               \/ Insert(p) \/ RecordStart(p) \/ Complete(p) \/ Stop(p)
      <4>1. PICK pc, run, result, answer :
              Moved(p, pc, run, result, call[p].lost, answer) /\ pc # "done"
        BY <1>1, <3>4, MoveOf
      <4> QED BY <1>1, <4>1, MovedTo DEF To
    <3> QED BY <1>8, <3>1, <3>2, <3>3, <3>4 DEF Step
  <2> QED BY <1>3, <1>5, <1>8, <2>1 DEF AnswerAt
<1> QED BY <1>6, <1>7, <1>8

\* How a request ends follows from what backs it.
LEMMA DoneAnswers ==
  ASSUME ClaimInv, CaseInv, CaseInv', NEW p \in Caller, UNCHANGED row,
         call[p].pc # "done", call'[p].pc = "done",
         AnswersIn(call') = [AnswersIn(call) EXCEPT ![p] = AnswerAt(call'[p])]
  PROVE  CaseAnswers(p) \/ CaseRefuses(p) \/ CaseFails(p)
<1> DEFINE S == ShadowIn(row)
           d == call'[p]
<1>0. OneRun(row) /\ ResultsOK /\ Backed(p)'
  BY DEF CaseInv
<1>1. AnswersIn(call)[p].how = "not yet"
  BY DEF AnswersIn, AnswerAt
<1>2. CASE d.answer = "result"
  <2>1. Answerable(p, call[p].result)'
    BY <1>0, <1>2 DEF Backed
  <2>2. PICK r \in Caller : Terminal(r) /\ SamePayload(r, p) /\ row[r].result = d.result
    BY <2>1 DEF Answerable, Terminal
  <2>3. S[CaseOf[p]] = [key |-> KeyOf[r], content |-> ContentOf[r], result |-> row[r].result]
    BY <1>0, <2>2, BindingsIn DEF Terminal, SamePayload
  <2>4. row[r].result \in Result /\ row[r].result # None
    BY <1>0, <2>2, NoneAssumption DEF ResultsOK
  <2>5. S[CaseOf[p]] # None
    BY <2>3, <2>4, RequestAssumption, NoneAssumption
  <2>6. AnswerAt(d) = [how |-> "answered", result |-> d.result]
    BY <1>2 DEF AnswerAt
  <2>7. S[CaseOf[p]].content = ContentOf[p] /\ S[CaseOf[p]].result = d.result
        /\ d.result # None
    BY <2>2, <2>3, <2>4 DEF SamePayload
  <2> QED BY <1>1, <2>5, <2>6, <2>7 DEF CaseAnswers
<1>3. CASE d.answer \in Refusals
  <2>1. d.answer # "result" /\ d.result = None /\ Refusable(p)'
    BY <1>0, <1>3 DEF Backed, Refusals
  <2>2. PICK r \in Caller : Exists(r) /\ Contradicts(r, p)
    BY <2>1 DEF Refusable, Exists
  <2>3. CaseOf[r] \in Case
        /\ S[CaseOf[r]] = [key |-> KeyOf[r], content |-> ContentOf[r], result |-> row[r].result]
    BY <1>0, <2>2, BindingsIn DEF Exists
  <2>4. row[r].result \in Result \cup {None}
    BY <1>0 DEF ResultsOK
  <2>5. S[CaseOf[r]] # None
    BY <2>3, <2>4, RequestAssumption, NoneAssumption
  <2>6. S[CaseOf[r]].key = KeyOf[r] /\ S[CaseOf[r]].content = ContentOf[r]
    BY <2>3
  <2>7. AnswerAt(d) = [how |-> "refused", result |-> None]
    BY <1>3, <2>1 DEF AnswerAt, Refusals
  <2> QED BY <1>1, <2>2, <2>3, <2>5, <2>6, <2>7 DEF CaseRefuses, Contradicts
<1>4. CASE d.answer # "result" /\ d.answer \notin Refusals
  <2>1. d.result = None
    BY <1>0, <1>4 DEF Backed
  <2>2. AnswerAt(d) = [how |-> "failed", result |-> None]
    BY <1>4, <2>1 DEF AnswerAt, Refusals
  <2> QED BY <1>1, <2>2 DEF CaseFails
<1> QED BY <1>2, <1>3, <1>4

LEMMA NextMovesCase ==
  ASSUME ClaimInv, CaseInv, CaseInv', [Next]_vars
  PROVE  CaseStep
<1>1. CASE UNCHANGED vars
  BY <1>1 DEF vars, CaseStep, ShadowStays, AnswersStay
<1>2. ASSUME NEW p \in Caller, Begin(p) \/ Step(p) \/ LoseLock(p) \/ Stop(p) PROVE CaseStep
  <2>1. CASE AnswersStay
    BY <1>2, <2>1, ShadowSteps DEF CaseStep
  <2>2. CASE ~AnswersStay
    <3>1. /\ UNCHANGED row /\ call[p].pc # "done"
          /\ AnswersIn(call') = [AnswersIn(call) EXCEPT ![p] = AnswerAt(call'[p])]
          /\ call'[p].pc = "done"
      BY <1>2, <2>2, AnswerSteps
    <3>2. ShadowStays
      BY <3>1 DEF ShadowStays
    <3>3. CaseAnswers(p) \/ CaseRefuses(p) \/ CaseFails(p)
      BY <3>1, DoneAnswers
    <3> QED BY <3>2, <3>3 DEF CaseStep
  <2> QED BY <2>1, <2>2
<1> QED BY <1>1, <1>2 DEF Next

LEMMA InitMapsCase == Init => Cases!Init
<1> SUFFICES ASSUME Init PROVE Cases!Init
  OBVIOUS
<1>1. \A c \in Case : Runs(c) = {}
  BY DEF Init, NoRow, Runs, Exists
<1>2. \A p \in Caller : call[p].pc = "idle"
  BY DEF Init, NewCall
<1> QED BY <1>1, <1>2 DEF Cases!Init, Cases!Ended

\* However requests interleave, stop, lose their locks and are retried under the same
\* or another key, a case is bound once to a key and a payload and gets one result,
\* which is the answer of every request that gets one; a refusal contradicts what is bound.
THEOREM ShadowRefinement == Spec => ImplementsShadowCase
<1>1. CaseStep => [Cases!Next]_Cases!vars
  BY DEF CaseStep, ShadowStays, AnswersStay, CaseStarts, CaseFinishes, CaseAnswers, CaseRefuses,
     CaseFails, ShadowIn, BindingIn, RunsIn, Runs, Exists, AnswersIn, AnswerAt, Cases!Next,
     Cases!Start, Cases!Finish, Cases!Answer, Cases!Refuse, Cases!Fail, Cases!Bound,
     Cases!Ended, Cases!vars
<1>2. Init => ClaimInv /\ SettledInv /\ CaseInv
  BY ClaimInit, SettledInit, CaseInit
<1>3. ClaimInv /\ CaseInv /\ CaseInv' /\ [Next]_vars => [Cases!Next]_Cases!vars
  BY <1>1, NextMovesCase
<1> QED BY <1>2, <1>3, InitMapsCase, ClaimStep, SettledStep, CaseInvStep, PTL
       DEF Spec, ImplementsShadowCase, Cases!Spec

\* "Repeated or concurrent equivalent requests converge on one shadow run": all
\* answers for a case are one, for any number of requests, retries and faults.
THEOREM Convergence == Spec => []AnswersConverge
<1>1. ClaimInv /\ CaseInv => AnswersConverge
  <2> SUFFICES ASSUME ClaimInv, CaseInv, NEW p \in Caller, NEW q \in Caller,
                      call[p].answer = "result", call[q].answer = "result",
                      CaseOf[p] = CaseOf[q], call[p].pc # "stopped", call[q].pc # "stopped"
               PROVE  ContentOf[p] = ContentOf[q] /\ call[p].result = call[q].result
    BY DEF AnswersConverge
  <2>1. call[p].pc \in {"unlock", "done"} /\ call[q].pc \in {"unlock", "done"}
    BY NoneAssumption DEF ClaimInv, ClaimsOK, ClaimOf
  <2>2. Answerable(p, call[p].result) /\ Answerable(q, call[q].result)
    BY <2>1 DEF CaseInv, Backed
  <2>3. PICK r \in Caller : Terminal(r) /\ SamePayload(r, p) /\ row[r].result = call[p].result
    BY <2>2 DEF Answerable
  <2>4. PICK s \in Caller : Terminal(s) /\ SamePayload(s, q) /\ row[s].result = call[q].result
    BY <2>2 DEF Answerable
  <2>5. r = s
    BY <2>3, <2>4 DEF CaseInv, OneRun, Terminal, SamePayload
  <2> QED BY <2>3, <2>4, <2>5 DEF SamePayload
<1>2. Init => ClaimInv /\ SettledInv /\ CaseInv
  BY ClaimInit, SettledInit, CaseInit
<1> QED BY <1>1, <1>2, ClaimStep, SettledStep, CaseInvStep, PTL DEF Spec

--------------------------------------------------------------------------------
(* Requests that wait for locks *)

LEMMA LeastNatural ==
  ASSUME NEW T \in SUBSET Nat, T # {}
  PROVE  \E n \in T : \A m \in T : n <= m
<1> DEFINE R == OpToRel(<, Nat)
<1>1. \A m, n \in Nat : m < n => <<m, n>> \in R
  BY DEF OpToRel
<1>2. IsWellFoundedOn(R, Nat)
  BY NatLessThanWellFounded
<1> HIDE DEF R
<1>3. PICK n \in T : \A m \in T : <<m, n>> \notin R
  BY <1>2, WFMin
<1>4. \A m \in T : ~(m < n)
  BY <1>1, <1>3
<1> QED BY <1>4

\* A request that is taking its locks holds those that come first.
Sorted(p) ==
  call[p].pc = "locking" =>
    \A l, m \in LocksOf(p) : lock[l] = p /\ lock[m] # p => Rank[l] <= Rank[m]

LocksSorted == \A p \in Caller : Sorted(p)

LEMMA SortedInit == Init => LocksSorted
BY DEF Init, NewCall, LocksSorted, Sorted

\* A step takes and frees locks of its own request only.
LEMMA OthersLocks ==
  ASSUME TypeOK, NEW p \in Caller, Begin(p) \/ Step(p) \/ LoseLock(p) \/ Stop(p),
         NEW q \in Caller, q # p
  PROVE  \A l \in Lock : lock'[l] = q <=> lock[l] = q
<1>1. q # None
  BY NoneAssumption
<1>2. CASE TakeLock(p)
  <2>1. PICK l \in LocksOf(p) : lock[l] = None /\ lock' = [lock EXCEPT ![l] = p]
    BY <1>2 DEF TakeLock, Granted
  <2> QED BY <1>1, <2>1 DEF TypeOK
<1>3. CASE Unlock(p)
  <2>1. PICK l \in LocksOf(p) : lock[l] = p /\ lock' = [lock EXCEPT ![l] = None]
    BY <1>3 DEF Unlock
  <2> QED BY <1>1, <2>1 DEF TypeOK
<1>4. CASE LoseLock(p) \/ Stop(p)
  <2>1. lock' = [l \in Lock |-> IF lock[l] = p THEN None ELSE lock[l]]
    BY <1>4 DEF LoseLock, Stop, FreedLocks
  <2> QED BY <1>1, <2>1
<1>5. CASE Quiet(p)
  BY <1>5 DEF Quiet, Begin, RefuseIdentity, Observe, FindNothing, Reject, Insert, RecordStart,
              Intake, RecordResult, ReadOutcome, ReadReasoning, Complete, FailToUnlock
<1> QED BY <1>2, <1>3, <1>4, <1>5 DEF Step, Quiet

\* Only the first step and the taking of a lock leave a request waiting for locks.
LEMMA LockingBy ==
  ASSUME TypeOK, NEW p \in Caller, Begin(p) \/ Step(p) \/ LoseLock(p) \/ Stop(p),
         call'[p].pc = "locking"
  PROVE  Begin(p) \/ TakeLock(p)
<1> DEFINE c == call[p]
<1>1. CASE RefuseIdentity(p) \/ FindNothing(p) \/ Reject(p) \/ Insert(p) \/ RecordStart(p)
  <2>1. PICK pc, run, result, answer :
          Moved(p, pc, run, result, c.lost, answer) /\ pc \in {"unlock", "insert", "record", "intake"}
    BY <1>1, MoveOf
  <2> QED BY <2>1, MovedTo DEF To
<1>2. CASE Complete(p) \/ Unlock(p) \/ Stop(p)
  <2>1. PICK pc, run, result, answer :
          Moved(p, pc, run, result, c.lost, answer) /\ pc \in {"unlock", "done", "stopped"}
    BY <1>2, MoveOf
  <2> QED BY <2>1, MovedTo DEF To
<1>3. CASE Observe(p)
  <2>1. PICK pc, run, result, answer :
          Moved(p, pc, run, result, c.lost, answer) /\ pc \in {"reject", "unlock", "intake"}
    BY <1>3, MoveOfObserve
  <2> QED BY <2>1, MovedTo DEF To
<1>4. CASE ReadOutcome(p) \/ ReadReasoning(p)
  <2>1. PICK pc, result :
          Moved(p, pc, c.run, result, c.lost, c.answer) /\ pc \in {"reasoning", "complete"}
    BY <1>4, MoveOfRead
  <2> QED BY <2>1, MovedTo DEF To
<1>5. CASE FailToUnlock(p)
  <2>1. Moved(p, "done", c.run, None, c.lost, "connection_lost")
    BY <1>5, MoveOfOutcome
  <2> QED BY <2>1, MovedTo DEF To
<1>6. CASE LoseLock(p)
  <2>1. Moved(p, c.pc, c.run, c.result, TRUE, c.answer) /\ c.pc \in Claimed
    BY <1>6, MoveOfOutcome DEF LoseLock
  <2>2. To(p, c.pc, c.run, c.result, TRUE, c.answer)
    BY <2>1, MovedTo
  <2> QED BY <2>1, <2>2 DEF To, Claimed
<1>7. CASE Intake(p) \/ RecordResult(p)
  BY <1>7 DEF Intake, RecordResult
<1> QED BY <1>1, <1>2, <1>3, <1>4, <1>5, <1>6, <1>7 DEF Step

LEMMA SortedStepOf ==
  ASSUME TypeOK, LocksOK, LocksSorted,
         NEW p \in Caller, Begin(p) \/ Step(p) \/ LoseLock(p) \/ Stop(p), NEW q \in Caller
  PROVE  Sorted(q)'
<1>1. Sorted(q) /\ LocksOf(q) \subseteq Lock
  BY LockTypes DEF LocksSorted
<1>2. CASE q # p
  <2>1. call'[q] = call[q] /\ \A l \in Lock : lock'[l] = q <=> lock[l] = q
    BY <1>2, OthersStay, OthersLocks
  <2> QED BY <1>1, <2>1 DEF Sorted, LocksOf
<1>3. CASE q = p /\ Begin(p)
  <2>1. \A l \in Lock : lock'[l] # p
    BY <1>3 DEF Begin, LocksOK, Live
  <2> QED BY <1>1, <1>3, <2>1 DEF Sorted, LocksOf
<1>4. CASE q = p /\ TakeLock(p)
  <2>1. PICK l \in LocksOf(p) : IsNext(p, l) /\ lock' = [lock EXCEPT ![l] = p]
    BY <1>4 DEF TakeLock
  <2>2. \A m \in LocksOf(p) : lock'[m] = p <=> lock[m] = p \/ m = l
    BY <1>1, <1>4, <2>1 DEF TypeOK
  <2>3. call[p].pc = "locking"
    BY <1>4 DEF TakeLock
  <2> QED BY <1>1, <1>4, <2>1, <2>2, <2>3 DEF Sorted, IsNext, LocksOf
<1>5. CASE q = p /\ call'[p].pc # "locking"
  BY <1>5 DEF Sorted
<1> QED BY <1>2, <1>3, <1>4, <1>5, LockingBy

LEMMA SortedStep == ClaimInv /\ LocksSorted /\ [Next]_vars => LocksSorted'
<1>1. ClaimInv /\ LocksSorted /\ Next => LocksSorted'
  BY SortedStepOf DEF Next, ClaimInv, TypeInv, LocksSorted
<1>2. LocksSorted /\ UNCHANGED vars => LocksSorted'
  BY DEF vars, LocksSorted, Sorted, LocksOf
<1> QED BY <1>1, <1>2

\* The highest lock that is waited for has a holder that waits for none: it would
\* have had to take a lower one after it.
LEMMA HighestHolder == TypeOK /\ LocksOK /\ LocksSorted => NoDeadlock
<1> SUFFICES ASSUME TypeOK, LocksOK, LocksSorted,
                    NEW p0 \in Caller, NEW l0 \in Lock, WaitsFor(p0, l0)
             PROVE  \E p, q \in Caller : \E l \in Lock :
                      /\ WaitsFor(p, l) /\ lock[l] = q
                      /\ call[q].pc \notin {"idle", "done", "stopped"}
                      /\ \A m \in Lock : ~WaitsFor(q, m)
  BY DEF NoDeadlock
<1>1. PICK top \in Lock : \A l \in Lock : Rank[l] <= Rank[top]
  BY RankAssumption
<1> DEFINE Waited == {l \in Lock : \E p \in Caller : WaitsFor(p, l)}
           Below == {Rank[top] - Rank[l] : l \in Waited}
<1>2. \A l \in Lock : Rank[l] \in Int
  BY RankAssumption
<1>3. l0 \in Waited
  OBVIOUS
<1>4. Below \in SUBSET Nat /\ Below # {}
  BY <1>1, <1>2, <1>3
<1>5. PICK n \in Below : \A m \in Below : n <= m
  BY <1>4, LeastNatural
<1>6. PICK l \in Waited : n = Rank[top] - Rank[l]
  BY <1>5
<1>7. ASSUME NEW m \in Waited PROVE Rank[m] <= Rank[l]
  <2>1. Rank[top] - Rank[l] <= Rank[top] - Rank[m]
    BY <1>5, <1>6
  <2>2. Rank[top] \in Int /\ Rank[l] \in Int /\ Rank[m] \in Int
    BY <1>1, <1>2, <1>6
  <2> QED BY <2>1, <2>2
<1>8. PICK p \in Caller : WaitsFor(p, l)
  BY <1>6
<1> DEFINE q == lock[l]
<1>9. l \in Lock /\ q \in Caller
  BY <1>6, <1>8 DEF WaitsFor, TypeOK
<1>10. l \in LocksOf(q) /\ call[q].pc \notin {"idle", "done", "stopped"}
  BY <1>9 DEF LocksOK, Live
<1>11. ASSUME NEW m \in Lock, WaitsFor(q, m) PROVE FALSE
  <2>1. call[q].pc = "locking" /\ m \in LocksOf(q) /\ lock[m] # q
    BY <1>11 DEF WaitsFor, IsNext
  <2>2. Rank[l] <= Rank[m]
    BY <1>9, <1>10, <2>1 DEF LocksSorted, Sorted
  <2>3. Rank[m] <= Rank[l]
    BY <1>7, <1>9, <1>11
  <2>4. m = l
    BY <1>2, <1>9, <2>2, <2>3, RankAssumption
  <2> QED BY <2>1, <2>4
<1> QED BY <1>8, <1>9, <1>10, <1>11

\* The two ordered advisory locks of begin_or_observe: whatever keys and cases the
\* requests share and whoever stops or loses its locks, requests never all wait for
\* one another.
THEOREM DeadlockFreedom == Spec => []NoDeadlock
<1>1. ClaimInv /\ LocksSorted => NoDeadlock
  BY HighestHolder DEF ClaimInv, TypeInv
<1> QED BY <1>1, ClaimInit, ClaimStep, SortedInit, SortedStep, PTL DEF Spec

--------------------------------------------------------------------------------
(* Refusals and their events *)

\* A request refused because of its payload still has its lock connection, so that
\* the release does not fail and replace the answer.
RefusedOK ==
  \A p \in Caller : call[p].answer = "idempotency_conflict" => ~call[p].lost

RefusalInv == RejectionsAreBacked /\ RefusedOK

LEMMA RefusalInit == Init => RefusalInv
<1> SUFFICES ASSUME Init PROVE RefusalInv
  OBVIOUS
<1>1. \A p \in Caller : call[p].answer = None /\ log[p] = <<>>
  BY DEF Init, NewCall
<1>2. \A r \in Caller : EventsOf(r, "rejected") = {}
  BY <1>1 DEF EventsOf
<1> QED BY <1>1, <1>2, NoneAssumption DEF RefusalInv, RejectionsAreBacked, RefusedOK

\* The log only grows, and gets an event of a refusal from Reject only.
LEMMA LogGrows ==
  ASSUME TypeInv, RunsOK, NEW p \in Caller, Begin(p) \/ Step(p) \/ LoseLock(p) \/ Stop(p),
         NEW r \in Caller
  PROVE  /\ \A i \in DOMAIN log[r] : i \in DOMAIN log'[r] /\ log'[r][i] = log[r][i]
         /\ \A i \in DOMAIN log'[r] :
              log'[r][i].type = "rejected" /\ i \notin DOMAIN log[r] =>
                /\ Reject(p) /\ r = call[p].run /\ i = Len(log[r]) + 1
                /\ log'[r][i] = [type |-> "rejected", by |-> p]
<1>0. TypeOK
  BY DEF TypeInv
<1>1. ASSUME NEW type, NEW s \in Caller, AppendEvent(s, type, p)
      PROVE  /\ \A i \in DOMAIN log[r] : i \in DOMAIN log'[r] /\ log'[r][i] = log[r][i]
             /\ \A i \in DOMAIN log'[r] : i \notin DOMAIN log[r] =>
                  /\ r = s /\ i = Len(log[r]) + 1
                  /\ log'[r][i] = [type |-> type, by |-> p]
  <2> DEFINE e == [type |-> type, by |-> p]
  <2>1. log[s] \in Seq(Event) /\ log' = [log EXCEPT ![s] = Append(log[s], e)]
    BY <1>0, <1>1 DEF TypeOK, AppendEvent
  <2> HIDE DEF e
  <2>2. log'[s] = Append(log[s], e) /\ (r # s => log'[r] = log[r])
    BY <1>0, <2>1 DEF TypeOK
  <2>3. /\ DOMAIN log'[s] = DOMAIN log[s] \cup {Len(log[s]) + 1}
        /\ log'[s][Len(log[s]) + 1] = e
        /\ \A i \in DOMAIN log[s] : log'[s][i] = log[s][i]
    BY <2>1, <2>2
  <2> QED BY <2>2, <2>3 DEF e
<1>2. CASE UNCHANGED log
  BY <1>2
<1>3. CASE /\ Reject(p) /\ call[p].run \in Caller
           /\ AppendEvent(call[p].run, "rejected", p)
  BY <1>1, <1>3
<1>4. ASSUME NEW type \in {"started", "completed"}, NEW s \in Caller, AppendEvent(s, type, p)
      PROVE  /\ \A i \in DOMAIN log[r] : i \in DOMAIN log'[r] /\ log'[r][i] = log[r][i]
             /\ \A i \in DOMAIN log'[r] : i \in DOMAIN log[r] \/ log'[r][i].type # "rejected"
  <2> DEFINE e == [type |-> type, by |-> p]
  <2>1. e.type # "rejected"
    BY <1>4
  <2> HIDE DEF e
  <2> QED BY <1>1, <1>4, <2>1 DEF e
<1> QED BY <1>2, <1>3, <1>4, LogSteps

\* A refusal because of the payload is answered by Reject only, and stays.
LEMMA RefusedBy ==
  ASSUME ClaimInv, RefusedOK, NEW p \in Caller, Begin(p) \/ Step(p) \/ LoseLock(p) \/ Stop(p)
  PROVE  /\ call[p].answer = "idempotency_conflict" =>
              ~Reject(p) /\ call'[p].answer = "idempotency_conflict" /\ ~call'[p].lost
         /\ Reject(p) => call'[p].answer = "idempotency_conflict" /\ ~call'[p].lost
         /\ call'[p].answer = "idempotency_conflict" =>
              Reject(p) \/ call[p].answer = "idempotency_conflict"
<1> DEFINE c == call[p]
<1>0. TypeOK /\ ClaimOf(p)
  BY DEF ClaimInv, TypeInv, ClaimsOK
<1>1. ASSUME c.answer = "idempotency_conflict"
      PROVE  ~Reject(p) /\ call'[p].answer = "idempotency_conflict" /\ ~call'[p].lost
  <2>1. c.pc \in {"unlock", "done", "stopped"} /\ ~c.lost
    BY <1>0, <1>1, NoneAssumption DEF ClaimOf, RefusedOK
  <2>2. Unlock(p) \/ Stop(p)
    BY <2>1 DEF Begin, Step, TakeLock, RefuseIdentity, Observe, FindNothing, Reject, Insert,
                RecordStart, Intake, RecordResult, ReadOutcome, ReadReasoning, Complete,
                FailToUnlock, LoseLock, Claimed
  <2>3. PICK pc : Moved(p, pc, c.run, c.result, c.lost, c.answer)
    BY <1>0, <2>2, MoveOf
  <2>4. To(p, pc, c.run, c.result, c.lost, c.answer)
    BY <1>0, <2>3, MovedTo
  <2> QED BY <1>1, <2>1, <2>4 DEF To, Reject
<1>2. ASSUME Reject(p) PROVE call'[p].answer = "idempotency_conflict" /\ ~call'[p].lost
  <2>1. ~c.lost
    BY <1>2 DEF Reject, ClaimInv, LocksOK, Claimed
  <2>2. Moved(p, "unlock", c.run, None, c.lost, "idempotency_conflict")
    BY <1>0, <1>2, MoveOf
  <2>3. To(p, "unlock", c.run, None, c.lost, "idempotency_conflict")
    BY <1>0, <2>2, MovedTo
  <2> QED BY <2>1, <2>3 DEF To
<1>3. ASSUME ~Reject(p), c.answer # "idempotency_conflict"
      PROVE  call'[p].answer # "idempotency_conflict"
  <2>1. ASSUME NEW pc, NEW run, NEW result, NEW lost, NEW answer,
               Moved(p, pc, run, result, lost, answer), answer # "idempotency_conflict"
        PROVE  call'[p].answer # "idempotency_conflict"
    <3>1. To(p, pc, run, result, lost, answer)
      BY <1>0, <2>1, MovedTo
    <3> QED BY <2>1, <3>1 DEF To
  <2>2. CASE Begin(p) \/ TakeLock(p) \/ FindNothing(p) \/ RecordStart(p) \/ Unlock(p) \/ Stop(p)
    <3>1. PICK pc : Moved(p, pc, c.run, c.result, c.lost, c.answer)
      BY <1>0, <2>2, MoveOf
    <3> QED BY <1>3, <2>1, <3>1
  <2>3. CASE RefuseIdentity(p) \/ Insert(p) \/ Complete(p)
    <3>1. PICK pc, run, result, answer :
            /\ Moved(p, pc, run, result, c.lost, answer)
            /\ answer \in {c.answer, "identity_conflict", "unique_violation", "result",
                           "completion_conflict"}
      BY <1>0, <2>3, MoveOf
    <3> QED BY <1>3, <2>1, <3>1
  <2>4. CASE Observe(p)
    <3>1. PICK pc, run, result, answer :
            Moved(p, pc, run, result, c.lost, answer) /\ answer \in {c.answer, "result"}
      BY <1>0, <2>4, MoveOfObserve
    <3> QED BY <1>3, <2>1, <3>1
  <2>5. CASE ReadOutcome(p) \/ ReadReasoning(p)
    <3>1. PICK pc, result : Moved(p, pc, c.run, result, c.lost, c.answer)
      BY <1>0, <2>5, MoveOfRead
    <3> QED BY <1>3, <2>1, <3>1
  <2>6. CASE FailToUnlock(p)
    <3>1. Moved(p, "done", c.run, None, c.lost, "connection_lost")
      BY <1>0, <2>6, MoveOfOutcome
    <3> QED BY <2>1, <3>1
  <2>7. CASE LoseLock(p)
    <3>1. Moved(p, c.pc, c.run, c.result, TRUE, c.answer)
      BY <1>0, <2>7, MoveOfOutcome
    <3> QED BY <1>3, <2>1, <3>1
  <2>8. CASE Intake(p) \/ RecordResult(p)
    BY <1>3, <2>8 DEF Intake, RecordResult
  <2> QED BY <1>3, <2>2, <2>3, <2>4, <2>5, <2>6, <2>7, <2>8 DEF Step
<1> QED BY <1>1, <1>2, <1>3

LEMMA RefusalStepOf ==
  ASSUME ClaimInv, CaseInv, RefusalInv,
         NEW p \in Caller, Begin(p) \/ Step(p) \/ LoseLock(p) \/ Stop(p)
  PROVE  RefusalInv'
<1> DEFINE idem == "idempotency_conflict"
           Left(q) == \E r \in Caller : \E i \in DOMAIN log'[r] :
                        log'[r][i] = [type |-> "rejected", by |-> q]
<1>0. TypeInv /\ TypeOK /\ RunsOK /\ RefusedOK /\ RejectionsAreBacked /\ ClaimOf(p)
  BY DEF ClaimInv, TypeInv, RefusalInv, ClaimsOK
<1>1. /\ call[p].answer = idem =>
           ~Reject(p) /\ call'[p].answer = idem /\ ~call'[p].lost
      /\ Reject(p) => call'[p].answer = idem /\ ~call'[p].lost
      /\ call'[p].answer = idem => Reject(p) \/ call[p].answer = idem
  BY <1>0, RefusedBy
<1>2. \A q \in Caller : q # p => call'[q] = call[q]
  BY <1>0, OthersStay
<1>3. ASSUME Reject(p) PROVE Left(p)
  <2>1. call[p].run \in Caller /\ AppendEvent(call[p].run, "rejected", p)
    BY <1>0, <1>3 DEF Reject, TypeInv, WorkOK
  <2> DEFINE r == call[p].run
             e == [type |-> "rejected", by |-> p]
  <2>2. log[r] \in Seq(Event) /\ log' = [log EXCEPT ![r] = Append(log[r], e)]
    BY <1>0, <2>1 DEF AppendEvent, TypeOK
  <2> HIDE DEF e
  <2>3. log'[r] = Append(log[r], e)
    BY <1>0, <2>1, <2>2 DEF TypeOK
  <2>4. Len(log[r]) + 1 \in DOMAIN log'[r] /\ log'[r][Len(log[r]) + 1] = e
    BY <2>2, <2>3
  <2> QED BY <2>1, <2>4 DEF e
<1>4. ASSUME NEW q \in Caller, call'[q].answer = idem
      PROVE  Left(q) /\ ~call'[q].lost
  <2>1. CASE q = p /\ Reject(p)
    BY <1>1, <1>3, <2>1
  <2>2. CASE ~(q = p /\ Reject(p))
    <3>1. call[q].answer = idem /\ ~call'[q].lost
      BY <1>0, <1>1, <1>2, <1>4, <2>2 DEF RefusedOK
    <3>2. PICK r \in Caller : \E i \in DOMAIN log[r] :
            log[r][i] = [type |-> "rejected", by |-> q]
      BY <1>0, <3>1 DEF RejectionsAreBacked
    <3>3. PICK i \in DOMAIN log[r] : log[r][i] = [type |-> "rejected", by |-> q]
      BY <3>2
    <3>4. i \in DOMAIN log'[r] /\ log'[r][i] = log[r][i]
      BY <1>0, LogGrows
    <3> QED BY <3>1, <3>3, <3>4
  <2> QED BY <2>1, <2>2
<1>5. ASSUME NEW r \in Caller, NEW i \in EventsNext(r, "rejected")
      PROVE  \/ i \in EventsOf(r, "rejected") /\ log'[r][i] = log[r][i]
                /\ log[r][i].by \in Caller /\ call[log[r][i].by].answer = idem
             \/ Reject(p) /\ r = call[p].run /\ i = Len(log[r]) + 1 /\ log'[r][i].by = p
  <2>1. i \in DOMAIN log'[r] /\ log'[r][i].type = "rejected"
    BY <1>5 DEF EventsNext
  <2>2. CASE i \in DOMAIN log[r]
    <3>1. log'[r][i] = log[r][i] /\ i \in EventsOf(r, "rejected")
      BY <1>0, <2>1, <2>2, LogGrows DEF EventsOf
    <3>2. log[r][i] \in Event
      BY <1>0, <2>2 DEF TypeOK
    <3> QED BY <1>0, <3>1, <3>2 DEF RejectionsAreBacked, Event
  <2>3. CASE i \notin DOMAIN log[r]
    <3>1. Reject(p) /\ r = call[p].run /\ i = Len(log[r]) + 1
          /\ log'[r][i] = [type |-> "rejected", by |-> p]
      BY <1>0, <2>1, <2>3, LogGrows
    <3> QED BY <3>1
  <2> QED BY <2>2, <2>3
<1>6. ASSUME NEW r \in Caller, NEW i \in EventsNext(r, "rejected")
      PROVE  LET q == log'[r][i].by
             IN /\ call'[q].answer = idem
                /\ Exists(r)' /\ SameRun(r, q) /\ ~SamePayload(r, q)
                /\ \A s \in Caller : \A j \in EventsNext(s, "rejected") :
                     log'[s][j].by = q => s = r /\ j = i
  <2>1. CASE /\ i \in EventsOf(r, "rejected") /\ log'[r][i] = log[r][i]
             /\ log[r][i].by \in Caller /\ call[log[r][i].by].answer = idem
    <3> DEFINE q == log[r][i].by
    <3>1. /\ Exists(r) /\ SameRun(r, q) /\ ~SamePayload(r, q)
          /\ \A s \in Caller : \A j \in EventsOf(s, "rejected") :
               log[s][j].by = q => s = r /\ j = i
      BY <1>0, <2>1 DEF RejectionsAreBacked
    <3>2. call'[q].answer = idem /\ (q = p => ~Reject(p))
      BY <1>1, <1>2, <2>1
    <3>3. Exists(r)'
      BY <3>1, RowsStay
    <3>4. ASSUME NEW s \in Caller, NEW j \in EventsNext(s, "rejected"), log'[s][j].by = q
          PROVE  s = r /\ j = i
      BY <1>5, <3>1, <3>2, <3>4
    <3> QED BY <2>1, <3>1, <3>2, <3>3, <3>4
  <2>2. CASE Reject(p) /\ r = call[p].run /\ i = Len(log[r]) + 1 /\ log'[r][i].by = p
    <3>1. call'[p].answer = idem /\ call[p].answer # idem /\ call[p].pc = "reject"
      BY <1>1, <2>2 DEF Reject
    <3>2. ~SamePayload(r, p)
      BY <2>2, <3>1 DEF CaseInv, Backed
    <3>3. Exists(r) /\ SameRun(r, p)
      BY <1>0, <2>2, NoneAssumption DEF RunsOK, RunOf
    <3>4. Exists(r)'
      BY <3>3, RowsStay
    <3>5. ASSUME NEW s \in Caller, NEW j \in EventsNext(s, "rejected"), log'[s][j].by = p
          PROVE  s = r /\ j = i
      BY <1>5, <2>2, <3>1, <3>5
    <3> QED BY <2>2, <3>1, <3>2, <3>3, <3>4, <3>5
  <2> QED BY <1>5, <2>1, <2>2
<1>7. RefusedOK'
  BY <1>4 DEF RefusedOK
<1>8. RejectionsAreBacked'
  <2>1. \A r \in Caller : EventsOf(r, "rejected")' = EventsNext(r, "rejected")
    BY DEF EventsOf, EventsNext
  <2>2. \A q \in Caller : call'[q].answer = idem => Left(q)
    BY <1>4
  <2> QED BY <1>6, <2>1, <2>2 DEF RejectionsAreBacked, SameRun, SamePayload
<1> QED BY <1>7, <1>8 DEF RefusalInv

LEMMA RefusalStep == ClaimInv /\ CaseInv /\ RefusalInv /\ [Next]_vars => RefusalInv'
<1>1. ClaimInv /\ CaseInv /\ RefusalInv /\ Next => RefusalInv'
  BY RefusalStepOf DEF Next
<1>2. RefusalInv /\ UNCHANGED vars => RefusalInv'
  BY DEF vars, RefusalInv, RejectionsAreBacked, RefusedOK, EventsOf, Exists, SameRun, SamePayload
<1> QED BY <1>1, <1>2

\* A request is refused because of its payload exactly if one event says so, in the
\* log of a run it resolves to and contradicts, whatever stops or loses its locks.
THEOREM BackedRefusals == Spec => []RejectionsAreBacked
<1>1. Init => ClaimInv /\ SettledInv /\ CaseInv /\ RefusalInv
  BY ClaimInit, SettledInit, CaseInit, RefusalInit
<1>2. RefusalInv => RejectionsAreBacked
  BY DEF RefusalInv
<1> QED BY <1>1, <1>2, ClaimStep, SettledStep, CaseInvStep, RefusalStep, PTL DEF Spec

--------------------------------------------------------------------------------
(* How far a request is *)

\* Of a case of the control spine, by its phase and by the results on record, and of
\* a request that holds so many of its two locks and whose case is so far.
ToolCount == Cardinality(Spine!Tools)

Along(phase, asked) ==
  CASE phase = "none" -> 0
    [] phase = "open" -> IF asked THEN 2 ELSE 1
    [] OTHER -> 3

Reached(pc, held, along) ==
  CASE pc = "idle" -> 0
    [] pc = "locking" -> 1 + held
    [] pc = "select" -> 4
    [] pc \in {"reject", "insert"} -> 5
    [] pc = "record" -> 6
    [] pc = "intake" -> 7 + along
    [] pc = "reasoning" -> 11 + ToolCount
    [] pc = "complete" -> 12 + ToolCount
    [] pc = "unlock" -> 15 + ToolCount - held
    [] OTHER -> 16 + ToolCount

PhaseProgress(r) == Along(investigation[r].phase, r \in consulted)
CaseProgress(r) == PhaseProgress(r) + Cardinality(results[r])

HeldLocks(p) ==
  (IF lock[KeyOf[p]] = p THEN 1 ELSE 0) + (IF lock[CaseOf[p]] = p THEN 1 ELSE 0)

Progress(p) == Reached(call[p].pc, HeldLocks(p), CaseProgress(call[p].run))

LEMMA ToolsCounted ==
  /\ ToolCount \in Nat
  /\ \A S \in SUBSET Spine!Tools : Cardinality(S) \in 0..ToolCount
  /\ \A S \in SUBSET Spine!Tools : \A t \in Spine!Tools \ S :
       Cardinality(S \cup {t}) = Cardinality(S) + 1
<1>1. IsFiniteSet(Spine!Tools)
  BY ToolAssumption, FS_AddElement DEF Spine!Tools
<1>2. ToolCount \in Nat
  BY <1>1, FS_CardinalityType DEF ToolCount
<1>3. ASSUME NEW S \in SUBSET Spine!Tools
      PROVE  /\ Cardinality(S) \in 0..ToolCount
             /\ \A t \in Spine!Tools \ S : Cardinality(S \cup {t}) = Cardinality(S) + 1
  <2>1. IsFiniteSet(S) /\ Cardinality(S) <= ToolCount
    BY <1>1, FS_Subset DEF ToolCount
  <2>2. Cardinality(S) \in Nat
    BY <2>1, FS_CardinalityType
  <2>3. \A t \in Spine!Tools \ S : Cardinality(S \cup {t}) = Cardinality(S) + 1
    BY <2>1, FS_AddElement
  <2> QED BY <1>2, <2>1, <2>2, <2>3
<1> QED BY <1>2, <1>3

LEMMA ReachedIs ==
  ASSUME NEW held \in 0..2, NEW along
  PROVE  /\ Reached("idle", held, along) = 0 /\ Reached("locking", held, along) \in 1..3
         /\ Reached("select", held, along) = 4
         /\ Reached("reject", held, along) = 5 /\ Reached("insert", held, along) = 5
         /\ Reached("record", held, along) = 6
         /\ along \in 0..(3 + ToolCount) =>
              Reached("intake", held, along) \in 7..(10 + ToolCount)
         /\ Reached("reasoning", held, along) = 11 + ToolCount
         /\ Reached("complete", held, along) = 12 + ToolCount
         /\ Reached("unlock", held, along) \in (13 + ToolCount)..(15 + ToolCount)
         /\ Reached("done", held, along) = 16 + ToolCount
         /\ Reached("stopped", held, along) = 16 + ToolCount
BY ToolsCounted DEF Reached

LEMMA ReachedWithin ==
  ASSUME NEW pc \in Pc, NEW held \in 0..2, NEW along,
         pc = "intake" => along \in 0..(3 + ToolCount)
  PROVE  /\ Reached(pc, held, along) \in 0..(16 + ToolCount)
         /\ pc \notin {"done", "stopped"} => Reached(pc, held, along) < 16 + ToolCount
<1>1. pc \in {"idle", "locking", "select", "reject", "insert", "record", "intake", "reasoning",
              "complete", "unlock", "done", "stopped"}
  BY DEF Pc, Live
<1> QED BY <1>1, ReachedIs, ToolsCounted

\* A case only goes on, and goes on whenever a request has it worked on.
LEMMA PhasesGoOn ==
  ASSUME TypeInv, NEW p \in Caller, Begin(p) \/ Step(p) \/ LoseLock(p) \/ Stop(p),
         NEW r \in Caller
  PROVE  /\ PhaseProgress(r) \in 0..3 /\ PhaseProgress(r)' \in 0..3
         /\ PhaseProgress(r) <= PhaseProgress(r)'
         /\ Intake(p) /\ r = call[p].run => PhaseProgress(r) < PhaseProgress(r)'
         /\ ~Intake(p) => PhaseProgress(r)' = PhaseProgress(r)
<1> DEFINE asked == r \in consulted
           askedNext == r \in consulted'
<1>1. PhaseProgress(r) = Along(investigation[r].phase, asked)
      /\ PhaseProgress(r)' = Along(investigation'[r].phase, askedNext)
  BY DEF PhaseProgress
<1>2. \A phase : Along(phase, asked) \in 0..3 /\ Along(phase, askedNext) \in 0..3
  BY DEF Along
<1>3. CASE ~Intake(p)
  <2>1. UNCHANGED <<investigation, consulted>>
    BY <1>3 DEF Begin, Step, TakeLock, RefuseIdentity, Observe, FindNothing, Reject, Insert,
                RecordStart, ReadOutcome, ReadReasoning, Complete, Unlock, FailToUnlock, LoseLock,
                Stop, RecordResult, Spine!Record
  <2>2. PhaseProgress(r)' = PhaseProgress(r)
    BY <2>1 DEF PhaseProgress
  <2> QED BY <1>1, <1>2, <1>3, <2>2
<1>4. CASE Intake(p)
  <2> DEFINE s == call[p].run
  <2>1. s \in Caller /\ (Spine!Open(s) \/ Spine!Consult(s) \/ Spine!Recommend(s) \/ Spine!Escalate(s))
    BY <1>4 DEF Intake, TypeInv, WorkOK, Claimed
  <2>2. investigation \in [Caller ->
          [phase : {"none", "open", "recommended", "escalated"},
           mode : {"human_review", "shadow"}, draft : Draft \cup {None}]]
    BY DEF TypeInv, TypeOK
  <2> HIDE DEF s
  <2>3. CASE r # s
    <3>1. investigation'[r] = investigation[r] /\ (askedNext <=> asked)
      BY <2>1, <2>2, <2>3 DEF Spine!Open, Spine!Consult, Spine!Recommend, Spine!Escalate
    <3>2. PhaseProgress(r)' = PhaseProgress(r)
      BY <1>1, <3>1 DEF Along
    <3> QED BY <1>1, <1>2, <1>4, <2>3, <3>2 DEF s
  <2>4. CASE r = s
    <3>1. CASE Spine!Open(s)
      <4>1. investigation[r].phase = "none" /\ investigation'[r].phase = "open"
        BY <2>1, <2>2, <2>4, <3>1 DEF Spine!Open, Spine!NoCase
      <4>2. PhaseProgress(r) = 0 /\ PhaseProgress(r)' \in {1, 2}
        BY <1>1, <4>1 DEF Along
      <4> QED BY <1>4, <4>2
    <3>2. CASE Spine!Consult(s)
      <4>1. /\ investigation[r].phase = "open" /\ investigation'[r].phase = "open"
            /\ ~asked /\ askedNext
        BY <2>4, <3>2 DEF Spine!Consult
      <4>2. PhaseProgress(r) = 1 /\ PhaseProgress(r)' = 2
        BY <1>1, <4>1 DEF Along
      <4> QED BY <1>4, <4>2
    <3>3. CASE Spine!Recommend(s) \/ Spine!Escalate(s)
      <4>1. /\ investigation[r].phase = "open"
            /\ investigation'[r].phase \in {"recommended", "escalated"}
        BY <2>1, <2>2, <2>4, <3>3 DEF Spine!Recommend, Spine!Escalate
      <4>2. PhaseProgress(r) \in {1, 2} /\ PhaseProgress(r)' = 3
        BY <1>1, <4>1 DEF Along
      <4> QED BY <1>4, <4>2
    <3> QED BY <2>1, <3>1, <3>2, <3>3
  <2> QED BY <2>3, <2>4
<1> QED BY <1>3, <1>4

LEMMA ResultsGoOn ==
  ASSUME TypeInv, TypeInv', NEW p \in Caller, Begin(p) \/ Step(p) \/ LoseLock(p) \/ Stop(p),
         NEW r \in Caller
  PROVE  /\ Cardinality(results[r]) \in 0..ToolCount /\ Cardinality(results'[r]) \in 0..ToolCount
         /\ Cardinality(results[r]) <= Cardinality(results'[r])
         /\ RecordResult(p) /\ r = call[p].run =>
              Cardinality(results[r]) < Cardinality(results'[r])
         /\ ~RecordResult(p) => results'[r] = results[r]
<1>1. results[r] \in SUBSET Spine!Tools /\ results'[r] \in SUBSET Spine!Tools
  BY DEF TypeInv, TypeOK
<1>2. Cardinality(results[r]) \in 0..ToolCount /\ Cardinality(results'[r]) \in 0..ToolCount
  BY <1>1, ToolsCounted
<1>3. CASE ~RecordResult(p)
  <2>1. UNCHANGED results
    BY <1>3 DEF Begin, Step, TakeLock, RefuseIdentity, Observe, FindNothing, Reject, Insert,
                RecordStart, Intake, Spine!Open, Spine!Consult, Spine!Recommend, Spine!Escalate,
                ReadOutcome, ReadReasoning, Complete, Unlock, FailToUnlock, LoseLock, Stop
  <2> QED BY <1>2, <1>3, <2>1
<1>4. CASE RecordResult(p)
  <2>1. PICK t \in Spine!Tools : Spine!Record(call[p].run, t)
    BY <1>4 DEF RecordResult
  <2>2. /\ call[p].run \in Caller /\ t \notin results[call[p].run]
        /\ results' = [results EXCEPT ![call[p].run] = @ \cup {t}]
    BY <1>4, <2>1 DEF RecordResult, Spine!Record, TypeInv, WorkOK, Claimed
  <2>3. CASE r = call[p].run
    <3>1. results'[r] = results[r] \cup {t} /\ t \in Spine!Tools \ results[r]
      BY <2>2, <2>3 DEF TypeInv, TypeOK
    <3>2. Cardinality(results'[r]) = Cardinality(results[r]) + 1
      BY <1>1, <3>1, ToolsCounted
    <3> QED BY <1>2, <1>4, <3>2
  <2>4. CASE r # call[p].run
    <3>1. results'[r] = results[r]
      BY <2>2, <2>4 DEF TypeInv, TypeOK
    <3> QED BY <1>2, <2>4, <3>1
  <2> QED BY <2>3, <2>4
<1> QED BY <1>3, <1>4

LEMMA CasesGoOn ==
  ASSUME TypeInv, TypeInv', NEW p \in Caller, Begin(p) \/ Step(p) \/ LoseLock(p) \/ Stop(p),
         NEW r \in Caller
  PROVE  /\ CaseProgress(r) \in 0..(3 + ToolCount) /\ CaseProgress(r)' \in 0..(3 + ToolCount)
         /\ CaseProgress(r) <= CaseProgress(r)'
         /\ (Intake(p) \/ RecordResult(p)) /\ r = call[p].run =>
              CaseProgress(r) < CaseProgress(r)'
<1> DEFINE a == PhaseProgress(r)
           b == PhaseProgress(r)'
           m == Cardinality(results[r])
           n == Cardinality(results'[r])
<1>1. CaseProgress(r) = a + m /\ CaseProgress(r)' = b + n
  BY DEF CaseProgress
<1>2. /\ a \in 0..3 /\ b \in 0..3 /\ a <= b
      /\ Intake(p) /\ r = call[p].run => a < b
  BY PhasesGoOn
<1>3. /\ m \in 0..ToolCount /\ n \in 0..ToolCount /\ m <= n
      /\ RecordResult(p) /\ r = call[p].run => m < n
  BY ResultsGoOn
<1> HIDE DEF a, b, m, n
<1> QED BY <1>1, <1>2, <1>3, ToolsCounted

LEMMA ReachedParts ==
  ASSUME NEW pc, NEW held \in 0..2, NEW along, pc = "intake" => along \in 0..(3 + ToolCount)
  PROVE  \E h \in 0..2, a \in 0..(3 + ToolCount) : Reached(pc, held, along) = Reached(pc, h, a)
<1>1. CASE pc = "intake"
  BY <1>1
<1>2. CASE pc # "intake"
  <2>1. Reached(pc, held, along) = Reached(pc, held, 0)
    BY <1>2 DEF Reached
  <2>2. 0 \in 0..(3 + ToolCount)
    BY ToolsCounted
  <2> QED BY <2>1, <2>2
<1> QED BY <1>1, <1>2

\* The progress of a case, as far as a request at work can tell.
LEMMA CaseWithin ==
  ASSUME TypeInv, NEW r \in Caller
  PROVE  CaseProgress(r) \in 0..(3 + ToolCount)
<1>1. PhaseProgress(r) \in 0..3
  BY DEF PhaseProgress, Along
<1>2. Cardinality(results[r]) \in 0..ToolCount
  BY ToolsCounted DEF TypeInv, TypeOK
<1> QED BY <1>1, <1>2, ToolsCounted DEF CaseProgress

LEMMA ProgressParts ==
  ASSUME TypeInv, TypeInv', NEW p \in Caller
  PROVE  /\ \E h \in 0..2, a \in 0..(3 + ToolCount) : Progress(p) = Reached(call[p].pc, h, a)
         /\ \E h \in 0..2, a \in 0..(3 + ToolCount) : Progress(p)' = Reached(call'[p].pc, h, a)
<1>1. HeldLocks(p) \in 0..2 /\ HeldLocks(p)' \in 0..2
  BY DEF HeldLocks
<1>2. \A r \in Caller : CaseProgress(r) \in 0..(3 + ToolCount)
  BY CaseWithin
<1>3. \A r \in Caller : CaseProgress(r)' \in 0..(3 + ToolCount)
  <2> SUFFICES ASSUME NEW r \in Caller PROVE CaseProgress(r)' \in 0..(3 + ToolCount)
    OBVIOUS
  <2>1. PhaseProgress(r)' \in 0..3
    BY DEF PhaseProgress, Along
  <2>2. Cardinality(results'[r]) \in 0..ToolCount
    BY ToolsCounted DEF TypeInv, TypeOK
  <2>3. CaseProgress(r)' = PhaseProgress(r)' + Cardinality(results'[r])
    BY DEF CaseProgress
  <2> QED BY <2>1, <2>2, <2>3, ToolsCounted
<1>4. call[p].pc = "intake" => CaseProgress(call[p].run) \in 0..(3 + ToolCount)
  BY <1>2 DEF TypeInv, WorkOK, Claimed
<1>5. call'[p].pc = "intake" => CaseProgress(call[p].run)' \in 0..(3 + ToolCount)
  <2>1. ASSUME NEW r \in Caller, r = call'[p].run
        PROVE  CaseProgress(call[p].run)' \in 0..(3 + ToolCount)
    <3>1. CaseProgress(call[p].run)' = CaseProgress(r)'
      BY <2>1 DEF CaseProgress, PhaseProgress
    <3> QED BY <1>3, <3>1
  <2>2. call'[p].pc = "intake" => call'[p].run \in Caller
    BY DEF TypeInv, WorkOK, Claimed
  <2> QED BY <2>1, <2>2
<1>6. Progress(p) = Reached(call[p].pc, HeldLocks(p), CaseProgress(call[p].run))
  BY DEF Progress
<1>7. Progress(p)' = Reached(call'[p].pc, HeldLocks(p)', CaseProgress(call[p].run)')
  BY DEF Progress
<1>8. \E h \in 0..2, a \in 0..(3 + ToolCount) : Progress(p) = Reached(call[p].pc, h, a)
  BY <1>1, <1>4, <1>6, ReachedParts
<1>9. \E h \in 0..2, a \in 0..(3 + ToolCount) : Progress(p)' = Reached(call'[p].pc, h, a)
  BY <1>1, <1>5, <1>7, ReachedParts
<1> QED BY <1>8, <1>9

\* The locks a request holds are counted the same before and after, but for its own
\* taking and giving.
LEMMA TakesOne ==
  ASSUME TypeOK, NEW p \in Caller, TakeLock(p)
  PROVE  HeldLocks(p) < HeldLocks(p)'
<1>1. PICK l \in LocksOf(p) : lock[l] = None /\ lock' = [lock EXCEPT ![l] = p]
  BY DEF TakeLock, Granted
<1>2. p # None /\ KeyOf[p] # CaseOf[p] /\ KeyOf[p] \in Lock /\ CaseOf[p] \in Lock
  BY NoneAssumption, RequestAssumption, LockAssumption DEF Lock
<1>3. \A m \in Lock : lock'[m] = IF m = l THEN p ELSE lock[m]
  BY <1>1 DEF TypeOK
<1>4. l = KeyOf[p] \/ l = CaseOf[p]
  BY <1>1 DEF LocksOf
<1> QED BY <1>1, <1>2, <1>3, <1>4 DEF HeldLocks

LEMMA GivesOne ==
  ASSUME TypeOK, NEW p \in Caller, Unlock(p)
  PROVE  HeldLocks(p)' < HeldLocks(p)
<1>1. PICK l \in LocksOf(p) : lock[l] = p /\ lock' = [lock EXCEPT ![l] = None]
  BY DEF Unlock
<1>2. p # None /\ KeyOf[p] # CaseOf[p] /\ KeyOf[p] \in Lock /\ CaseOf[p] \in Lock
  BY NoneAssumption, RequestAssumption, LockAssumption DEF Lock
<1>3. \A m \in Lock : lock'[m] = IF m = l THEN None ELSE lock[m]
  BY <1>1 DEF TypeOK
<1>4. l = KeyOf[p] \/ l = CaseOf[p]
  BY <1>1 DEF LocksOf
<1> QED BY <1>1, <1>2, <1>3, <1>4 DEF HeldLocks

\* The order of the pcs.
Order(pc) ==
  CASE pc = "idle" -> 0 [] pc = "locking" -> 1 [] pc = "select" -> 4
    [] pc \in {"reject", "insert"} -> 5 [] pc = "record" -> 6 [] pc = "intake" -> 7
    [] pc = "reasoning" -> 11 + ToolCount [] pc = "complete" -> 12 + ToolCount
    [] pc = "unlock" -> 13 + ToolCount [] OTHER -> 16 + ToolCount

\* From one pc to a later one, whatever is held and however far the case is.
LEMMA LaterPc ==
  ASSUME TypeInv, TypeInv', NEW p \in Caller, call[p].pc \in Pc, call'[p].pc \in Pc,
         Order(call[p].pc) < Order(call'[p].pc)
  PROVE  Progress(p) < Progress(p)'
<1>1. PICK h \in 0..2, a \in 0..(3 + ToolCount) : Progress(p) = Reached(call[p].pc, h, a)
  BY ProgressParts
<1>2. PICK n \in 0..2, b \in 0..(3 + ToolCount) : Progress(p)' = Reached(call'[p].pc, n, b)
  BY ProgressParts
<1> DEFINE Last(pc) == CASE pc = "locking" -> 3 [] pc = "intake" -> 10 + ToolCount
                         [] pc = "unlock" -> 15 + ToolCount [] OTHER -> Order(pc)
<1>3. \A pc \in Pc : \A x \in 0..2, y \in 0..(3 + ToolCount) :
        Order(pc) <= Reached(pc, x, y) /\ Reached(pc, x, y) <= Last(pc) /\ Reached(pc, x, y) \in Int
  BY ReachedIs, ToolsCounted DEF Pc, Live, Order
<1>4. \A pc, next \in Pc : Order(pc) < Order(next) => Last(pc) < Order(next)
                                                      /\ Last(pc) \in Int /\ Order(next) \in Int
  BY ToolsCounted DEF Pc, Live, Order
<1> HIDE DEF Last
<1> QED BY <1>1, <1>2, <1>3, <1>4

\* A step brings its own request forward; the loss of its locks leaves it where it is,
\* and its end is the farthest it gets.
LEMMA OwnProgress ==
  ASSUME TypeInv, TypeInv', NEW p \in Caller, Begin(p) \/ Step(p) \/ LoseLock(p) \/ Stop(p)
  PROVE  /\ Progress(p) <= Progress(p)'
         /\ Begin(p) \/ Step(p) => Progress(p) < Progress(p)'
<1> DEFINE c == call[p]
           d == call'[p]
<1>0. TypeOK /\ c.pc \in Pc /\ d.pc \in Pc
  BY CallFields DEF TypeInv, TypeOK, Call, Pc, Live
<1>1. ASSUME Order(c.pc) < Order(d.pc)
      PROVE  Progress(p) <= Progress(p)' /\ Progress(p) < Progress(p)'
  <2>1. Progress(p) < Progress(p)'
    BY <1>0, <1>1, LaterPc
  <2>2. Progress(p) \in Int /\ Progress(p)' \in Int
    BY <1>0, ProgressParts, ReachedWithin, ToolsCounted
  <2> QED BY <2>1, <2>2
<1>2. CASE Begin(p)
  <2>1. c.pc = "idle" /\ d.pc = "locking"
    <3>1. Moved(p, "locking", c.run, c.result, c.lost, c.answer)
      BY <1>0, <1>2, MoveOf
    <3> QED BY <1>0, <1>2, <3>1, MovedTo DEF Begin, To
  <2> QED BY <1>1, <2>1, ToolsCounted DEF Order
<1>3. CASE TakeLock(p)
  <2>1. PICK pc \in {"select", "locking"} : Moved(p, pc, c.run, c.result, c.lost, c.answer)
    BY <1>0, <1>3, MoveOf
  <2>2. c.pc = "locking" /\ d.pc \in {"select", "locking"}
    BY <1>0, <1>3, <2>1, MovedTo DEF TakeLock, To
  <2>3. CASE d.pc = "locking"
    <3>1. HeldLocks(p) < HeldLocks(p)' /\ HeldLocks(p) \in Int /\ HeldLocks(p)' \in Int
      BY <1>0, <1>3, TakesOne DEF HeldLocks
    <3>2. Progress(p) = 1 + HeldLocks(p) /\ Progress(p)' = 1 + HeldLocks(p)'
      BY <2>2, <2>3 DEF Progress, Reached
    <3> QED BY <3>1, <3>2
  <2>4. CASE d.pc = "select"
    BY <1>1, <2>2, <2>4, ToolsCounted DEF Order
  <2> QED BY <2>2, <2>3, <2>4
<1>4. CASE RefuseIdentity(p) \/ FindNothing(p) \/ Reject(p)
  <2>1. PICK pc, result, answer :
          Moved(p, pc, c.run, result, c.lost, answer) /\ pc \in {"unlock", "insert"}
    BY <1>0, <1>4, MoveOf
  <2>2. d.pc \in {"unlock", "insert"}
    BY <1>0, <2>1, MovedTo DEF To
  <2>3. CASE Reject(p)
    <3>1. c.pc = "reject" /\ d.pc = "unlock"
      <4>1. Moved(p, "unlock", c.run, None, c.lost, "idempotency_conflict")
        BY <1>0, <2>3, MoveOf
      <4>2. c.pc = "reject"
        BY <2>3 DEF Reject
      <4> QED BY <1>0, <4>1, <4>2, MovedTo DEF To
    <3> QED BY <1>1, <3>1, ToolsCounted DEF Order
  <2>4. CASE RefuseIdentity(p) \/ FindNothing(p)
    <3>1. c.pc = "select"
      BY <2>4 DEF RefuseIdentity, FindNothing
    <3> QED BY <1>1, <2>2, <3>1, ToolsCounted DEF Order
  <2> QED BY <1>4, <2>3, <2>4
<1>5. CASE Insert(p) \/ RecordStart(p) \/ Complete(p)
  <2>1. CASE Insert(p)
    <3>1. PICK pc, run, result, answer :
            Moved(p, pc, run, result, c.lost, answer) /\ pc \in {"record", "unlock"}
      BY <1>0, <2>1, MoveOf
    <3>2. c.pc = "insert"
      BY <2>1 DEF Insert
    <3>3. d.pc \in {"record", "unlock"}
      BY <1>0, <3>1, MovedTo DEF To
    <3> QED BY <1>1, <3>2, <3>3, ToolsCounted DEF Order
  <2>2. CASE RecordStart(p)
    <3>1. Moved(p, "intake", c.run, c.result, c.lost, c.answer)
      BY <1>0, <2>2, MoveOf
    <3>2. c.pc = "record"
      BY <2>2 DEF RecordStart
    <3>3. d.pc = "intake"
      BY <1>0, <3>1, MovedTo DEF To
    <3> QED BY <1>1, <3>2, <3>3, ToolsCounted DEF Order
  <2>3. CASE Complete(p)
    <3>1. PICK result, answer : Moved(p, "unlock", c.run, result, c.lost, answer)
      BY <1>0, <2>3, MoveOf
    <3>2. c.pc = "complete"
      BY <2>3 DEF Complete
    <3>3. d.pc = "unlock"
      BY <1>0, <3>1, MovedTo DEF To
    <3> QED BY <1>1, <3>2, <3>3, ToolsCounted DEF Order
  <2> QED BY <1>5, <2>1, <2>2, <2>3
<1>6. CASE Observe(p)
  <2>1. PICK pc, run, result, answer :
          Moved(p, pc, run, result, c.lost, answer) /\ pc \in {"reject", "unlock", "intake"}
    BY <1>0, <1>6, MoveOfObserve
  <2>2. c.pc = "select" /\ d.pc \in {"reject", "unlock", "intake"}
    BY <1>0, <1>6, <2>1, MovedTo DEF Observe, To
  <2> QED BY <1>1, <2>2, ToolsCounted DEF Order
<1>7. CASE Intake(p) \/ RecordResult(p)
  <2>1. c.pc = "intake" /\ c.run \in Caller /\ UNCHANGED <<lock, call>>
    BY <1>7 DEF Intake, RecordResult, TypeInv, WorkOK, Claimed
  <2>2. ASSUME NEW r \in Caller, r = c.run
        PROVE  Progress(p) < Progress(p)' /\ Progress(p) \in Int /\ Progress(p)' \in Int
    <3>1. /\ CaseProgress(r) < CaseProgress(r)'
          /\ CaseProgress(r) \in 0..(3 + ToolCount) /\ CaseProgress(r)' \in 0..(3 + ToolCount)
      BY <1>7, <2>2, CasesGoOn
    <3>2. Progress(p) = 7 + CaseProgress(r)
      BY <2>1, <2>2 DEF Progress, Reached
    <3>3. Progress(p)' = 7 + CaseProgress(r)'
      BY <2>1, <2>2 DEF Progress, Reached, CaseProgress, PhaseProgress
    <3> QED BY <3>1, <3>2, <3>3, ToolsCounted
  <2> QED BY <2>1, <2>2
<1>8. CASE ReadOutcome(p) \/ ReadReasoning(p)
  <2>1. \/ c.pc = "intake" /\ d.pc = "reasoning"
        \/ c.pc = "reasoning" /\ d.pc = "complete"
    <3>1. CASE ReadOutcome(p)
      <4>1. PICK result : Moved(p, "reasoning", c.run, result, c.lost, c.answer)
        BY <1>0, <3>1, MoveOfOutcome
      <4>2. d.pc = "reasoning"
        BY <1>0, <4>1, MovedTo DEF To
      <4>3. c.pc = "intake"
        BY <3>1 DEF ReadOutcome
      <4> QED BY <4>2, <4>3
    <3>2. CASE ReadReasoning(p)
      <4>1. PICK result : Moved(p, "complete", c.run, result, c.lost, c.answer)
        BY <1>0, <3>2, MoveOfOutcome
      <4>2. d.pc = "complete"
        BY <1>0, <4>1, MovedTo DEF To
      <4>3. c.pc = "reasoning"
        BY <3>2 DEF ReadReasoning
      <4> QED BY <4>2, <4>3
    <3> QED BY <1>8, <3>1, <3>2
  <2> QED BY <1>1, <2>1, ToolsCounted DEF Order
<1>9. CASE Unlock(p)
  <2>1. PICK pc \in {"unlock", "done"} : Moved(p, pc, c.run, c.result, c.lost, c.answer)
    BY <1>0, <1>9, MoveOf
  <2>2. c.pc = "unlock" /\ d.pc \in {"unlock", "done"}
    BY <1>0, <1>9, <2>1, MovedTo DEF Unlock, To
  <2>3. CASE d.pc = "unlock"
    <3>1. HeldLocks(p)' < HeldLocks(p) /\ HeldLocks(p) \in Int /\ HeldLocks(p)' \in Int
      BY <1>0, <1>9, GivesOne DEF HeldLocks
    <3>2. /\ Progress(p) = 15 + ToolCount - HeldLocks(p)
          /\ Progress(p)' = 15 + ToolCount - HeldLocks(p)'
      BY <2>2, <2>3 DEF Progress, Reached
    <3> QED BY <3>1, <3>2, ToolsCounted
  <2>4. CASE d.pc = "done"
    BY <1>1, <2>2, <2>4, ToolsCounted DEF Order
  <2> QED BY <2>2, <2>3, <2>4
<1>10. CASE FailToUnlock(p)
  <2>1. Moved(p, "done", c.run, None, c.lost, "connection_lost") /\ c.pc = "unlock"
    BY <1>0, <1>10, MoveOfOutcome DEF FailToUnlock
  <2>2. d.pc = "done"
    BY <1>0, <2>1, MovedTo DEF To
  <2> QED BY <1>1, <2>1, <2>2, ToolsCounted DEF Order
<1>11. CASE LoseLock(p)
  <2>1. Moved(p, c.pc, c.run, c.result, TRUE, c.answer) /\ c.pc \in Claimed
        /\ UNCHANGED <<investigation, consulted, results>>
    BY <1>0, <1>11, MoveOfOutcome DEF LoseLock
  <2>2. d.pc = c.pc /\ d.run = c.run
    BY <1>0, <2>1, MovedTo DEF To
  <2>3. Progress(p)' = Progress(p)
    <3>1. CASE c.pc = "intake"
      <4>1. Progress(p) = 7 + CaseProgress(c.run)
        BY <3>1 DEF Progress, Reached
      <4>2. Progress(p)' = 7 + CaseProgress(call[p].run)'
        BY <2>2, <3>1 DEF Progress, Reached
      <4>3. CaseProgress(call[p].run)' = CaseProgress(c.run)
        BY <2>1, <2>2 DEF CaseProgress, PhaseProgress
      <4> QED BY <4>1, <4>2, <4>3
    <3>2. CASE c.pc \in {"reasoning", "complete"}
      BY <2>2, <3>2 DEF Progress, Reached
    <3> QED BY <2>1, <3>1, <3>2 DEF Claimed
  <2>4. (~Begin(p) /\ ~Step(p)) \/ Progress(p) < Progress(p)'
    BY <1>2, <1>3, <1>4, <1>5, <1>6, <1>7, <1>8, <1>9, <1>10 DEF Step
  <2>5. Progress(p) \in Int
    BY <1>0, ProgressParts, ReachedWithin, ToolsCounted
  <2> QED BY <2>3, <2>4, <2>5
<1>12. CASE Stop(p)
  <2>1. Moved(p, "stopped", c.run, c.result, c.lost, c.answer)
        /\ c.pc \in Pc \ {"idle", "done", "stopped"}
    BY <1>0, <1>12, MoveOf DEF Stop
  <2>2. d.pc = "stopped"
    BY <1>0, <2>1, MovedTo DEF To
  <2>3. Order(c.pc) < Order(d.pc)
    BY <2>1, <2>2, ToolsCounted DEF Order, Pc, Live
  <2> QED BY <1>1, <2>3
<1> QED BY <1>2, <1>3, <1>4, <1>5, <1>6, <1>7, <1>8, <1>9, <1>10, <1>11, <1>12 DEF Step

\* What others do brings a request no further but where they work on its case, and
\* never back.
LEMMA OthersProgress ==
  ASSUME TypeInv, TypeInv', NEW p \in Caller, Begin(p) \/ Step(p) \/ LoseLock(p) \/ Stop(p),
         NEW q \in Caller, q # p
  PROVE  Progress(q) <= Progress(q)'
<1>1. TypeOK /\ call'[q] = call[q] /\ call[q].pc \in Pc
  BY OthersStay, CallFields DEF TypeInv
<1>2. HeldLocks(q)' = HeldLocks(q)
  <2>1. KeyOf[q] \in Lock /\ CaseOf[q] \in Lock
    BY RequestAssumption DEF Lock
  <2> QED BY <1>1, <2>1, OthersLocks DEF HeldLocks
<1>3. CASE call[q].pc # "intake"
  <2>1. Progress(q)' = Progress(q)
    BY <1>1, <1>2, <1>3 DEF Progress, Reached
  <2>2. Progress(q) \in Int
    BY <1>1, ProgressParts, ReachedWithin, ToolsCounted
  <2> QED BY <2>1, <2>2
<1>4. CASE call[q].pc = "intake"
  <2>1. call[q].run \in Caller
    BY <1>4 DEF TypeInv, WorkOK, Claimed
  <2>2. ASSUME NEW r \in Caller, r = call[q].run PROVE Progress(q) <= Progress(q)'
    <3>1. /\ CaseProgress(r) <= CaseProgress(r)'
          /\ CaseProgress(r) \in 0..(3 + ToolCount) /\ CaseProgress(r)' \in 0..(3 + ToolCount)
      BY CasesGoOn
    <3>2. Progress(q) = 7 + CaseProgress(r)
      BY <1>4, <2>2 DEF Progress, Reached
    <3>3. Progress(q)' = 7 + CaseProgress(r)'
      BY <1>1, <1>4, <2>2 DEF Progress, Reached, CaseProgress, PhaseProgress
    <3> QED BY <3>1, <3>2, <3>3, ToolsCounted
  <2> QED BY <2>1, <2>2
<1> QED BY <1>3, <1>4

\* No request goes round in begin_or_observe and process: each of its own steps brings
\* it forward, whoever shares its locks or its run, stops or loses its locks, and it
\* has at most 16 to go, and one for each tool.  With NoDeadlock, some of the requests
\* under way can always go on and all of them have only so far to go.
RequestsRunDown ==
  [][\A p \in Caller :
       /\ Progress(p) <= Progress(p)' /\ Progress(p)' \in 0..(16 + ToolCount)
       /\ Begin(p) \/ Step(p) => Progress(p) < Progress(p)']_vars

THEOREM RequestsEnd == Spec => RequestsRunDown
<1>1. ASSUME TypeInv, TypeInv', Next, NEW q \in Caller
      PROVE  /\ Progress(q) <= Progress(q)' /\ Progress(q)' \in 0..(16 + ToolCount)
             /\ Begin(q) \/ Step(q) => Progress(q) < Progress(q)'
  <2>1. PICK p \in Caller : Begin(p) \/ Step(p) \/ LoseLock(p) \/ Stop(p)
    BY <1>1 DEF Next
  <2>2. Progress(q)' \in 0..(16 + ToolCount)
    <3>1. call'[q].pc \in Pc
      BY <1>1 DEF TypeInv, TypeOK, Call, Pc, Live
    <3> QED BY <1>1, <3>1, ProgressParts, ReachedWithin, ToolsCounted
  <2>3. CASE Begin(q) \/ Step(q) \/ LoseLock(q) \/ Stop(q)
    BY <1>1, <2>2, <2>3, OwnProgress
  <2>4. CASE ~(Begin(q) \/ Step(q) \/ LoseLock(q) \/ Stop(q))
    BY <1>1, <2>1, <2>2, <2>4, OthersProgress
  <2> QED BY <2>3, <2>4
<1>2. TypeInv /\ TypeInv' /\ Next =>
        \A p \in Caller :
          /\ Progress(p) <= Progress(p)' /\ Progress(p)' \in 0..(16 + ToolCount)
          /\ Begin(p) \/ Step(p) => Progress(p) < Progress(p)'
  BY <1>1
<1> QED BY <1>2, TypeInit, TypeStep, PTL DEF Spec, RequestsRunDown

================================================================================
