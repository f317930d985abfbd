------------------------ MODULE InvestigationAuditProofs ------------------------
(***************************************************************************)
(* Proofs about what Investigation leaves in its log, for any number of    *)
(* requests and review calls: the replay ends in the state of the run, the *)
(* codes of escalations are true, and the spine implements                 *)
(* InvestigationCase.                                                      *)
(***************************************************************************)
EXTENDS InvestigationProofs, FiniteSetTheorems

--------------------------------------------------------------------------------
(* Logs as paths *)

CountedIn(h) == {i \in DOMAIN h : CountsInReplay(h[i])}

IsLast(C, i) == i \in C /\ \A j \in C : j <= i
LastOf(C) == CHOOSE i \in C : \A j \in C : j <= i

\* The event i of h goes on where the counted event before it ended.
Continues(h, i) ==
  /\ h[i].to \in TRANSITIONS[h[i].from]
  /\ \E j \in CountedIn(h) : /\ j < i /\ h[j].to = h[i].from
                             /\ \A k \in CountedIn(h) : k <= j \/ k >= i

\* The counted events of h lead from the creation of a run to state in version steps.
IsPath(h, state, version) ==
  /\ Len(h) > 0 /\ h[1] = [from |-> None, to |-> "created", code |-> None]
  /\ \A i \in CountedIn(h) \ {1} : Continues(h, i)
  /\ Cardinality(CountedIn(h)) = version + 1
  /\ \E i : IsLast(CountedIn(h), i) /\ h[i].to = state

LEMMA LastIs ==
  ASSUME NEW C \in SUBSET Int, NEW i, IsLast(C, i)
  PROVE  LastOf(C) = i
<1>1. IsLast(C, LastOf(C))
  BY DEF IsLast, LastOf
<1>2. LastOf(C) \in Int /\ i \in Int /\ LastOf(C) <= i /\ i <= LastOf(C)
  BY <1>1 DEF IsLast
<1> QED BY <1>2

LEMMA CountedAppended ==
  ASSUME NEW h \in Seq(Event), NEW e \in Event
  PROVE  /\ CountedIn(h) \subseteq 1..Len(h) /\ IsFiniteSet(CountedIn(h))
         /\ CountedIn(Append(h, e)) =
              CountedIn(h) \cup {i \in {Len(h) + 1} : CountsInReplay(e)}
         /\ \A i \in 1..Len(h) : Append(h, e)[i] = h[i]
         /\ Append(h, e)[Len(h) + 1] = e
<1>1. /\ DOMAIN Append(h, e) = (DOMAIN h) \cup {Len(h) + 1} /\ DOMAIN h = 1..Len(h)
      /\ \A i \in 1..Len(h) : Append(h, e)[i] = h[i]
      /\ Append(h, e)[Len(h) + 1] = e
  OBVIOUS
<1>2. CountedIn(h) \subseteq 1..Len(h)
  BY <1>1 DEF CountedIn
<1>3. IsFiniteSet(CountedIn(h))
  <2>1. IsFiniteSet(1..Len(h))
    BY FS_Interval
  <2> QED BY <1>2, <2>1, FS_Subset
<1>4. CountedIn(Append(h, e)) = CountedIn(h) \cup {i \in {Len(h) + 1} : CountsInReplay(e)}
  BY <1>1 DEF CountedIn
<1> QED BY <1>1, <1>2, <1>3, <1>4

\* What continues a log continues it when more is appended.
LEMMA StillContinues ==
  ASSUME NEW h \in Seq(Event), NEW e \in Event, NEW i \in CountedIn(h), Continues(h, i)
  PROVE  Continues(Append(h, e), i)
<1> DEFINE g == Append(h, e)
<1>1. /\ CountedIn(h) \subseteq 1..Len(h) /\ Len(h) \in Nat
      /\ CountedIn(g) = CountedIn(h) \cup {k \in {Len(h) + 1} : CountsInReplay(e)}
      /\ \A k \in 1..Len(h) : g[k] = h[k]
  BY CountedAppended
<1> HIDE DEF g
<1>2. PICK j \in CountedIn(h) : /\ j < i /\ h[j].to = h[i].from
                                /\ \A k \in CountedIn(h) : k <= j \/ k >= i
  BY DEF Continues
<1>3. g[i] = h[i] /\ g[j] = h[j] /\ j \in CountedIn(g)
  BY <1>1
<1>4. \A k \in CountedIn(g) : k <= j \/ k >= i
  BY <1>1, <1>2
<1> QED BY <1>2, <1>3, <1>4 DEF Continues, g

\* A rejection moves nothing.
LEMMA PathRejects ==
  ASSUME NEW h \in Seq(Event), NEW e \in Event, e.from = e.to, NEW state, NEW version,
         IsPath(h, state, version)
  PROVE  IsPath(Append(h, e), state, version)
<1> DEFINE g == Append(h, e)
<1>1. /\ CountedIn(h) \subseteq 1..Len(h) /\ CountedIn(g) = CountedIn(h)
      /\ \A k \in 1..Len(h) : g[k] = h[k]
  <2>1. ~CountsInReplay(e)
    BY DEF CountsInReplay
  <2>2. /\ CountedIn(h) \subseteq 1..Len(h)
        /\ CountedIn(g) = CountedIn(h) \cup {i \in {Len(h) + 1} : CountsInReplay(e)}
        /\ \A k \in 1..Len(h) : g[k] = h[k]
    BY CountedAppended
  <2>3. {i \in {Len(h) + 1} : CountsInReplay(e)} = {}
    BY <2>1
  <2> QED BY <2>2, <2>3
<1>2. Len(g) > 0 /\ g[1] = h[1]
  BY <1>1 DEF IsPath
<1>3. \A i \in CountedIn(h) : Continues(h, i) => Continues(g, i)
  BY StillContinues
<1> HIDE DEF g
<1>4. \E i : IsLast(CountedIn(g), i) /\ g[i].to = state
  <2>1. PICK i : IsLast(CountedIn(h), i) /\ h[i].to = state
    BY DEF IsPath
  <2>2. i \in CountedIn(h) /\ g[i] = h[i]
    BY <1>1, <2>1 DEF IsLast
  <2> QED BY <1>1, <2>1, <2>2
<1>5. \A i \in CountedIn(g) \ {1} : Continues(g, i)
  BY <1>1, <1>3 DEF IsPath
<1>6. Cardinality(CountedIn(g)) = version + 1
  BY <1>1 DEF IsPath
<1> QED BY <1>2, <1>4, <1>5, <1>6 DEF IsPath, g

\* A transition from the state the log ends in makes the path one longer.
LEMMA PathAdvances ==
  ASSUME NEW h \in Seq(Event), NEW e \in Event, NEW version \in Nat, e.from \in RunState,
         e.to \in TRANSITIONS[e.from], e.to # e.from, IsPath(h, e.from, version)
  PROVE  IsPath(Append(h, e), e.to, version + 1)
<1> DEFINE g == Append(h, e)
           n == Len(h) + 1
<1>1. /\ CountedIn(h) \subseteq 1..Len(h) /\ IsFiniteSet(CountedIn(h)) /\ Len(h) \in Nat
      /\ CountedIn(g) = CountedIn(h) \cup {n}
      /\ \A k \in 1..Len(h) : g[k] = h[k]
      /\ g[n] = e
  BY CountedAppended DEF CountsInReplay
<1>2. Len(g) > 0 /\ g[1] = h[1]
  BY <1>1 DEF IsPath
<1>3. \A i \in CountedIn(h) : Continues(h, i) => Continues(g, i)
  BY StillContinues
<1> HIDE DEF g
<1>4. Continues(g, n)
  <2>1. PICK j : IsLast(CountedIn(h), j) /\ h[j].to = e.from
    BY DEF IsPath
  <2>2. j \in CountedIn(g) /\ j < n /\ g[j].to = e.from
    BY <1>1, <2>1 DEF IsLast
  <2>3. \A k \in CountedIn(g) : k <= j \/ k >= n
    BY <1>1, <2>1 DEF IsLast
  <2> QED BY <1>1, <2>2, <2>3 DEF Continues
<1>5. Cardinality(CountedIn(g)) = version + 1 + 1
  <2>1. n \notin CountedIn(h)
    BY <1>1
  <2>2. Cardinality(CountedIn(h) \cup {n}) = Cardinality(CountedIn(h)) + 1
    BY <1>1, <2>1, FS_AddElement
  <2> QED BY <1>1, <2>2 DEF IsPath
<1>6. IsLast(CountedIn(g), n) /\ g[n].to = e.to
  BY <1>1 DEF IsLast
<1>7. \A i \in CountedIn(g) \ {1} : Continues(g, i)
  BY <1>1, <1>3, <1>4 DEF IsPath
<1> QED BY <1>2, <1>5, <1>6, <1>7 DEF IsPath, g

LEMMA PathBegins ==
  ASSUME NEW e, e = [from |-> None, to |-> "created", code |-> None], e \in Event
  PROVE  IsPath(Append(<<>>, e), "created", 0)
<1> DEFINE g == Append(<<>>, e)
<1>1. Len(g) = 1 /\ DOMAIN g = {1} /\ g[1] = e
  OBVIOUS
<1>2. CountsInReplay(e)
  BY NoneIsNothingElse DEF CountsInReplay, RunState
<1> HIDE DEF g
<1>3. CountedIn(g) = {1}
  BY <1>1, <1>2 DEF CountedIn
<1>4. Cardinality(CountedIn(g)) = 0 + 1
  BY <1>3, FS_Singleton
<1>5. IsLast(CountedIn(g), 1) /\ g[1].to = "created"
  BY <1>1, <1>3 DEF IsLast
<1> QED BY <1>1, <1>3, <1>4, <1>5 DEF IsPath, g

--------------------------------------------------------------------------------
(* What a step writes to a log *)

ReviewsRead == \A v \in ReviewCall : review[v].pc = "rejecting" => Exists(review[v].run)

Keeps(r) ==
  log'[r] = log[r] /\ run'[r].state = run[r].state /\ run'[r].version = run[r].version

Rejects(r) ==
  /\ Exists(r) /\ run'[r] = run[r]
  /\ \E s \in RunState : log'[r] = Append(log[r], [from |-> s, to |-> s, code |-> None])

Begins(r) ==
  /\ ~Exists(r) /\ run'[r].state = "created" /\ run'[r].version = 0
  /\ log'[r] = Append(log[r], [from |-> None, to |-> "created", code |-> None])

Advances(r, c) ==
  /\ c.run = r /\ c.state \in Working /\ run[r].state = c.state /\ run[r].version \in Nat
  /\ ~(c.code = None /\ c.next <= Len(Work(c.state)))
  /\ run'[r].state = Target(c) /\ run'[r].version = run[r].version + 1
  /\ log'[r] = Append(log[r], [from |-> c.state, to |-> Target(c), code |-> Stop(c)])
  /\ tool' = tool

Decides(r) ==
  /\ run[r].state = "awaiting_human" /\ run[r].version \in Nat
  /\ run'[r].state = "closed" /\ run'[r].version = run[r].version + 2
  /\ \E s \in {"approved", "edited_and_approved", "rejected", "escalated"} :
       log'[r] = Append(Append(log[r], [from |-> "awaiting_human", to |-> s, code |-> None]),
                        [from |-> s, to |-> "closed", code |-> None])

LogWrite(r) ==
  \/ Keeps(r) \/ Rejects(r) \/ Begins(r) \/ Decides(r)
  \/ \E p \in Caller : Advance(p) /\ Advances(r, call[p])

LEMMA RejectsOne ==
  ASSUME TypeOK, NEW x \in Caller, Exists(x), NEW s \in RunState, AppendEvent(x, s, s, None),
         run' = run, NEW r \in Caller
  PROVE  Keeps(r) \/ Rejects(r)
<1>1. log'[r] = IF r = x THEN Append(log[r], [from |-> s, to |-> s, code |-> None]) ELSE log[r]
  BY DEF TypeOK, AppendEvent
<1> QED BY <1>1 DEF Keeps, Rejects

LEMMA LogStep ==
  ASSUME IInv, ReviewsRead, [Next]_vars, NEW r \in Caller
  PROVE  LogWrite(r)
<1>0. TypeOK /\ CallsOK
  BY DEF IInv
<1>1. CASE log' = log /\ run' = run
  BY <1>1 DEF Keeps, LogWrite
<1>2. ASSUME NEW p \in Caller, Claim(p) PROVE LogWrite(r)
  <2>1. PICK mode \in Mode :
          run' = [run EXCEPT ![p] = [NoRun EXCEPT !.state = "created", !.mode = mode]]
    BY <1>2 DEF Claim
  <2>2. run'[r] = IF r = p THEN [NoRun EXCEPT !.state = "created", !.mode = mode] ELSE run[r]
    BY <1>0, <2>1 DEF TypeOK
  <2>3. log'[r] = IF r = p THEN Append(log[r], [from |-> None, to |-> "created", code |-> None])
                  ELSE log[r]
    BY <1>0, <1>2 DEF Claim, AppendEvent, TypeOK
  <2>4. ~Exists(p)
    BY <1>2, NoneIsNothingElse DEF IInv, KeysOK, Claim, KeyFree
  <2> QED BY <2>2, <2>3, <2>4 DEF NoRun, Begins, Keeps, LogWrite
<1>3. ASSUME NEW p \in Caller, RejectIntake(p) \/ RejectControl(p) PROVE LogWrite(r)
  <2>1. call[p].run # None /\ call[p].state # None
    BY <1>0, <1>3 DEF RejectIntake, RejectControl, CallsOK, CallOK
  <2>2. call[p].run \in Caller /\ Exists(call[p].run) /\ call[p].state \in RunState
    BY <1>0, <2>1, CallFields DEF CallsOK, CallOK
  <2>3. run' = run /\ AppendEvent(call[p].run, call[p].state, call[p].state, None)
    BY <1>3 DEF RejectIntake, RejectControl
  <2> QED BY <1>0, <2>2, <2>3, RejectsOne DEF LogWrite
<1>4. ASSUME NEW p \in Caller, Advance(p) PROVE LogWrite(r)
  <2> DEFINE c == call[p]
             row == Moved(run[c.run], c)
  <2>1. /\ c \in Call /\ CallOK(p, c) /\ c.pc = "resume" /\ ~ToolsLeft(p)
        /\ run[c.run].state = c.state
        /\ run' = [run EXCEPT ![c.run] = row] /\ tool' = tool
        /\ AppendEvent(c.run, c.state, Target(c), Stop(c))
    BY <1>0, <1>4 DEF Advance, Ready, UnchangedSince, CallsOK, TypeOK
  <2>2. c.run \in Caller /\ c.state \in Working
    BY <1>0, <2>1, CallFields DEF CallOK
  <2>3. row.state = Target(c) /\ row.version = run[c.run].version + 1
    <3>1. run[c.run] \in RunRow
      BY <1>0, <2>2, RunFields
    <3> QED BY <3>1 DEF Moved, RunRow
  <2>4. ~(c.code = None /\ c.next <= Len(Work(c.state)))
    BY <2>1 DEF ToolsLeft
  <2>5. run[c.run].version \in Nat
    BY <1>0, <2>2, RunFields
  <2> HIDE DEF row, c
  <2>6. run'[r] = IF r = c.run THEN row ELSE run[r]
    BY <1>0, <2>1 DEF TypeOK
  <2>7. log'[r] = IF r = c.run
                  THEN Append(log[r], [from |-> c.state, to |-> Target(c), code |-> Stop(c)])
                  ELSE log[r]
    BY <1>0, <2>1 DEF AppendEvent, TypeOK
  <2>8. CASE r = c.run
    <3>1. Advances(r, c)
      BY <2>1, <2>2, <2>3, <2>4, <2>5, <2>6, <2>7, <2>8 DEF Advances
    <3> QED BY <1>4, <3>1 DEF LogWrite, c
  <2>9. CASE r # c.run
    BY <2>6, <2>7, <2>9 DEF Keeps, LogWrite
  <2> QED BY <2>8, <2>9
<1>5. ASSUME NEW v \in ReviewCall, RefuseReview(v) PROVE LogWrite(r)
  <2>1. PICK x \in Caller : Exists(x) /\ AppendEvent(x, run[x].state, run[x].state, None)
    BY <1>5 DEF RefuseReview
  <2>2. run[x].state \in RunState /\ run' = run
    BY <1>0, <1>5, <2>1, RunFields DEF RefuseReview
  <2> QED BY <1>0, <2>1, <2>2, RejectsOne DEF LogWrite
<1>6. ASSUME NEW v \in ReviewCall, RejectReview(v) PROVE LogWrite(r)
  <2>1. /\ review[v].pc = "rejecting" /\ run' = run
        /\ AppendEvent(review[v].run, review[v].state, review[v].state, None)
    BY <1>6 DEF RejectReview
  <2>2. review[v].run \in Caller /\ review[v].state \in RunState
    BY <1>0, <2>1, ReviewFields DEF IInv, ReviewsOK
  <2> QED BY <1>0, <2>1, <2>2, RejectsOne DEF LogWrite, ReviewsRead
<1>7. ASSUME NEW v \in ReviewCall, Decide(v) PROVE LogWrite(r)
  <2>1. PICK x \in Caller, draft \in Draft, action \in Action :
          /\ MayDecide(x, ActorOf[v], draft)
          /\ run' = [run EXCEPT ![x].state = "closed", ![x].version = @ + 2]
          /\ log' = [log EXCEPT ![x] = @ \o
               << [from |-> "awaiting_human", to |-> DecidedState(action), code |-> None],
                  [from |-> DecidedState(action), to |-> "closed", code |-> None] >>]
    BY <1>7 DEF Decide
  <2> DEFINE row == [run[x] EXCEPT !.state = "closed", !.version = run[x].version + 2]
             s == DecidedState(action)
             e1 == [from |-> "awaiting_human", to |-> s, code |-> None]
             e2 == [from |-> s, to |-> "closed", code |-> None]
  <2>2. run[x].state = "awaiting_human" /\ run[x] \in RunRow /\ run[x].version \in Nat
    BY <1>0, <2>1, RunFields DEF MayDecide
  <2>3. row.state = "closed" /\ row.version = run[x].version + 2
    BY <2>2 DEF RunRow
  <2>4. s \in {"approved", "edited_and_approved", "rejected", "escalated"}
    BY DEF Action, DecidedState
  <2>5. run' = [run EXCEPT ![x] = row] /\ log' = [log EXCEPT ![x] = log[x] \o <<e1, e2>>]
    BY <2>1
  <2>6. log[x] \o <<e1, e2>> = Append(Append(log[x], e1), e2)
    <3>1. e1 \in Event /\ e2 \in Event /\ log[x] \in Seq(Event)
      BY <1>0, <2>4 DEF Event, RunState, TypeOK
    <3> HIDE DEF e1, e2
    <3> QED BY <3>1
  <2> HIDE DEF row
  <2>7. /\ run'[r] = IF r = x THEN row ELSE run[r]
        /\ log'[r] = IF r = x THEN Append(Append(log[r], e1), e2) ELSE log[r]
    <3> HIDE DEF e1, e2
    <3> QED BY <1>0, <2>5, <2>6 DEF TypeOK
  <2> HIDE DEF s
  <2> QED BY <2>2, <2>3, <2>4, <2>7 DEF Decides, Keeps, LogWrite
<1>8. ASSUME NEW x \in Caller, ExpireReview(x) PROVE LogWrite(r)
  <2> DEFINE row == [run[x] EXCEPT !.expired = TRUE]
  <2>1. run' = [run EXCEPT ![x] = row] /\ log' = log
    BY <1>8 DEF ExpireReview
  <2>2. row.state = run[x].state /\ row.version = run[x].version
    <3>1. run[x] \in RunRow
      BY <1>0, RunFields
    <3> QED BY <3>1 DEF RunRow
  <2> HIDE DEF row
  <2>3. run'[r] = IF r = x THEN row ELSE run[r]
    BY <1>0, <2>1 DEF TypeOK
  <2> QED BY <2>1, <2>2, <2>3 DEF Keeps, LogWrite
<1>9. ASSUME NEW p \in Caller, Step(p) \/ Die(p) \/ LoseLock(p) PROVE LogWrite(r)
  <2>1. CASE Find(p) \/ Observe(p) \/ UseTool(p) \/ Die(p) \/ LoseLock(p)
    BY <1>1, <2>1
       DEF Find, Observe, UseTool, ClaimTool, ReuseResult, RefuseRetry, ToolReturns, Die, LoseLock
  <2>2. CASE Conflict(p) \/ ReadForRejection(p) \/ Reload(p)
    BY <1>1, <2>2 DEF Conflict, ReadForRejection, Reload
  <2> QED BY <1>2, <1>3, <1>4, <1>9, <2>1, <2>2 DEF Step, Intake, Transition
<1>10. ASSUME NEW v \in ReviewCall, ReviewStep(v) PROVE LogWrite(r)
  <2>1. CASE ReadForReviewRejection(v)
    BY <1>1, <2>1 DEF ReadForReviewRejection
  <2> QED BY <1>5, <1>6, <1>7, <1>10, <2>1 DEF ReviewStep
<1>11. CASE UNCHANGED vars
  BY <1>1, <1>11 DEF vars
<1> QED BY <1>8, <1>9, <1>10, <1>11 DEF Next

\* No run is deleted.
LEMMA RunsStay ==
  ASSUME IInv, ReviewsRead, [Next]_vars, NEW r \in Caller, Exists(r)
  PROVE  Exists(r)'
<1> SUFFICES run'[r].state # "absent"
  BY DEF Exists
<1>1. ASSUME NEW p \in Caller, Advances(r, call[p]) PROVE Target(call[p]) # "absent"
  <2>1. call[p] \in Call
    BY DEF IInv, TypeOK
  <2>2. Target(call[p]) \in RunState
    BY <1>1, <2>1, TargetOfTransition DEF Advances
  <2> QED BY <2>2 DEF RunState
<1>2. Keeps(r) \/ Rejects(r) \/ Begins(r) \/ Decides(r) => run'[r].state # "absent"
  BY DEF Keeps, Rejects, Begins, Decides, Exists
<1>3. \A p \in Caller : Advances(r, call[p]) => run'[r].state = Target(call[p])
  BY DEF Advances
<1> QED BY <1>1, <1>2, <1>3, LogStep DEF LogWrite

LEMMA ReviewsReadKeeps ==
  ASSUME IInv, ReviewsRead, [Next]_vars
  PROVE  ReviewsRead'
<1>1. \A r \in Caller : Exists(r) => Exists(r)'
  BY RunsStay
<1>2. ASSUME NEW v \in ReviewCall, review'[v].pc = "rejecting"
      PROVE  \/ review'[v] = review[v]
             \/ /\ Exists(review'[v].run)
                /\ review'[v].run \in Caller
  <2>0. review \in [ReviewCall -> Review] /\ \A w \in ReviewCall : review[w] \in Review
    BY DEF IInv, TypeOK
  <2>1. CASE review' = review
    BY <2>1
  <2>2. ASSUME NEW w \in ReviewCall, ReadForReviewRejection(w)
        PROVE  \/ review'[v] = review[v]
               \/ /\ Exists(review'[v].run)
                  /\ review'[v].run \in Caller
    <3>1. PICK r \in Caller : /\ Exists(r)
                              /\ review' = [review EXCEPT ![w] =
                                   [pc |-> "rejecting", run |-> r, state |-> run[r].state]]
      BY <2>2 DEF ReadForReviewRejection
    <3> DEFINE row == [pc |-> "rejecting", run |-> r, state |-> run[r].state]
    <3>2. row.run = r /\ review' = [review EXCEPT ![w] = row]
      BY <3>1
    <3> HIDE DEF row
    <3>3. review'[v] = IF v = w THEN row ELSE review[v]
      BY <2>0, <3>2
    <3> QED BY <3>1, <3>2, <3>3
  <2>3. ASSUME NEW w \in ReviewCall, Decide(w) \/ RefuseReview(w) \/ RejectReview(w)
        PROVE  review'[v] = review[v]
    <3>1. review' = [review EXCEPT ![w].pc = "done"]
      BY <2>3 DEF Decide, RefuseReview, RejectReview
    <3>2. v # w
      BY <1>2, <2>0, <3>1 DEF Review
    <3> QED BY <2>0, <3>1, <3>2
  <2>4. ASSUME NEW p \in Caller, Step(p) \/ Die(p) \/ LoseLock(p) PROVE review' = review
    <3>1. CASE Intake(p)
      BY <3>1 DEF Intake, Find, Claim, Observe, RejectIntake
    <3>2. CASE UseTool(p)
      BY <3>2 DEF UseTool, ClaimTool, ReuseResult, RefuseRetry, ToolReturns
    <3>3. CASE Transition(p)
      BY <3>3 DEF Transition, Advance, Conflict, ReadForRejection, RejectControl, Reload
    <3> QED BY <2>4, <3>1, <3>2, <3>3 DEF Step, Die, LoseLock
  <2>5. ASSUME NEW r \in Caller, ExpireReview(r) PROVE review' = review
    BY <2>5 DEF ExpireReview
  <2>6. UNCHANGED vars => review' = review
    BY DEF vars
  <2> QED BY <2>1, <2>2, <2>3, <2>4, <2>5, <2>6 DEF Next, ReviewStep
<1>3. ASSUME NEW v \in ReviewCall, review[v].pc = "rejecting" PROVE review[v].run \in Caller
  BY <1>3, ReviewFields DEF IInv, ReviewsOK
<1>4. ASSUME NEW v \in ReviewCall, review'[v].pc = "rejecting" PROVE run'[review'[v].run].state # "absent"
  <2>1. \/ review'[v] = review[v]
        \/ /\ Exists(review'[v].run)
           /\ review'[v].run \in Caller
    BY <1>2, <1>4
  <2>2. review'[v].run \in Caller /\ run[review'[v].run].state # "absent"
    <3>1. CASE review'[v] = review[v]
      <4>1. review[v].run \in Caller /\ Exists(review[v].run)
        BY <1>3, <1>4, <3>1 DEF ReviewsRead
      <4> QED BY <3>1, <4>1 DEF Exists
    <3> QED BY <2>1, <3>1 DEF Exists
  <2>3. \A r \in Caller : run[r].state # "absent" => run'[r].state # "absent"
    BY <1>1 DEF Exists
  <2> QED BY <2>2, <2>3 DEF Exists
<1> QED BY <1>4 DEF ReviewsRead, Exists

--------------------------------------------------------------------------------
(* What a step leaves alone *)

Acts(p) == Step(p) \/ Die(p) \/ LoseLock(p)

\* A step of no intake request changes neither calls nor tools nor locks.
LEMMA WhoActs ==
  ASSUME [Next]_vars
  PROVE  \/ \E p \in Caller : Acts(p)
         \/ call' = call /\ tool' = tool /\ lock' = lock
<1>1. ASSUME NEW v \in ReviewCall, ReviewStep(v) PROVE call' = call /\ tool' = tool /\ lock' = lock
  BY <1>1 DEF ReviewStep, Decide, RefuseReview, ReadForReviewRejection, RejectReview
<1>2. ASSUME NEW r \in Caller, ExpireReview(r) PROVE call' = call /\ tool' = tool /\ lock' = lock
  BY <1>2 DEF ExpireReview
<1>3. UNCHANGED vars => call' = call /\ tool' = tool /\ lock' = lock
  BY DEF vars
<1> QED BY <1>1, <1>2, <1>3 DEF Next, Acts

LEMMA OthersStay ==
  ASSUME TypeOK, NEW p \in Caller, Acts(p), NEW q \in Caller, q # p
  PROVE  call'[q] = call[q]
<1>1. CASE Intake(p)
  BY <1>1 DEF TypeOK, Intake, Find, Claim, Observe, RejectIntake, View
<1>2. CASE ClaimTool(p) \/ ReuseResult(p) \/ RefuseRetry(p)
  BY <1>2 DEF TypeOK, ClaimTool, ReuseResult, RefuseRetry
<1>3. CASE ToolReturns(p)
  BY <1>3 DEF TypeOK, ToolReturns
<1>4. CASE Transition(p)
  BY <1>4 DEF TypeOK, Transition, Advance, Conflict, ReadForRejection, RejectControl, Reload, View
<1>5. CASE Die(p) \/ LoseLock(p)
  BY <1>5 DEF TypeOK, Die, LoseLock
<1> QED BY <1>1, <1>2, <1>3, <1>4, <1>5 DEF Acts, Step, UseTool

\* The row a request holds.
LEMMA HeldRow ==
  ASSUME IInv, NEW p \in Caller, call[p].pc = "holding"
  PROVE  At(p) \in Caller \X Tool /\ At(p)[1] = call[p].run /\ tool[At(p)].status = "started"
BY PlaceOfCall DEF IInv, HoldersOK, CallsOK, CallOK

\* Rows come from the tool calls that are under way; a finished one stands.
LEMMA RowsStand ==
  ASSUME IInv, [Next]_vars, NEW at \in Caller \X Tool
  PROVE  /\ tool[at].status \in {"completed", "failed"} => tool'[at] = tool[at]
         /\ tool[at].status # "absent" => tool'[at].status # "absent"
<1>0. tool \in [Caller \X Tool -> ToolRow]
  BY DEF IInv, TypeOK
<1>1. CASE tool' = tool
  BY <1>1
<1>2. ASSUME NEW p \in Caller, ClaimTool(p)
      PROVE  tool[at].status # "absent" => tool'[at] = tool[at]
  <2>1. tool[At(p)].status = "absent"
    BY <1>2 DEF ClaimTool, MayClaim
  <2>2. \A row : tool' = [tool EXCEPT ![At(p)] = row] /\ at # At(p) => tool'[at] = tool[at]
    BY <1>0
  <2> QED BY <1>2, <2>1, <2>2 DEF ClaimTool
<1>3. ASSUME NEW p \in Caller, ToolReturns(p)
      PROVE  /\ tool[at].status \in {"completed", "failed"} => tool'[at] = tool[at]
             /\ tool[at].status # "absent" => tool'[at].status # "absent"
  <2>1. tool[At(p)].status = "started" /\ At(p) \in Caller \X Tool
    BY <1>3, HeldRow DEF ToolReturns
  <2>2. PICK row \in Returns(At(p)[2]) : tool' = [tool EXCEPT ![At(p)] = row]
    BY <1>3 DEF ToolReturns
  <2>3. row.status # "absent"
    BY DEF Returns
  <2> QED BY <1>0, <2>1, <2>2, <2>3
<1>4. ASSUME NEW p \in Caller, Acts(p), ~ClaimTool(p), ~ToolReturns(p) PROVE tool' = tool
  <2>1. CASE Intake(p)
    BY <2>1 DEF Intake, Find, Claim, Observe, RejectIntake
  <2>2. CASE Transition(p)
    BY <2>2 DEF Transition, Advance, Conflict, ReadForRejection, RejectControl, Reload
  <2>3. CASE ReuseResult(p) \/ RefuseRetry(p) \/ Die(p) \/ LoseLock(p)
    BY <2>3 DEF ReuseResult, RefuseRetry, Die, LoseLock
  <2> QED BY <1>4, <2>1, <2>2, <2>3 DEF Acts, Step, UseTool
<1> QED BY <1>1, <1>2, <1>3, <1>4, WhoActs

\* A lock is never given to a request by another.
LEMMA LocksStay ==
  ASSUME IInv, NEW q \in Caller, Acts(q), NEW p \in Caller, p # q, NEW at \in Caller \X Tool,
         lock[at] # p
  PROVE  lock'[at] # p
<1>0. lock \in [Caller \X Tool -> Caller \cup {None}] /\ p # None
  BY NoneIsNothingElse DEF IInv, TypeOK
<1>1. CASE lock' = lock
  BY <1>1
<1>2. CASE ClaimTool(q)
  <2>1. lock' = [lock EXCEPT ![At(q)] = q]
    BY <1>2 DEF ClaimTool
  <2> QED BY <1>0, <2>1
<1>3. CASE ToolReturns(q)
  <2>1. lock' = lock \/ lock' = [lock EXCEPT ![At(q)] = None]
    BY <1>3 DEF ToolReturns
  <2> QED BY <1>0, <2>1
<1>4. CASE Die(q) \/ LoseLock(q)
  BY <1>0, <1>4 DEF Die, LoseLock, FreedLocks
<1>5. CASE Intake(q)
  BY <1>5 DEF Intake, Find, Claim, Observe, RejectIntake
<1>6. CASE Transition(q)
  BY <1>6 DEF Transition, Advance, Conflict, ReadForRejection, RejectControl, Reload
<1>7. CASE ReuseResult(q) \/ RefuseRetry(q)
  BY <1>7 DEF ReuseResult, RefuseRetry
<1> QED BY <1>2, <1>3, <1>4, <1>5, <1>6, <1>7 DEF Acts, Step, UseTool

\* Who has ended takes no step.
LEMMA EndedStay ==
  ASSUME NEW p \in Caller, call[p].pc \in {"dead", "failed"}, Acts(p)
  PROVE  FALSE
<1>1. ~Intake(p)
  BY DEF Intake, Find, Claim, Observe, RejectIntake
<1>2. ~UseTool(p)
  BY DEF UseTool, ClaimTool, ReuseResult, RefuseRetry, ToolReturns
<1>3. ~Transition(p)
  BY DEF Transition, Advance, Conflict, ReadForRejection, RejectControl, Reload, Ready
<1>4. ~Die(p) /\ ~LoseLock(p)
  BY DEF Die, LoseLock, Ended
<1> QED BY <1>1, <1>2, <1>3, <1>4 DEF Acts, Step

\* Who holds a tool call returns, or dies, or loses the lock.
LEMMA HoldersAct ==
  ASSUME NEW p \in Caller, call[p].pc = "holding", Acts(p)
  PROVE  ToolReturns(p) \/ Die(p) \/ LoseLock(p)
<1>1. ~Intake(p)
  BY DEF Intake, Find, Claim, Observe, RejectIntake
<1>2. ~ClaimTool(p) /\ ~ReuseResult(p) /\ ~RefuseRetry(p)
  BY DEF ClaimTool, ReuseResult, RefuseRetry
<1>3. ~Transition(p)
  BY DEF Transition, Advance, Conflict, ReadForRejection, RejectControl, Reload, Ready
<1> QED BY <1>1, <1>2, <1>3 DEF Acts, Step, UseTool

LEMMA AbandonedStands ==
  ASSUME IInv, [Next]_vars, NEW p \in Caller, Abandoned(p)
  PROVE  Abandoned(p)' /\ call'[p].run = call[p].run
<1>0. TypeOK /\ call[p] \in Call
  BY DEF IInv, TypeOK
<1>1. CASE call' = call /\ lock' = lock
  BY <1>1 DEF Abandoned, At
<1>2. ASSUME NEW q \in Caller, Acts(q), q # p
      PROVE  Abandoned(p)' /\ call'[p].run = call[p].run
  <2>1. call'[p] = call[p]
    BY <1>0, <1>2, OthersStay
  <2>2. call[p].pc = "holding" => At(p) \in Caller \X Tool
    BY HeldRow
  <2>3. call[p].pc = "holding" => (lock[At(p)] # p => lock'[At(p)] # p)
    BY <1>2, <2>2, LocksStay
  <2> QED BY <2>1, <2>3 DEF Abandoned, At
<1>3. ASSUME Acts(p) PROVE Abandoned(p)' /\ call'[p].run = call[p].run
  <2>1. call[p].pc = "holding" /\ lock[At(p)] # p
    BY <1>3, EndedStay DEF Abandoned
  <2>2. ToolReturns(p) \/ Die(p) \/ LoseLock(p)
    BY <1>3, <2>1, HoldersAct
  <2>3. PICK pc \in {"failed", "dead"} : call' = [call EXCEPT ![p].pc = pc]
    BY <2>1, <2>2 DEF ToolReturns, Die, LoseLock
  <2>4. call'[p].pc = pc /\ call'[p].run = call[p].run
    <3>1. call'[p] = [call[p] EXCEPT !.pc = pc]
      BY <1>0, <2>3 DEF TypeOK
    <3> QED BY <1>0, <3>1 DEF Call
  <2> QED BY <2>4 DEF Abandoned
<1> QED BY <1>1, <1>2, <1>3, WhoActs

--------------------------------------------------------------------------------
(* Codes that tell the truth *)

SomeFailed(r) == \E t \in Tool : tool[<<r, t>>].status = "failed"
SomeAbandoned(r) == \E p \in Caller : call[p].run = r /\ Abandoned(p)
Called(r) == tool[<<r, "reasoning">>].status # "absent"

\* The code of a request in state, working on r, has its reason.
Explained(r, state, code) ==
  /\ state \in {"gathering_evidence", "reasoning"} /\ (state = "reasoning" => Called(r))
  /\ \/ code = "TOOL_FAILED" /\ SomeFailed(r)
     \/ code = "RETRY_FORBIDDEN" /\ SomeAbandoned(r)

\* The tools a request is past are completed; while it is reasoning, its run is too,
\* or the reasoning has been called.
Honest(r, state, next, code) ==
  /\ next <= Len(Work(state)) + 1
  /\ \A i \in 1..(next - 1) : tool[<<r, Work(state)[i]>>].status = "completed"
  /\ code # None => Explained(r, state, code)
  /\ state = "reasoning" => run[r].state = "reasoning" \/ Called(r)

HonestCall(c) ==
  IF c.run = None THEN c.state = None /\ c.next = 1 /\ c.code = None
  ELSE Honest(c.run, c.state, c.next, c.code)

\* A started call has its owner, or its owner is dead.
Owns(p, at) ==
  call[p].run = at[1] /\ (call[p].pc = "dead" \/ (call[p].pc = "holding" /\ At(p) = at))

StartedOK ==
  \A at \in Caller \X Tool : tool[at].status = "started" => \E p \in Caller : Owns(p, at)

EvidenceGathered(r) == \A t \in EvidenceTool : tool[<<r, t>>].status = "completed"

\* A run has left behind what its state needs.
StagesOK ==
  \A r \in Caller :
    /\ run[r].state = "quality_checks" => EvidenceGathered(r)
    /\ run[r].state = "drafting_recommendation" => tool[<<r, "reasoning">>].status = "completed"
    /\ \A t \in EvidenceTool :
         tool[<<r, t>>].status = "completed" => tool[<<r, t>>].result \in {"sound", "unsound"}

SomeUnsound(r) ==
  \E t \in EvidenceTool : tool[<<r, t>>].status = "completed" /\ tool[<<r, t>>].result = "unsound"

\* The code has its reason in the rows and calls of r.
CodeTrue(r, code) ==
  /\ code = "RETRY_FORBIDDEN" => SomeAbandoned(r)
  /\ code = "TOOL_FAILED" => SomeFailed(r)
  /\ code = "EVIDENCE_INVALID" => SomeUnsound(r)
  /\ code # "RESULT_UNAVAILABLE"

CodesTrue == \A r \in Caller : \A i \in DOMAIN log[r] : CodeTrue(r, log[r][i].code)

HInv ==
  /\ ReviewsRead /\ StartedOK /\ StagesOK /\ CodesTrue
  /\ \A p \in Caller : HonestCall(call[p])

LEMMA WorkIs ==
  ASSUME NEW state
  PROVE  /\ Len(Work(state)) \in 0..3
         /\ \A i \in 1..Len(Work(state)) : Work(state)[i] \in Tool
         /\ state \notin {"gathering_evidence", "reasoning"} => Len(Work(state)) = 0
<1>1. CASE state = "gathering_evidence"
  <2>1. Work(state) = <<"T1_inventory", "T2_sales_demand", "T3_supplier">>
    BY <1>1 DEF Work
  <2> QED BY <1>1, <2>1 DEF Tool, EvidenceTool
<1>2. CASE state = "reasoning"
  <2>1. Work(state) = <<"reasoning">>
    BY <1>2 DEF Work
  <2> QED BY <1>2, <2>1 DEF Tool
<1>3. CASE state \notin {"gathering_evidence", "reasoning"}
  <2>1. Work(state) = <<>>
    BY <1>3 DEF Work
  <2> QED BY <2>1
<1> QED BY <1>1, <1>2, <1>3

\* A request that leaves reasoning has had its call.
LEMMA LeavesCalled ==
  ASSUME NEW c, c.run # None, c.state = "reasoning", HonestCall(c), c.next \in 1..4,
         ~(c.code = None /\ c.next <= Len(Work(c.state)))
  PROVE  Called(c.run)
<1>1. Work(c.state) = <<"reasoning">>
  BY DEF Work
<1>2. CASE c.code # None
  BY <1>2 DEF HonestCall, Honest, Explained
<1>3. CASE c.code = None
  <2>0. Len(Work(c.state)) = 1
    BY <1>1
  <2>1. c.next = 2
    <3>1. c.next <= Len(Work(c.state)) + 1
      BY DEF HonestCall, Honest
    <3>2. ~(c.next <= Len(Work(c.state)))
      BY <1>3
    <3>3. ASSUME NEW n \in 1..4, NEW k, k = 1, n <= k + 1, ~(n <= k) PROVE n = 2
      BY <3>3
    <3> QED BY <2>0, <3>1, <3>2, <3>3
  <2>2. tool[<<c.run, Work(c.state)[1]>>].status = "completed"
    BY <2>1 DEF HonestCall, Honest
  <2> QED BY <1>1, <2>2 DEF Called
<1> QED BY <1>2, <1>3

\* What was true of a request stays true, whoever steps.
LEMMA HonestStays ==
  ASSUME IInv, HInv, [Next]_vars, NEW r \in Caller, NEW state, NEW next \in 1..4, NEW code
  PROVE  /\ Explained(r, state, code) => Explained(r, state, code)'
         /\ Exists(r) /\ Honest(r, state, next, code) => Honest(r, state, next, code)'
<1>1. \A t \in Tool :
        /\ tool[<<r, t>>].status \in {"completed", "failed"} => tool'[<<r, t>>] = tool[<<r, t>>]
        /\ tool[<<r, t>>].status # "absent" => tool'[<<r, t>>].status # "absent"
  <2> SUFFICES ASSUME NEW t \in Tool
               PROVE  LET at == <<r, t>>
                      IN /\ tool[at].status \in {"completed", "failed"} => tool'[at] = tool[at]
                         /\ tool[at].status # "absent" => tool'[at].status # "absent"
    OBVIOUS
  <2>1. <<r, t>> \in Caller \X Tool
    OBVIOUS
  <2> QED BY <2>1, RowsStand
<1>2. SomeFailed(r) => SomeFailed(r)'
  BY <1>1 DEF SomeFailed
<1>3. Called(r) => Called(r)'
  BY <1>1 DEF Called, Tool
<1>4. SomeAbandoned(r) => SomeAbandoned(r)'
  BY AbandonedStands DEF SomeAbandoned
<1>5. Explained(r, state, code) => Explained(r, state, code)'
  BY <1>2, <1>3, <1>4 DEF Explained
<1>6. Exists(r) /\ run[r].state = "reasoning" => run'[r].state = "reasoning" \/ Called(r)
  <2> SUFFICES ASSUME Exists(r), run[r].state = "reasoning"
               PROVE  run'[r].state = "reasoning" \/ Called(r)
    OBVIOUS
  <2>1. LogWrite(r)
    BY LogStep DEF HInv
  <2>2. Keeps(r) \/ Rejects(r) \/ Begins(r) \/ Decides(r) => run'[r].state = "reasoning"
    BY DEF Keeps, Rejects, Begins, Decides
  <2>3. ASSUME NEW p \in Caller, Advances(r, call[p]) PROVE Called(r)
    <3>1. /\ call[p].run = r /\ call[p].state = "reasoning"
          /\ ~(call[p].code = None /\ call[p].next <= Len(Work(call[p].state)))
      BY <2>3 DEF Advances
    <3>2. call[p].next \in 1..4 /\ r # None /\ HonestCall(call[p])
      BY CallFields, NoneIsNothingElse DEF IInv, HInv
    <3> QED BY <3>1, <3>2, LeavesCalled
  <2> QED BY <2>1, <2>2, <2>3 DEF LogWrite
<1>7. ASSUME Exists(r), Honest(r, state, next, code) PROVE Honest(r, state, next, code)'
  <2>1. \A i \in 1..(next - 1) : tool'[<<r, Work(state)[i]>>].status = "completed"
    <3>1. \A i \in 1..(next - 1) : i \in 1..Len(Work(state))
      BY <1>7, WorkIs DEF Honest
    <3>2. \A i \in 1..(next - 1) : Work(state)[i] \in Tool
      BY <3>1, WorkIs
    <3> QED BY <1>1, <1>7, <3>2 DEF Honest
  <2>2. code # None => Explained(r, state, code)'
    BY <1>5, <1>7 DEF Honest
  <2>3. state = "reasoning" => run'[r].state = "reasoning" \/ Called(r)'
    BY <1>3, <1>6, <1>7 DEF Honest
  <2>4. next <= Len(Work(state)) + 1
    BY <1>7 DEF Honest
  <2> QED BY <2>1, <2>2, <2>3, <2>4 DEF Honest
<1> QED BY <1>5, <1>7

\* What is said of values is said of the call that has them.
LEMMA HonestAfter ==
  ASSUME NEW p \in Caller, NEW r \in Caller, NEW state, NEW next, NEW code,
         Honest(r, state, next, code)', call'[p].run = r, call'[p].state = state,
         call'[p].next = next, call'[p].code = code
  PROVE  HonestCall(call[p])'
<1>1. r # None
  BY NoneIsNothingElse
<1> QED BY <1>1 DEF HonestCall, Honest, Explained, SomeFailed, SomeAbandoned, Called

LEMMA SameFields ==
  ASSUME IInv, HInv, [Next]_vars, NEW p \in Caller, call'[p].run = call[p].run,
         call'[p].state = call[p].state, call'[p].next = call[p].next,
         call'[p].code = call[p].code
  PROVE  HonestCall(call[p])'
<1>1. HonestCall(call[p]) /\ call[p].next \in 1..4 /\ call[p].run \in Caller \cup {None}
  BY CallFields DEF IInv, HInv
<1>2. CASE call[p].run = None
  BY <1>1, <1>2 DEF HonestCall
<1>3. ASSUME NEW r \in Caller, call[p].run = r, NEW state, call[p].state = state,
             NEW next, call[p].next = next, NEW code, call[p].code = code
      PROVE  HonestCall(call[p])'
  <2>1. Exists(r) /\ r # None
    BY <1>3, NoneIsNothingElse DEF IInv, CallsOK, CallOK
  <2>2. Honest(r, state, next, code) /\ next \in 1..4
    BY <1>1, <1>3, <2>1 DEF HonestCall
  <2>3. Honest(r, state, next, code)'
    BY <2>1, <2>2, HonestStays
  <2> QED BY <1>3, <2>3, HonestAfter
<1> QED BY <1>1, <1>2, <1>3

LEMMA FreshView ==
  ASSUME NEW p \in Caller, NEW r \in Caller, call'[p].run = r,
         call'[p].state = run'[r].state, call'[p].next = 1, call'[p].code = None
  PROVE  HonestCall(call[p])'
<1>1. ASSUME NEW state, run'[r].state = state PROVE Honest(r, state, 1, None)'
  <2>1. Len(Work(state)) \in 0..3
    BY WorkIs
  <2> QED BY <1>1, <2>1 DEF Honest
<1>2. ASSUME NEW state, run'[r].state = state PROVE HonestCall(call[p])'
  BY <1>1, <1>2, HonestAfter
<1> QED BY <1>2

LEMMA ActorHonest ==
  ASSUME IInv, HInv, [Next]_vars, NEW p \in Caller, Acts(p)
  PROVE  HonestCall(call[p])'
<1>0. /\ TypeOK /\ call[p] \in Call /\ CallOK(p, call[p]) /\ HonestCall(call[p])
      /\ call \in [Caller -> Call] /\ call[p].next \in 1..4
  BY CallFields DEF IInv, HInv, TypeOK, CallsOK
<1>1. ASSUME NEW pc, call' = [call EXCEPT ![p].pc = pc] PROVE HonestCall(call[p])'
  <2>1. call'[p] = [call[p] EXCEPT !.pc = pc]
    BY <1>0, <1>1
  <2>2. /\ call'[p].run = call[p].run /\ call'[p].state = call[p].state
        /\ call'[p].next = call[p].next /\ call'[p].code = call[p].code
    BY <1>0, <2>1 DEF Call
  <2> QED BY <2>2, SameFields
<1>2. ASSUME NEW r \in Caller, NEW pc, call' = View(p, r, run'[r], pc) PROVE HonestCall(call[p])'
  <2>1. call'[p] = [pc |-> pc, run |-> r, state |-> run'[r].state,
                    version |-> run'[r].version, next |-> 1, code |-> None]
    BY <1>0, <1>2 DEF View
  <2>2. /\ call'[p].run = r /\ call'[p].state = run'[r].state
        /\ call'[p].next = 1 /\ call'[p].code = None
    BY <2>1
  <2> QED BY <2>2, FreshView
<1>3. call[p].pc \in {"resume", "holding", "conflict", "reload"} =>
        call[p].run \in Caller /\ Exists(call[p].run)
  BY <1>0 DEF CallOK, Call
<1>4. CASE Find(p) \/ RejectIntake(p) \/ ClaimTool(p) \/ Conflict(p) \/ RejectControl(p) \/ Die(p)
  <2>1. \E pc : call' = [call EXCEPT ![p].pc = pc]
    BY <1>4 DEF Find, RejectIntake, ClaimTool, Conflict, RejectControl, Die
  <2> QED BY <1>1, <2>1
<1>5. CASE LoseLock(p)
  BY <1>5, SameFields DEF LoseLock
<1>6. CASE Claim(p)
  <2>1. PICK mode \in Mode :
          /\ run' = [run EXCEPT ![p] = [NoRun EXCEPT !.state = "created", !.mode = mode]]
          /\ call' = View(p, p, [NoRun EXCEPT !.state = "created", !.mode = mode], "resume")
    BY <1>6 DEF Claim
  <2>2. run'[p] = [NoRun EXCEPT !.state = "created", !.mode = mode]
    BY <1>0, <2>1 DEF TypeOK
  <2> QED BY <1>2, <2>1, <2>2
<1>7. CASE Observe(p)
  <2>1. idem[KeyOf[p]] \in Caller /\ run' = run
    BY <1>0, <1>7, KeyAssumption DEF Observe, KeyFree, TypeOK
  <2>2. \E pc : call' = View(p, idem[KeyOf[p]], run[idem[KeyOf[p]]], pc)
    BY <1>7 DEF Observe
  <2> QED BY <1>2, <2>1, <2>2
<1>8. CASE ReadForRejection(p) \/ Reload(p)
  <2>1. call[p].run \in Caller /\ run' = run
    BY <1>3, <1>8 DEF ReadForRejection, Reload
  <2>2. \E pc : call' = View(p, call[p].run, run[call[p].run], pc)
    BY <1>8 DEF ReadForRejection, Reload
  <2> QED BY <1>2, <2>1, <2>2
<1>9. CASE Advance(p)
  <2> DEFINE row == Moved(run[call[p].run], call[p])
  <2>1. /\ call[p].run \in Caller /\ run' = [run EXCEPT ![call[p].run] = row]
        /\ call' = View(p, call[p].run, row, Resumed(row.state))
    BY <1>3, <1>9 DEF Advance, Ready
  <2> HIDE DEF row
  <2>2. run'[call[p].run] = row
    BY <1>0, <2>1 DEF TypeOK
  <2> QED BY <1>2, <2>1, <2>2
<1>10. CASE ReuseResult(p) \/ RefuseRetry(p) \/ ToolReturns(p)
  <2>1. PICK r \in Caller, state \in Working, next \in 1..3, t \in Tool :
          /\ call[p].run = r /\ call[p].state = state /\ call[p].next = next
          /\ call[p].code = None /\ Exists(r) /\ next <= Len(Work(state))
          /\ Work(state)[next] = t /\ At(p) = <<r, t>>
          /\ state \in {"gathering_evidence", "reasoning"}
          /\ state = "reasoning" => t = "reasoning"
    <3>1. call[p].pc \in {"resume", "holding"} /\ ToolsLeft(p)
      BY <1>10 DEF ReuseResult, RefuseRetry, ToolReturns, IInv, HoldersOK
    <3>2. /\ call[p].run \in Caller /\ Exists(call[p].run) /\ call[p].run # None
          /\ call[p].state \in Working
      BY <1>0, <1>3, <3>1 DEF CallOK
    <3>3. /\ At(p) \in Caller \X Tool /\ call[p].next \in 1..3
          /\ call[p].state \in {"gathering_evidence", "reasoning"}
          /\ call[p].state = "reasoning" => At(p)[2] = "reasoning"
      BY <1>0, <3>1, <3>2, PlaceOfCall
    <3>4. At(p)[2] = Work(call[p].state)[call[p].next] /\ At(p)[2] \in Tool
          /\ At(p) = <<call[p].run, At(p)[2]>>
      BY <3>3 DEF At
    <3> QED BY <3>1, <3>2, <3>3, <3>4 DEF ToolsLeft
  <2>2. Honest(r, state, next, None) /\ r # None /\ <<r, t>> \in Caller \X Tool
    BY <1>0, <2>1, NoneIsNothingElse DEF HonestCall
  <2>3. Honest(r, state, next, None)'
    BY <2>1, <2>2, HonestStays
  \* One tool more is completed.
  <2>4. ASSUME tool'[<<r, t>>].status = "completed", call'[p].run = r, call'[p].state = state,
               call'[p].next = next + 1, call'[p].code = None
        PROVE  HonestCall(call[p])'
    <3>2. \A i \in 1..(next + 1 - 1) : i \in 1..(next - 1) \/ i = next
      BY <2>1
    <3>3. \A i \in 1..(next + 1 - 1) : tool'[<<r, Work(state)[i]>>].status = "completed"
      BY <2>1, <2>3, <2>4, <3>2 DEF Honest
    <3>4. next + 1 <= Len(Work(state)) + 1
      BY <2>1, WorkIs
    <3>5. Honest(r, state, next + 1, None)'
      BY <2>3, <3>3, <3>4 DEF Honest
    <3> QED BY <2>4, <3>5, HonestAfter
  \* The request is to escalate its run.
  <2>5. ASSUME NEW x, Explained(r, state, x)', call'[p].run = r, call'[p].state = state,
               call'[p].next = next, call'[p].code = x
        PROVE  HonestCall(call[p])'
    <3>1. Honest(r, state, next, x)'
      BY <2>3, <2>5 DEF Honest
    <3> QED BY <2>5, <3>1, HonestAfter
  <2>6. CASE ReuseResult(p)
    <3>1. tool[<<r, t>>].status = "completed" /\ tool' = tool
          /\ call'[p] = [call[p] EXCEPT !.next = next + 1]
      BY <1>0, <2>1, <2>6 DEF ReuseResult
    <3>2. /\ call'[p].run = r /\ call'[p].state = state
          /\ call'[p].next = next + 1 /\ call'[p].code = None
      BY <1>0, <2>1, <3>1 DEF Call
    <3> QED BY <2>4, <3>1, <3>2
  <2>7. CASE RefuseRetry(p)
    <3>1. PICK x \in {"TOOL_FAILED", "RETRY_FORBIDDEN"} :
            /\ x = IF tool[<<r, t>>].status = "failed" THEN "TOOL_FAILED" ELSE "RETRY_FORBIDDEN"
            /\ call'[p] = [call[p] EXCEPT !.code = x]
            /\ tool[<<r, t>>].status \notin {"absent", "completed"} /\ lock[<<r, t>>] = None
      BY <1>0, <2>1, <2>7 DEF RefuseRetry, MayClaim, LockFree
    <3>2. tool[<<r, t>>].status \in {"started", "failed"}
      <4>1. tool[<<r, t>>] \in ToolRow
        BY <1>0, <2>2 DEF TypeOK
      <4> QED BY <3>1, <4>1 DEF ToolRow
    <3>3. state = "reasoning" => Called(r)
      BY <2>1, <3>2 DEF Called
    <3>4. ASSUME tool[<<r, t>>].status = "failed" PROVE Explained(r, state, x)
      <4>1. SomeFailed(r)
        BY <3>4 DEF SomeFailed
      <4> QED BY <2>1, <3>1, <3>3, <3>4, <4>1 DEF Explained
    <3>5. ASSUME tool[<<r, t>>].status = "started" PROVE Explained(r, state, x)
      <4>1. PICK q \in Caller : Owns(q, <<r, t>>)
        BY <2>2, <3>5 DEF HInv, StartedOK
      <4>2. call[q].run = r /\ Abandoned(q)
        <5>1. q # None
          BY NoneIsNothingElse
        <5> QED BY <2>1, <3>1, <4>1, <5>1 DEF Owns, Abandoned
      <4>3. SomeAbandoned(r)
        BY <4>2 DEF SomeAbandoned
      <4> QED BY <2>1, <3>1, <3>3, <3>5, <4>3 DEF Explained
    <3>6. Explained(r, state, x)
      BY <3>2, <3>4, <3>5
    <3>7. /\ call'[p].run = r /\ call'[p].state = state
          /\ call'[p].next = next /\ call'[p].code = x
      BY <1>0, <2>1, <3>1 DEF Call
    <3>8. Explained(r, state, x)'
      BY <2>1, <3>6, HonestStays
    <3> QED BY <2>5, <3>7, <3>8
  <2>8. CASE ToolReturns(p)
    <3>0. At(p)[2] = t
      BY <2>1
    <3>1. PICK row \in Returns(t) :
            /\ tool' = [tool EXCEPT ![<<r, t>>] = row]
            /\ IF lock[<<r, t>>] = p
               THEN call' = [call EXCEPT ![p] =
                      IF row.status = "failed"
                      THEN [call[p] EXCEPT !.pc = "resume", !.code = "TOOL_FAILED"]
                      ELSE [call[p] EXCEPT !.pc = "resume", !.next = call[p].next + 1]]
               ELSE call' = [call EXCEPT ![p].pc = "failed"]
      BY <2>1, <2>8, <3>0 DEF ToolReturns
    <3>2. tool'[<<r, t>>] = row /\ row.status \in {"failed", "completed"}
      BY <1>0, <2>2, <3>1 DEF TypeOK, Returns
    <3>3. CASE lock[<<r, t>>] # p
      BY <1>1, <3>1, <3>3
    <3>4. CASE lock[<<r, t>>] = p /\ row.status = "failed"
      <4>1. call'[p] = [call[p] EXCEPT !.pc = "resume", !.code = "TOOL_FAILED"]
        BY <1>0, <3>1, <3>4
      <4>2. /\ call'[p].run = r /\ call'[p].state = state
            /\ call'[p].next = next /\ call'[p].code = "TOOL_FAILED"
        BY <1>0, <2>1, <4>1 DEF Call
      <4>3. Explained(r, state, "TOOL_FAILED")'
        <5>1. SomeFailed(r)'
          BY <3>2, <3>4 DEF SomeFailed
        <5>2. state = "reasoning" => Called(r)'
          BY <2>1, <3>2, <3>4 DEF Called
        <5> QED BY <2>1, <5>1, <5>2 DEF Explained
      <4> QED BY <2>5, <4>2, <4>3
    <3>5. CASE lock[<<r, t>>] = p /\ row.status # "failed"
      <4>1. call'[p] = [call[p] EXCEPT !.pc = "resume", !.next = call[p].next + 1]
        BY <1>0, <3>1, <3>5
      <4>2. /\ call'[p].run = r /\ call'[p].state = state
            /\ call'[p].next = next + 1 /\ call'[p].code = None
        BY <1>0, <2>1, <4>1 DEF Call
      <4> QED BY <2>4, <3>2, <3>5, <4>2
    <3> QED BY <3>3, <3>4, <3>5
  <2> QED BY <1>10, <2>6, <2>7, <2>8
<1> QED BY <1>4, <1>5, <1>6, <1>7, <1>8, <1>9, <1>10
       DEF Acts, Step, Intake, UseTool, Transition

--------------------------------------------------------------------------------
(* The steps of the second invariant *)

\* What is known of a request that moves its run.
LEMMA AdvancesTruly ==
  ASSUME IInv, HInv, NEW r \in Caller, NEW p \in Caller, Advances(r, call[p])
  PROVE  /\ CodeTrue(r, Stop(call[p]))
         /\ Target(call[p]) \in TRANSITIONS[call[p].state] /\ Target(call[p]) # call[p].state
         /\ Target(call[p]) = "quality_checks" => EvidenceGathered(r)
         /\ Target(call[p]) = "drafting_recommendation" =>
              tool[<<r, "reasoning">>].status = "completed"
<1> DEFINE c == call[p]
<1>1. /\ c.run = r /\ c.state \in Working /\ run[r].state = c.state /\ r # None
      /\ ~(c.code = None /\ c.next <= Len(Work(c.state)))
      /\ c.next \in 1..4 /\ Honest(r, c.state, c.next, c.code)
  BY CallFields, NoneIsNothingElse DEF IInv, HInv, HonestCall, Advances
<1>2. /\ c.code # None => /\ c.state \in {"gathering_evidence", "reasoning"}
                          /\ \/ c.code = "TOOL_FAILED" /\ SomeFailed(r)
                             \/ c.code = "RETRY_FORBIDDEN" /\ SomeAbandoned(r)
      /\ None \notin Code
  BY <1>1, NoneIsNothingElse DEF Honest, Explained
<1>3. /\ c.state = "quality_checks" => EvidenceGathered(r)
      /\ c.state = "drafting_recommendation" => tool[<<r, "reasoning">>].status = "completed"
      /\ \A t \in EvidenceTool :
           tool[<<r, t>>].status = "completed" => tool[<<r, t>>].result \in {"sound", "unsound"}
  BY <1>1 DEF HInv, StagesOK
<1>4. c.state = "quality_checks" /\ ~BundleValid(r) => SomeUnsound(r)
  BY <1>3 DEF BundleValid, EvidenceGathered, SomeUnsound
<1>5. c.state = "gathering_evidence" /\ c.code = None => EvidenceGathered(r)
  <2> SUFFICES ASSUME c.state = "gathering_evidence", c.code = None PROVE EvidenceGathered(r)
    OBVIOUS
  <2>1. Work(c.state) = <<"T1_inventory", "T2_sales_demand", "T3_supplier">>
    BY DEF Work
  <2>2. Len(Work(c.state)) = 3
    BY <2>1
  <2>3. \A i \in 1..3 : tool[<<r, Work(c.state)[i]>>].status = "completed"
    <3>1. c.next = 4
      <4>1. ASSUME NEW n \in 1..4, NEW k, k = 3, ~(n <= k) PROVE n = 4
        BY <4>1
      <4> QED BY <1>1, <2>2, <4>1
    <3> QED BY <1>1, <3>1 DEF Honest
  <2>4. \A t \in EvidenceTool : \E i \in 1..3 : Work(c.state)[i] = t
    BY <2>1 DEF EvidenceTool
  <2> QED BY <2>3, <2>4 DEF EvidenceGathered
<1>6. c.state = "reasoning" /\ c.code = None => tool[<<r, "reasoning">>].status = "completed"
  <2> SUFFICES ASSUME c.state = "reasoning", c.code = None
               PROVE  tool[<<r, "reasoning">>].status = "completed"
    OBVIOUS
  <2>1. Work(c.state) = <<"reasoning">>
    BY DEF Work
  <2>2. Len(Work(c.state)) = 1
    BY <2>1
  <2>3. c.next = 2
    <3>1. ASSUME NEW n \in 1..4, NEW k, k = 1, ~(n <= k), n <= k + 1 PROVE n = 2
      BY <3>1
    <3> QED BY <1>1, <2>2, <3>1 DEF Honest
  <2> QED BY <1>1, <2>1, <2>3 DEF Honest
<1>7. PICK x : x = Stop(c)
  OBVIOUS
<1> HIDE DEF c
<1>8. \/ x = None /\ c.code = None
      \/ x = c.code /\ c.code # None
      \/ x = "EVIDENCE_INVALID" /\ c.state = "quality_checks" /\ ~BundleValid(r)
  BY <1>1, <1>3, <1>7 DEF Stop
<1>9. CodeTrue(r, x)
  BY <1>2, <1>4, <1>8 DEF CodeTrue, Code
<1>10. \/ x = None /\ c.code = None /\ Target(c) = Forward[c.state]
       \/ c.state \in {"gathering_evidence", "reasoning", "quality_checks"} /\ Target(c) = "escalated"
  BY <1>2, <1>7, <1>8 DEF Target, Code
<1>11. c.state \in RunState
  BY <1>1 DEF Working, RunState
<1>12. Target(c) \in TRANSITIONS[c.state] /\ Target(c) # c.state
  BY <1>1, <1>10, <1>11 DEF TRANSITIONS, Forward, Working
<1>13. /\ Target(c) = "quality_checks" => c.state = "gathering_evidence" /\ c.code = None
       /\ Target(c) = "drafting_recommendation" => c.state = "reasoning" /\ c.code = None
  BY <1>1, <1>10 DEF Forward, Working
<1> QED BY <1>5, <1>6, <1>7, <1>9, <1>12, <1>13 DEF c

LEMMA CodeStands ==
  ASSUME IInv, [Next]_vars, NEW r \in Caller, NEW code, CodeTrue(r, code)
  PROVE  CodeTrue(r, code)'
<1>1. \A t \in Tool : tool[<<r, t>>].status \in {"completed", "failed"} =>
        tool'[<<r, t>>] = tool[<<r, t>>]
  <2> SUFFICES ASSUME NEW t \in Tool, tool[<<r, t>>].status \in {"completed", "failed"}
               PROVE  tool'[<<r, t>>] = tool[<<r, t>>]
    OBVIOUS
  <2>1. <<r, t>> \in Caller \X Tool
    OBVIOUS
  <2> QED BY <2>1, RowsStand
<1>2. SomeFailed(r) => SomeFailed(r)'
  BY <1>1 DEF SomeFailed
<1>3. SomeUnsound(r) => SomeUnsound(r)'
  BY <1>1 DEF SomeUnsound, Tool
<1>4. SomeAbandoned(r) => SomeAbandoned(r)'
  BY AbandonedStands DEF SomeAbandoned
<1> QED BY <1>2, <1>3, <1>4 DEF CodeTrue

LEMMA CodesStep ==
  ASSUME IInv, HInv, [Next]_vars
  PROVE  CodesTrue'
<1> SUFFICES ASSUME NEW r \in Caller, NEW i \in DOMAIN log'[r], NEW code, log'[r][i].code = code
             PROVE  CodeTrue(r, code)'
  BY DEF CodesTrue
<1>1. SUFFICES CodeTrue(r, code)
  BY CodeStands
<1>2. /\ log[r] \in Seq(Event)
      /\ \A j \in DOMAIN log[r] : CodeTrue(r, log[r][j].code)
  BY DEF IInv, TypeOK, HInv, CodesTrue
<1>3. CodeTrue(r, None)
  BY NoneIsNothingElse DEF CodeTrue, Code
<1>4. ASSUME NEW e, log'[r] = Append(log[r], e) PROVE code = e.code \/ CodeTrue(r, code)
  <2>1. (i \in DOMAIN log[r] /\ log'[r][i] = log[r][i]) \/ log'[r][i] = e
    BY <1>2, <1>4
  <2> QED BY <1>2, <2>1
<1>5. CASE Keeps(r)
  BY <1>2, <1>5 DEF Keeps
<1>6. CASE Rejects(r)
  <2>1. PICK s \in RunState : log'[r] = Append(log[r], [from |-> s, to |-> s, code |-> None])
    BY <1>6 DEF Rejects
  <2>2. code = [from |-> s, to |-> s, code |-> None].code \/ CodeTrue(r, code)
    BY <1>4, <2>1
  <2> QED BY <1>3, <2>2
<1>7. CASE Begins(r)
  <2>1. code = [from |-> None, to |-> "created", code |-> None].code \/ CodeTrue(r, code)
    BY <1>4, <1>7 DEF Begins
  <2> QED BY <1>3, <2>1
<1>8. CASE Decides(r)
  <2>1. PICK s \in {"approved", "edited_and_approved", "rejected", "escalated"} :
          log'[r] = Append(Append(log[r], [from |-> "awaiting_human", to |-> s, code |-> None]),
                           [from |-> s, to |-> "closed", code |-> None])
    BY <1>8 DEF Decides
  <2> DEFINE e1 == [from |-> "awaiting_human", to |-> s, code |-> None]
             e2 == [from |-> s, to |-> "closed", code |-> None]
  <2>2. e1 \in Event /\ e1.code = None /\ e2.code = None
    BY DEF Event, RunState
  <2> HIDE DEF e1, e2
  <2>3. /\ DOMAIN Append(Append(log[r], e1), e2) = 1..(Len(log[r]) + 2)
        /\ \A j \in 1..Len(log[r]) : Append(Append(log[r], e1), e2)[j] = log[r][j]
        /\ Append(Append(log[r], e1), e2)[Len(log[r]) + 1] = e1
        /\ Append(Append(log[r], e1), e2)[Len(log[r]) + 2] = e2
        /\ Len(log[r]) \in Nat /\ DOMAIN log[r] = 1..Len(log[r])
    BY <1>2, <2>2
  <2>4. log'[r] = Append(Append(log[r], e1), e2)
    BY <2>1 DEF e1, e2
  <2>5. \/ i \in DOMAIN log[r] /\ log'[r][i] = log[r][i]
        \/ log'[r][i] = e1
        \/ log'[r][i] = e2
    BY <2>3, <2>4
  <2> QED BY <1>2, <1>3, <2>2, <2>5
<1>9. ASSUME NEW p \in Caller, Advances(r, call[p]) PROVE CodeTrue(r, code)
  <2> DEFINE e == [from |-> call[p].state, to |-> Target(call[p]), code |-> Stop(call[p])]
  <2>1. log'[r] = Append(log[r], e) /\ e.code = Stop(call[p])
    BY <1>9 DEF Advances
  <2> HIDE DEF e
  <2> QED BY <1>4, <1>9, <2>1, AdvancesTruly
<1> QED BY <1>5, <1>6, <1>7, <1>8, <1>9, LogStep DEF LogWrite, HInv

\* How rows change: a call is begun, or it ends with a result.
LEMMA RowsChange ==
  ASSUME IInv, [Next]_vars, NEW at \in Caller \X Tool, tool'[at] # tool[at]
  PROVE  \E p \in Caller :
           \/ ClaimTool(p) /\ At(p) = at
           \/ ToolReturns(p) /\ At(p) = at /\ tool'[at] \in Returns(at[2])
<1>0. tool \in [Caller \X Tool -> ToolRow]
  BY DEF IInv, TypeOK
<1>1. PICK p \in Caller : Acts(p)
  BY WhoActs
<1>2. CASE ClaimTool(p)
  <2>1. \E row : tool' = [tool EXCEPT ![At(p)] = row]
    BY <1>2 DEF ClaimTool
  <2>2. At(p) = at
    BY <1>0, <2>1
  <2> QED BY <1>2, <2>2
<1>3. CASE ToolReturns(p)
  <2>1. PICK row \in Returns(At(p)[2]) : tool' = [tool EXCEPT ![At(p)] = row]
    BY <1>3 DEF ToolReturns
  <2>2. At(p) = at /\ tool'[at] = row
    BY <1>0, <2>1
  <2> QED BY <1>3, <2>1, <2>2
<1>4. CASE Intake(p)
  BY <1>4 DEF Intake, Find, Claim, Observe, RejectIntake
<1>5. CASE Transition(p)
  BY <1>5 DEF Transition, Advance, Conflict, ReadForRejection, RejectControl, Reload
<1>6. CASE ReuseResult(p) \/ RefuseRetry(p) \/ Die(p) \/ LoseLock(p)
  BY <1>6 DEF ReuseResult, RefuseRetry, Die, LoseLock
<1> QED BY <1>1, <1>2, <1>3, <1>4, <1>5, <1>6 DEF Acts, Step, UseTool

LEMMA StartedStep ==
  ASSUME IInv, HInv, [Next]_vars
  PROVE  StartedOK'
<1> SUFFICES ASSUME NEW at \in Caller \X Tool, tool'[at].status = "started"
             PROVE  \E p \in Caller : Owns(p, at)'
  BY DEF StartedOK
<1>0. TypeOK /\ call \in [Caller -> Call]
  BY DEF IInv, TypeOK
<1>1. CASE tool'[at] = tool[at]
  <2>1. PICK q \in Caller : Owns(q, at)
    BY <1>1 DEF HInv, StartedOK
  <2>2. CASE call'[q] = call[q]
    BY <2>1, <2>2 DEF Owns, At
  <2>3. CASE call'[q] # call[q]
    <3>1. Acts(q)
      BY <1>0, <2>3, WhoActs, OthersStay
    <3>2. call[q].pc = "holding" /\ At(q) = at /\ call[q].run = at[1] /\ call[q] \in Call
      BY <1>0, <2>1, <3>1, EndedStay DEF Owns
    <3>3. ToolReturns(q) \/ Die(q)
      BY <2>3, <3>1, <3>2, HoldersAct DEF LoseLock
    <3>4. ~ToolReturns(q)
      <4> SUFFICES ASSUME ToolReturns(q) PROVE FALSE
        OBVIOUS
      <4>1. PICK row \in Returns(At(q)[2]) : tool' = [tool EXCEPT ![At(q)] = row]
        BY DEF ToolReturns
      <4>2. tool'[at] = row /\ row.status # "started"
        BY <3>2, <4>1 DEF IInv, TypeOK, Returns
      <4> QED BY <4>2
    <3>5. call'[q] = [call[q] EXCEPT !.pc = "dead"]
      BY <1>0, <3>3, <3>4 DEF Die
    <3>6. call'[q].pc = "dead" /\ call'[q].run = at[1]
      BY <3>2, <3>5 DEF Call
    <3> QED BY <3>6 DEF Owns
  <2> QED BY <2>2, <2>3
<1>2. CASE tool'[at] # tool[at]
  <2>1. PICK p \in Caller :
          \/ ClaimTool(p) /\ At(p) = at
          \/ ToolReturns(p) /\ At(p) = at /\ tool'[at] \in Returns(at[2])
    BY <1>2, RowsChange
  <2>2. tool'[at] \notin Returns(at[2])
    BY DEF Returns
  <2>3. ClaimTool(p) /\ At(p) = at /\ call[p] \in Call
    BY <1>0, <2>1, <2>2
  <2>4. call'[p] = [call[p] EXCEPT !.pc = "holding"]
    BY <1>0, <2>3 DEF ClaimTool
  <2>5. /\ call'[p].pc = "holding" /\ call'[p].run = call[p].run
        /\ call'[p].state = call[p].state /\ call'[p].next = call[p].next
    BY <2>3, <2>4 DEF Call
  <2>6. call[p].run = at[1]
    BY <2>3 DEF At
  <2> QED BY <2>3, <2>5, <2>6 DEF Owns, At
<1> QED BY <1>1, <1>2

LEMMA StagesStep ==
  ASSUME IInv, HInv, [Next]_vars
  PROVE  StagesOK'
<1> SUFFICES ASSUME NEW r \in Caller
             PROVE  /\ run'[r].state = "quality_checks" => EvidenceGathered(r)'
                    /\ run'[r].state = "drafting_recommendation" =>
                         tool'[<<r, "reasoning">>].status = "completed"
                    /\ \A t \in EvidenceTool :
                         tool'[<<r, t>>].status = "completed" =>
                           tool'[<<r, t>>].result \in {"sound", "unsound"}
  BY DEF StagesOK
<1>1. ASSUME NEW t \in Tool, tool[<<r, t>>].status = "completed"
      PROVE  tool'[<<r, t>>].status = "completed"
  <2>1. <<r, t>> \in Caller \X Tool
    OBVIOUS
  <2> QED BY <1>1, <2>1, RowsStand
<1>2. EvidenceGathered(r) => EvidenceGathered(r)'
  BY <1>1 DEF EvidenceGathered, Tool
<1>3. "reasoning" \in Tool
  BY DEF Tool
<1>4. \/ run'[r].state = run[r].state
      \/ run'[r].state \notin {"quality_checks", "drafting_recommendation"}
      \/ \E p \in Caller : Advances(r, call[p])
  BY LogStep DEF LogWrite, HInv, Keeps, Rejects, Begins, Decides
<1>5. ASSUME NEW p \in Caller, Advances(r, call[p])
      PROVE  /\ run'[r].state = "quality_checks" => EvidenceGathered(r)
             /\ run'[r].state = "drafting_recommendation" =>
                  tool[<<r, "reasoning">>].status = "completed"
  <2>1. run'[r].state = Target(call[p])
    BY <1>5 DEF Advances
  <2> QED BY <1>5, <2>1, AdvancesTruly
<1>6. /\ run'[r].state = "quality_checks" => EvidenceGathered(r)'
      /\ run'[r].state = "drafting_recommendation" =>
           tool'[<<r, "reasoning">>].status = "completed"
  BY <1>1, <1>2, <1>3, <1>4, <1>5 DEF HInv, StagesOK
<1>7. ASSUME NEW t \in EvidenceTool, tool'[<<r, t>>].status = "completed"
      PROVE  tool'[<<r, t>>].result \in {"sound", "unsound"}
  <2>1. CASE tool'[<<r, t>>] = tool[<<r, t>>]
    BY <1>7, <2>1 DEF HInv, StagesOK
  <2>2. CASE tool'[<<r, t>>] # tool[<<r, t>>]
    <3>1. <<r, t>> \in Caller \X Tool
      BY DEF Tool
    <3>2. PICK p \in Caller :
            \/ ClaimTool(p) /\ At(p) = <<r, t>>
            \/ ToolReturns(p) /\ tool'[<<r, t>>] \in Returns(<<r, t>>[2])
      BY <2>2, <3>1, RowsChange
    <3>3. ~(ClaimTool(p) /\ At(p) = <<r, t>>)
      <4> SUFFICES ASSUME ClaimTool(p), At(p) = <<r, t>> PROVE FALSE
        OBVIOUS
      <4>1. tool'[<<r, t>>] = [status |-> "started", result |-> None]
        BY <3>1 DEF ClaimTool, IInv, TypeOK
      <4> QED BY <1>7, <4>1
    <3>4. tool'[<<r, t>>] \in Returns(t)
      BY <3>2, <3>3
    <3>5. t # "reasoning"
      BY DEF EvidenceTool
    <3>6. \A row \in Returns(t) : row.status = "completed" => row.result \in {"sound", "unsound"}
      BY <3>5 DEF Returns
    <3> QED BY <1>7, <3>4, <3>6
  <2> QED BY <2>1, <2>2
<1> QED BY <1>6, <1>7

LEMMA HonestInit == Init => HInv
<1> SUFFICES ASSUME Init PROVE HInv
  OBVIOUS
<1>1. ReviewsRead
  BY DEF Init, NewReview, ReviewsRead
<1>2. StartedOK
  BY DEF Init, NoToolRow, StartedOK
<1>3. StagesOK
  <2>1. \A r \in Caller, t \in EvidenceTool : tool[<<r, t>>].status = "absent"
    BY DEF Init, NoToolRow, Tool
  <2>2. \A r \in Caller : run[r].state = "absent"
    BY DEF Init, NoRun
  <2> QED BY <2>1, <2>2 DEF StagesOK
<1>4. CodesTrue
  BY DEF Init, CodesTrue
<1>5. \A p \in Caller : HonestCall(call[p])
  BY DEF Init, NewCall, HonestCall
<1> QED BY <1>1, <1>2, <1>3, <1>4, <1>5 DEF HInv

LEMMA HonestStep ==
  ASSUME IInv, HInv, [Next]_vars
  PROVE  HInv'
<1>1. ReviewsRead'
  BY ReviewsReadKeeps DEF HInv
<1>2. ASSUME NEW p \in Caller PROVE HonestCall(call[p])'
  <2>1. CASE Acts(p)
    BY <2>1, ActorHonest
  <2>2. CASE ~Acts(p)
    <3>1. call'[p] = call[p]
      BY <2>2, WhoActs, OthersStay DEF IInv
    <3> QED BY <3>1, SameFields
  <2> QED BY <2>1, <2>2
<1> QED BY <1>1, <1>2, StartedStep, StagesStep, CodesStep DEF HInv

\* Both inductive invariants hold: what a request has read, and the code it is to
\* escalate its run with, have their reason in the rows and the calls.
THEOREM SecondInductive == Spec => [](IInv /\ HInv)
<1>1. Init => IInv /\ HInv
  BY InitKeeps, HonestInit
<1>2. (IInv /\ HInv) /\ [Next]_vars => (IInv /\ HInv)'
  BY NextKeeps, HonestStep
<1> QED BY <1>1, <1>2, PTL DEF Spec

\* An escalation tells the truth, whoever races, dies or loses a lock: a call that
\* is only slow is never taken for an abandoned one, and a code that was true when
\* it was written stays true (_forbidden_retry_code, _resume_step).
THEOREM EscalationsAreHonest == Spec => []EscalationIsHonest
<1>1. ASSUME HInv PROVE EscalationIsHonest
  <2> SUFFICES ASSUME NEW r \in Caller, NEW i \in DOMAIN log[r]
               PROVE  /\ log[r][i].code = "RETRY_FORBIDDEN" => SomeAbandoned(r)
                      /\ log[r][i].code = "TOOL_FAILED" => SomeFailed(r)
                      /\ log[r][i].code = "EVIDENCE_INVALID" =>
                           \E t \in EvidenceTool : tool[<<r, t>>].result = "unsound"
                      /\ log[r][i].code # "RESULT_UNAVAILABLE"
    BY DEF SomeAbandoned, SomeFailed, EscalationIsHonest
  <2>1. CodeTrue(r, log[r][i].code)
    BY <1>1 DEF HInv, CodesTrue
  <2> QED BY <2>1 DEF CodeTrue, SomeUnsound
<1> QED BY <1>1, SecondInductive, PTL

--------------------------------------------------------------------------------
(* The log leads to the run *)

PathOf(r) ==
  IF Exists(r) THEN IsPath(log[r], run[r].state, run[r].version) ELSE log[r] = <<>>

PInv == \A r \in Caller : PathOf(r)

LEMMA PathStep ==
  ASSUME IInv, HInv, PInv, [Next]_vars, NEW r \in Caller
  PROVE  PathOf(r)'
<1>0. PathOf(r) /\ log[r] \in Seq(Event) /\ TypeOK
  BY DEF PInv, IInv, TypeOK
<1>1. CASE Keeps(r)
  BY <1>0, <1>1 DEF Keeps, PathOf, Exists
<1>2. CASE Rejects(r)
  <2>1. PICK e \in Event : /\ e.from = e.to /\ log'[r] = Append(log[r], e)
                           /\ Exists(r) /\ run'[r] = run[r]
    <3>1. PICK s \in RunState : log'[r] = Append(log[r], [from |-> s, to |-> s, code |-> None])
      BY <1>2 DEF Rejects
    <3>2. [from |-> s, to |-> s, code |-> None] \in Event
      BY DEF Event
    <3> QED BY <1>2, <3>1, <3>2 DEF Rejects
  <2>2. IsPath(Append(log[r], e), run[r].state, run[r].version)
    BY <1>0, <2>1, PathRejects DEF PathOf
  <2> QED BY <2>1, <2>2 DEF PathOf, Exists
<1>3. CASE Begins(r)
  <2> DEFINE e == [from |-> None, to |-> "created", code |-> None]
  <2>1. /\ log'[r] = Append(<<>>, e) /\ run'[r].state = "created" /\ run'[r].version = 0
    BY <1>0, <1>3 DEF Begins, PathOf
  <2>2. e \in Event
    BY DEF Event, RunState
  <2>3. IsPath(Append(<<>>, e), "created", 0)
    BY <2>2, PathBegins
  <2> HIDE DEF e
  <2> QED BY <2>1, <2>3 DEF PathOf, Exists
<1>4. ASSUME NEW p \in Caller, Advances(r, call[p]) PROVE PathOf(r)'
  <2>1. PICK e \in Event, v \in Nat :
          /\ log'[r] = Append(log[r], e) /\ e.from \in RunState
          /\ e.to \in TRANSITIONS[e.from] /\ e.to # e.from
          /\ run[r].state = e.from /\ run[r].version = v
          /\ run'[r].state = e.to /\ run'[r].version = v + 1
          /\ e.from # "absent" /\ e.to # "absent"
    <3> DEFINE e == [from |-> call[p].state, to |-> Target(call[p]), code |-> Stop(call[p])]
    <3>1. /\ call[p].run = r /\ call[p].state \in Working /\ run[r].state = call[p].state
          /\ run[r].version \in Nat /\ run'[r].state = Target(call[p])
          /\ run'[r].version = run[r].version + 1 /\ log'[r] = Append(log[r], e)
      BY <1>4 DEF Advances
    <3>2. Target(call[p]) \in RunState /\ Stop(call[p]) \in Code \cup {None}
      BY <1>0, <3>1, CallFields, TargetOfTransition
    <3>3. call[p].state \in RunState
      BY <3>1 DEF Working, RunState
    <3>4. e \in Event /\ e.from = call[p].state /\ e.to = Target(call[p])
      BY <3>2, <3>3 DEF Event
    <3> HIDE DEF e
    <3>5. Target(call[p]) \in TRANSITIONS[call[p].state] /\ Target(call[p]) # call[p].state
      BY <1>4, AdvancesTruly
    <3>6. "absent" \notin RunState
      BY DEF RunState
    <3> QED BY <3>1, <3>2, <3>3, <3>4, <3>5, <3>6
  <2>2. IsPath(log[r], e.from, v)
    BY <1>0, <2>1 DEF PathOf, Exists
  <2>3. IsPath(Append(log[r], e), e.to, v + 1)
    BY <1>0, <2>1, <2>2, PathAdvances
  <2> QED BY <2>1, <2>3 DEF PathOf, Exists
<1>5. CASE Decides(r)
  <2>1. PICK s \in {"approved", "edited_and_approved", "rejected", "escalated"} :
          log'[r] = Append(Append(log[r], [from |-> "awaiting_human", to |-> s, code |-> None]),
                           [from |-> s, to |-> "closed", code |-> None])
    BY <1>5 DEF Decides
  <2> DEFINE e1 == [from |-> "awaiting_human", to |-> s, code |-> None]
             e2 == [from |-> s, to |-> "closed", code |-> None]
  <2>2. /\ e1 \in Event /\ e2 \in Event /\ e1.from = "awaiting_human" /\ e1.to = s
        /\ e2.from = s /\ e2.to = "closed"
    BY DEF Event, RunState
  <2>3. /\ s \in TRANSITIONS["awaiting_human"] /\ s # "awaiting_human"
        /\ "closed" \in TRANSITIONS[s] /\ s # "closed"
        /\ s \in RunState /\ "awaiting_human" \in RunState
    BY DEF TRANSITIONS, RunState
  <2>4. log'[r] = Append(Append(log[r], e1), e2)
    BY <2>1
  <2> HIDE DEF e1, e2
  <2>5. PICK v \in Nat : run[r].version = v
    BY <1>5 DEF Decides
  <2>6. /\ run[r].state = "awaiting_human" /\ run'[r].state = "closed" /\ run'[r].version = v + 2
    BY <1>5, <2>5 DEF Decides
  <2>7. IsPath(log[r], "awaiting_human", v)
    BY <1>0, <2>5, <2>6 DEF PathOf, Exists
  <2>8. IsPath(Append(log[r], e1), s, v + 1)
    BY <1>0, <2>2, <2>3, <2>7, PathAdvances
  <2>9. Append(log[r], e1) \in Seq(Event) /\ v + 1 \in Nat
    BY <1>0, <2>2
  <2>10. IsPath(Append(Append(log[r], e1), e2), "closed", v + 1 + 1)
    BY <2>2, <2>3, <2>8, <2>9, PathAdvances
  <2>11. v + 1 + 1 = v + 2
    OBVIOUS
  <2> QED BY <2>4, <2>6, <2>10, <2>11 DEF PathOf, Exists
<1> QED BY <1>1, <1>2, <1>3, <1>4, <1>5, LogStep DEF LogWrite, HInv

\* The audit of a run: the counted events are a path through TRANSITIONS from its
\* creation to its state, one event for every version, whenever a concurrent
\* rejection inserts the state it has read (service.audit, append_rejected_control).
THEOREM AuditsReplay == Spec => []AuditReplays
<1>1. ASSUME IInv, PInv PROVE AuditReplays
  <2> SUFFICES ASSUME NEW r \in Caller, Exists(r)
               PROVE  /\ log[r][1] = [from |-> None, to |-> "created", code |-> None]
                      /\ \A i \in Counted(r) \ {1} : Continues(log[r], i)
                      /\ Cardinality(Counted(r)) = run[r].version + 1
                      /\ ReplayedState(r) = run[r].state
    BY DEF AuditReplays, Continues, Counted, CountedIn
  <2>1. IsPath(log[r], run[r].state, run[r].version) /\ Counted(r) = CountedIn(log[r])
    BY <1>1 DEF PInv, PathOf, Counted, CountedIn
  <2>2. PICK i : IsLast(CountedIn(log[r]), i) /\ log[r][i].to = run[r].state
    BY <2>1 DEF IsPath
  <2>3. CountedIn(log[r]) \in SUBSET Int
    BY <1>1 DEF CountedIn, IInv, TypeOK
  <2>4. LastOf(CountedIn(log[r])) = i
    BY <2>2, <2>3, LastIs
  <2>5. ReplayedState(r) = log[r][LastOf(CountedIn(log[r]))].to
    BY <2>1 DEF ReplayedState, LastOf
  <2> QED BY <2>1, <2>2, <2>4, <2>5 DEF IsPath
<1>2. Init => PInv
  BY DEF Init, NoRun, PInv, PathOf, Exists
<1>3. IInv /\ HInv /\ PInv /\ [Next]_vars => PInv'
  BY PathStep DEF PInv
<1>4. Spec => []PInv
  BY <1>2, <1>3, SecondInductive, PTL DEF Spec
<1> QED BY <1>1, <1>4, Inductive, PTL

--------------------------------------------------------------------------------
(* The refinement of InvestigationCase *)

CaseOf(k) ==
  IF idem[k] = None THEN [phase |-> "none", mode |-> "human_review", draft |-> None]
  ELSE LET row == run[idem[k]]
       IN [phase |-> PhaseOf(row), mode |-> row.mode, draft |-> row.draft]
CaseMap == [k \in Key |-> CaseOf(k)]
ConsultedOf == {k \in Key : idem[k] # None /\ invocations[<<idem[k], "reasoning">>] > 0}
RecordedOf(k) == {t \in Tool : idem[k] # None /\ tool[<<idem[k], t>>].status = "completed"}
ResultsOf == [k \in Key |-> RecordedOf(k)]

\* Only a run has tool rows.
RowsOfRuns == \A at \in Caller \X Tool : tool[at].status # "absent" => Exists(at[1])

LEMMA RowsOfRunsStep ==
  ASSUME IInv, HInv, RowsOfRuns, [Next]_vars
  PROVE  RowsOfRuns'
<1> SUFFICES ASSUME NEW at \in Caller \X Tool, tool'[at].status # "absent"
             PROVE  Exists(at[1])'
  BY DEF RowsOfRuns
<1>1. at[1] \in Caller
  OBVIOUS
<1>2. Exists(at[1]) => Exists(at[1])'
  <2>1. \A r \in Caller : Exists(r) => Exists(r)'
    BY RunsStay DEF HInv
  <2> QED BY <1>1, <2>1 DEF Exists
<1>3. CASE tool'[at] = tool[at]
  BY <1>2, <1>3 DEF RowsOfRuns
<1>4. CASE tool'[at] # tool[at]
  <2>1. PICK p \in Caller : (ClaimTool(p) \/ ToolReturns(p)) /\ At(p) = at
    BY <1>4, RowsChange
  <2>2. call[p].pc \in {"resume", "holding"} /\ at[1] = call[p].run
    BY <2>1 DEF ClaimTool, ToolReturns, At
  <2>3. Exists(at[1])
    BY <2>2 DEF IInv, CallsOK, CallOK
  <2> QED BY <1>2, <2>3
<1> QED BY <1>3, <1>4

\* The states a run is in between its transactions.
StatesReached ==
  \A r \in Caller :
    run[r].state \in Working \cup {"absent", "awaiting_human", "escalated", "closed"}

LEMMA StatesReachedStep ==
  ASSUME IInv, HInv, StatesReached, [Next]_vars
  PROVE  StatesReached'
<1> SUFFICES ASSUME NEW r \in Caller
             PROVE  run'[r].state \in Working \cup {"absent", "awaiting_human", "escalated", "closed"}
  BY DEF StatesReached
<1>1. CASE Keeps(r) \/ Rejects(r) \/ Begins(r) \/ Decides(r)
  BY <1>1 DEF Keeps, Rejects, Begins, Decides, StatesReached, Working
<1>2. ASSUME NEW p \in Caller, Advances(r, call[p])
      PROVE  run'[r].state \in Working \cup {"awaiting_human", "escalated"}
  BY <1>2 DEF Advances, Target, Forward, Working
<1> QED BY <1>1, <1>2, LogStep DEF LogWrite, HInv

\* A run one of whose calls is not recorded yet is worked on, or escalated.
LEMMA StillRecords ==
  ASSUME IInv, StatesReached, NEW r \in Caller, Exists(r), NEW t \in Tool,
         tool[<<r, t>>].status = "started"
  PROVE  PhaseOf(run[r]) \in {"open", "escalated"}
<1>1. run[r].draft = None
  <2> SUFFICES ASSUME run[r].draft # None PROVE FALSE
    OBVIOUS
  <2>1. /\ tool[<<r, "reasoning">>] = [status |-> "completed", result |-> run[r].draft]
        /\ \A e \in EvidenceTool : tool[<<r, e>>] = [status |-> "completed", result |-> "sound"]
    BY DEF IInv, DraftIsGrounded
  <2>2. tool[<<r, "reasoning">>].status = "completed"
    BY <2>1
  <2>3. \A e \in EvidenceTool : tool[<<r, e>>].status = "completed"
    BY <2>1
  <2> QED BY <2>2, <2>3 DEF Tool
<1>2. run[r].state \notin {"awaiting_human", "closed"}
  BY <1>1 DEF IInv, DraftIsGrounded
<1>3. run[r].state \in Working \/ run[r].state = "escalated"
  BY <1>2 DEF StatesReached, Exists
<1> QED BY <1>3 DEF PhaseOf, Working

\* The same results are on record.
SameResults ==
  \A at \in Caller \X Tool : tool'[at].status = "completed" <=> tool[at].status = "completed"

LEMMA ResultsStay ==
  ASSUME TypeOK, idem' = idem, SameResults
  PROVE  ResultsOf' = ResultsOf
<1> SUFFICES ASSUME NEW k \in Key PROVE RecordedOf(k)' = RecordedOf(k)
  BY DEF ResultsOf
<1>1. idem[k] # None => idem[k] \in Caller
  BY DEF TypeOK
<1>2. \A t \in Tool : idem[k] # None => <<idem[k], t>> \in Caller \X Tool
  BY <1>1
<1> QED BY <1>2 DEF RecordedOf, SameResults

\* A step that leaves keys, rows of runs, calls of the model and results alone
\* leaves the cases alone.
LEMMA CasesStay ==
  ASSUME TypeOK, idem' = idem, run' = run, SameResults,
         \A r \in Caller : invocations'[<<r, "reasoning">>] = invocations[<<r, "reasoning">>]
  PROVE  CaseMap' = CaseMap /\ ConsultedOf' = ConsultedOf /\ ResultsOf' = ResultsOf
<1>1. \A k \in Key : idem[k] \in Caller \cup {None}
  BY DEF TypeOK
<1>2. CaseMap' = CaseMap
  BY DEF CaseMap, CaseOf, PhaseOf
<1>3. ConsultedOf' = ConsultedOf
  BY <1>1 DEF ConsultedOf
<1> QED BY <1>2, <1>3, ResultsStay

\* A step on the row of one run moves the case of its key.
LEMMA CaseMoves ==
  ASSUME IInv, NEW r \in Caller, Exists(r), NEW row, run' = [run EXCEPT ![r] = row],
         UNCHANGED <<idem, tool, invocations>>
  PROVE  /\ KeyOf[r] \in Key /\ ConsultedOf' = ConsultedOf /\ ResultsOf' = ResultsOf
         /\ CaseMap[KeyOf[r]] = [phase |-> PhaseOf(run[r]), mode |-> run[r].mode,
                                 draft |-> run[r].draft]
         /\ CaseMap' = [CaseMap EXCEPT ![KeyOf[r]] =
                          [phase |-> PhaseOf(row), mode |-> row.mode, draft |-> row.draft]]
<1> DEFINE k == KeyOf[r]
<1>1. k \in Key /\ idem[k] = r /\ r # None
  BY KeyAssumption, NoneIsNothingElse DEF IInv, KeysOK
<1>2. run'[r] = row /\ \A x \in Caller \ {r} : run'[x] = run[x]
  BY DEF IInv, TypeOK
<1>3. ASSUME NEW x \in Key \ {k} PROVE CaseOf(x)' = CaseOf(x)
  <2>1. idem[x] # None => idem[x] \in Caller \ {r}
    BY <1>3 DEF IInv, TypeOK, KeysOK
  <2>2. idem[x] # None => run'[idem[x]] = run[idem[x]]
    BY <1>2, <2>1
  <2> QED BY <2>2 DEF CaseOf, PhaseOf
<1>4. /\ CaseOf(k) = [phase |-> PhaseOf(run[r]), mode |-> run[r].mode, draft |-> run[r].draft]
      /\ CaseOf(k)' = [phase |-> PhaseOf(row), mode |-> row.mode, draft |-> row.draft]
  BY <1>1, <1>2 DEF CaseOf, PhaseOf
<1>5. ConsultedOf' = ConsultedOf /\ ResultsOf' = ResultsOf
  BY DEF ConsultedOf, ResultsOf, RecordedOf
<1> HIDE DEF k
<1>6. CaseMap' = [CaseMap EXCEPT ![k] = CaseOf(k)'] /\ CaseMap[k] = CaseOf(k)
  BY <1>1, <1>3 DEF CaseMap
<1> QED BY <1>1, <1>4, <1>5, <1>6 DEF k

\* The steps of InvestigationCase, on the case of k.
CaseOpens(k) ==
  /\ CaseMap[k] = [phase |-> "none", mode |-> "human_review", draft |-> None]
  /\ \E mode \in Mode : CaseMap' = [CaseMap EXCEPT ![k].phase = "open", ![k].mode = mode]
  /\ ConsultedOf' = ConsultedOf /\ ResultsOf' = ResultsOf
CaseConsults(k) ==
  /\ CaseMap[k].phase = "open" /\ k \notin ConsultedOf /\ EvidenceTool \subseteq ResultsOf[k]
  /\ ConsultedOf' = ConsultedOf \cup {k} /\ CaseMap' = CaseMap /\ ResultsOf' = ResultsOf
CaseRecords(k, t) ==
  /\ CaseMap[k].phase \in {"open", "escalated"} /\ t \in Tool \ ResultsOf[k]
  /\ t = "reasoning" => k \in ConsultedOf
  /\ ResultsOf' = [ResultsOf EXCEPT ![k] = ResultsOf[k] \cup {t}]
  /\ CaseMap' = CaseMap /\ ConsultedOf' = ConsultedOf
CaseRecommends(k) ==
  /\ CaseMap[k].phase = "open" /\ k \in ConsultedOf /\ ResultsOf[k] = Tool
  /\ \E draft \in Draft :
       CaseMap' = [CaseMap EXCEPT ![k].phase = "recommended", ![k].draft = draft]
  /\ ConsultedOf' = ConsultedOf /\ ResultsOf' = ResultsOf
CaseEscalates(k) ==
  /\ CaseMap[k].phase = "open" /\ CaseMap' = [CaseMap EXCEPT ![k].phase = "escalated"]
  /\ ConsultedOf' = ConsultedOf /\ ResultsOf' = ResultsOf
CaseDecides(k) ==
  /\ CaseMap[k].phase = "recommended" /\ CaseMap[k].mode = "human_review"
  /\ CaseMap' = [CaseMap EXCEPT ![k].phase = "decided"]
  /\ ConsultedOf' = ConsultedOf /\ ResultsOf' = ResultsOf

CaseStep ==
  \/ CaseMap' = CaseMap /\ ConsultedOf' = ConsultedOf /\ ResultsOf' = ResultsOf
  \/ \E k \in Key : \/ CaseOpens(k) \/ CaseConsults(k) \/ CaseRecommends(k)
                    \/ CaseEscalates(k) \/ CaseDecides(k)
                    \/ \E t \in Tool : CaseRecords(k, t)

LEMMA CaseMapIsFunction == CaseMap = [i \in Key |-> CaseMap[i]]
BY DEF CaseMap

LEMMA ClaimOpens ==
  ASSUME IInv, RowsOfRuns, NEW p \in Caller, Claim(p)
  PROVE  CaseOpens(KeyOf[p])
<1> DEFINE k == KeyOf[p]
<1>1. /\ idem' = [idem EXCEPT ![k] = p] /\ idem[k] = None /\ k \in Key /\ p # None
      /\ UNCHANGED <<tool, invocations>>
  BY KeyAssumption, NoneIsNothingElse DEF Claim, KeyFree
<1>2. PICK mode \in Mode :
        run' = [run EXCEPT ![p] = [NoRun EXCEPT !.state = "created", !.mode = mode]]
  BY DEF Claim
<1> DEFINE row == [NoRun EXCEPT !.state = "created", !.mode = mode]
<1>3. row.state = "created" /\ row.mode = mode /\ row.draft = None
  BY DEF NoRun
<1>4. run' = [run EXCEPT ![p] = row]
  BY <1>2
<1> HIDE DEF row
<1>5. /\ idem'[k] = p /\ \A x \in Key \ {k} : idem'[x] = idem[x]
      /\ run'[p] = row /\ \A x \in Caller \ {p} : run'[x] = run[x]
  BY <1>1, <1>4 DEF IInv, TypeOK
<1>6. ~Exists(p)
  BY <1>1, NoneIsNothingElse DEF IInv, KeysOK
<1>7. \A x \in Key : idem[x] # None => idem[x] \in Caller \ {p}
  BY <1>6 DEF IInv, TypeOK, KeysOK
<1>8. ASSUME NEW x \in Key \ {k} PROVE CaseOf(x)' = CaseOf(x)
  <2>1. idem'[x] = idem[x] /\ (idem[x] # None => run'[idem[x]] = run[idem[x]])
    BY <1>5, <1>7
  <2> QED BY <2>1 DEF CaseOf, PhaseOf
<1>9. /\ CaseOf(k) = [phase |-> "none", mode |-> "human_review", draft |-> None]
      /\ CaseOf(k)' = [phase |-> "open", mode |-> mode, draft |-> None]
  <2>1. PhaseOf(row) = "open"
    BY <1>3 DEF PhaseOf, Working
  <2> QED BY <1>1, <1>3, <1>5, <2>1 DEF CaseOf, PhaseOf
<1>10. invocations[<<p, "reasoning">>] = 0
  <2>1. <<p, "reasoning">> \in Caller \X Tool
    BY DEF Tool
  <2>2. tool[<<p, "reasoning">>].status = "absent"
    BY <1>6, <2>1 DEF RowsOfRuns
  <2> QED BY <2>1, <2>2 DEF IInv, ToolsOK
<1>11. ConsultedOf' = ConsultedOf
  BY <1>1, <1>5, <1>7, <1>10 DEF ConsultedOf
<1>14. ResultsOf' = ResultsOf
  <2>1. ASSUME NEW x \in Key \ {k} PROVE RecordedOf(x)' = RecordedOf(x)
    BY <1>1, <1>5 DEF RecordedOf
  <2>2. ASSUME NEW t \in Tool PROVE tool[<<p, t>>].status # "completed"
    <3>1. <<p, t>> \in Caller \X Tool
      OBVIOUS
    <3> QED BY <1>6, <3>1 DEF RowsOfRuns
  <2>3. RecordedOf(k)' = {} /\ RecordedOf(k) = {}
    BY <1>1, <1>5, <2>2 DEF RecordedOf
  <2> QED BY <2>1, <2>3 DEF ResultsOf
<1> HIDE DEF k
<1>12. CaseMap' = [CaseMap EXCEPT ![k] = CaseOf(k)'] /\ CaseMap[k] = CaseOf(k)
  BY <1>1, <1>8 DEF CaseMap
<1>13. CaseMap' = [CaseMap EXCEPT ![k].phase = "open", ![k].mode = mode]
  <2>1. CaseMap[k] = [phase |-> "none", mode |-> "human_review", draft |-> None]
    BY <1>9, <1>12
  <2> DEFINE g == [CaseMap EXCEPT ![k] = [phase |-> "open", mode |-> "human_review", draft |-> None]]
  <2>2. [CaseMap EXCEPT ![k].phase = "open"] = g
    <3>1. [CaseMap[k] EXCEPT !.phase = "open"] = [phase |-> "open", mode |-> "human_review", draft |-> None]
      BY <2>1
    <3> QED BY <3>1
  <2>3. g[k] = [phase |-> "open", mode |-> "human_review", draft |-> None] /\ \A z : [g EXCEPT ![k] = z] = [CaseMap EXCEPT ![k] = z]
    BY <1>1, CaseMapIsFunction
  <2> HIDE DEF g
  <2>4. [g[k] EXCEPT !.mode = mode] = [phase |-> "open", mode |-> mode, draft |-> None]
    BY <2>3
  <2>5. [g EXCEPT ![k].mode = mode] = [CaseMap EXCEPT ![k] = [phase |-> "open", mode |-> mode, draft |-> None]]
    BY <2>3, <2>4
  <2>6. [CaseMap EXCEPT ![k].phase = "open", ![k].mode = mode] = [CaseMap EXCEPT ![k] = [phase |-> "open", mode |-> mode, draft |-> None]]
    BY <2>2, <2>5 DEF g
  <2> QED BY <1>9, <1>12, <2>6
<1> QED BY <1>9, <1>11, <1>12, <1>13, <1>14 DEF CaseOpens, k

LEMMA ClaimToolConsults ==
  ASSUME IInv, HInv, NEW p \in Caller, ClaimTool(p)
  PROVE  CaseStep
<1>1. PICK r \in Caller, t \in Tool :
        /\ At(p) = <<r, t>> /\ call[p].run = r
        /\ t = "reasoning" => call[p].state = "reasoning"
  <2>1. call[p].pc = "resume" /\ ToolsLeft(p) /\ call[p].run # None /\ call[p].state \in Working
    BY DEF ClaimTool, IInv, CallsOK, CallOK
  <2>2. /\ At(p) \in Caller \X Tool /\ At(p)[1] = call[p].run
        /\ call[p].state \in {"gathering_evidence", "reasoning"}
        /\ call[p].state = "gathering_evidence" => At(p)[2] \in EvidenceTool
    BY <2>1, PlaceOfCall DEF IInv
  <2>3. "reasoning" \notin EvidenceTool
    BY DEF EvidenceTool
  <2>4. At(p) = <<At(p)[1], At(p)[2]>> /\ At(p)[1] \in Caller /\ At(p)[2] \in Tool
    BY <2>2
  <2> QED BY <2>2, <2>3, <2>4
<1>2. /\ idem' = idem /\ run' = run /\ tool[<<r, t>>].status = "absent"
      /\ invocations' = [invocations EXCEPT ![<<r, t>>] = invocations[<<r, t>>] + 1]
  <2>1. /\ idem' = idem /\ run' = run /\ tool[At(p)].status = "absent"
        /\ invocations' = [invocations EXCEPT ![At(p)] = invocations[At(p)] + 1]
    BY DEF ClaimTool, MayClaim
  <2> QED BY <1>1, <2>1
<1>3. r # None /\ Exists(r) /\ idem[KeyOf[p]] = r /\ KeyOf[p] \in Key
  <2>1. r # None /\ CallOK(p, call[p]) /\ KeyOf[p] \in Key
    BY KeyAssumption, NoneIsNothingElse DEF IInv, CallsOK
  <2> QED BY <1>1, <2>1 DEF CallOK
<1>4. \A x \in Caller : <<x, "reasoning">> \in Caller \X Tool
  BY DEF Tool
<1>7. SameResults
  <2>1. tool[At(p)].status = "absent" /\ tool' = [tool EXCEPT ![At(p)] = [status |-> "started", result |-> None]]
    BY DEF ClaimTool, MayClaim
  <2> QED BY <2>1 DEF IInv, TypeOK, SameResults
<1>5. CASE t # "reasoning"
  <2>1. \A x \in Caller : invocations'[<<x, "reasoning">>] = invocations[<<x, "reasoning">>]
    BY <1>2, <1>4, <1>5 DEF IInv, TypeOK
  <2> QED BY <1>2, <1>7, <2>1, CasesStay DEF IInv, CaseStep
<1>6. CASE t = "reasoning"
  <2>1. run[r].state = "reasoning"
    <3>1. call[p].run = r /\ call[p].state = "reasoning" /\ HonestCall(call[p])
      BY <1>1, <1>6 DEF HInv
    <3>2. run[r].state = "reasoning" \/ Called(r)
      BY <1>3, <3>1 DEF HonestCall, Honest
    <3> QED BY <1>2, <1>6, <3>2 DEF Called
  <2>2. /\ invocations[<<r, "reasoning">>] = 0 /\ invocations'[<<r, "reasoning">>] = 1
        /\ \A x \in Caller \ {r} :
             invocations'[<<x, "reasoning">>] = invocations[<<x, "reasoning">>]
    BY <1>2, <1>4, <1>6 DEF IInv, TypeOK, ToolsOK
  <2>3. \A x \in Key : idem[x] # None => idem[x] \in Caller /\ KeyOf[idem[x]] = x
    BY DEF IInv, TypeOK, KeysOK
  <2>4. KeyOf[r] = KeyOf[p]
    BY <1>3, <2>3
  <2>5. KeyOf[p] \notin ConsultedOf /\ ConsultedOf' = ConsultedOf \cup {KeyOf[p]}
    BY <1>2, <1>3, <2>2, <2>3, <2>4 DEF ConsultedOf
  <2>6. CaseMap' = CaseMap
    BY <1>2 DEF CaseMap, CaseOf, PhaseOf
  <2>7. CaseMap[KeyOf[p]].phase = "open"
    <3>1. PhaseOf(run[r]) = "open"
      BY <2>1 DEF PhaseOf, Working
    <3> QED BY <1>3, <3>1 DEF CaseMap, CaseOf
  <2>8. EvidenceTool \subseteq ResultsOf[KeyOf[p]]
    <3>1. \A x \in EvidenceTool : tool[<<r, x>>].status = "completed"
      BY <2>1 DEF IInv, EvidenceOK, BundleValid
    <3> QED BY <1>3, <3>1 DEF ResultsOf, RecordedOf, Tool
  <2>9. ResultsOf' = ResultsOf
    BY <1>2, <1>7, ResultsStay DEF IInv
  <2>10. CaseConsults(KeyOf[p])
    BY <2>5, <2>6, <2>7, <2>8, <2>9 DEF CaseConsults
  <2> QED BY <1>3, <2>10 DEF CaseStep
<1> QED BY <1>5, <1>6

\* What a call returns is recorded for the run's case, or it is not a result.
LEMMA ReturnRecords ==
  ASSUME IInv, HInv, StatesReached, NEW p \in Caller, ToolReturns(p)
  PROVE  CaseStep
<1>1. /\ At(p) \in Caller \X Tool /\ At(p)[1] = call[p].run /\ tool[At(p)].status = "started"
      /\ CallOK(p, call[p]) /\ call[p].pc = "holding"
  BY HeldRow DEF ToolReturns, IInv, CallsOK
<1>2. PICK r \in Caller, t \in Tool : At(p) = <<r, t>> /\ call[p].run = r
  BY <1>1
<1>3. r # None /\ Exists(r) /\ idem[KeyOf[p]] = r /\ KeyOf[p] \in Key
  <2>1. r # None /\ KeyOf[p] \in Key
    BY KeyAssumption, NoneIsNothingElse
  <2> QED BY <1>1, <1>2, <2>1 DEF CallOK, Exists
<1>4. PICK row \in Returns(t) : tool' = [tool EXCEPT ![<<r, t>>] = row]
  <2>1. PICK row \in Returns(At(p)[2]) : tool' = [tool EXCEPT ![At(p)] = row]
    BY DEF ToolReturns
  <2>2. At(p)[2] = t
    BY <1>2
  <2>3. row \in Returns(t)
    BY <2>1, <2>2 DEF Returns
  <2> QED BY <1>2, <2>1, <2>3
<1>5. idem' = idem /\ run' = run /\ invocations' = invocations
  BY DEF ToolReturns
<1>6. tool \in [Caller \X Tool -> ToolRow] /\ tool[<<r, t>>].status = "started"
  BY <1>1, <1>2 DEF IInv, TypeOK
<1>7. CASE row.status # "completed"
  <2>1. SameResults
    BY <1>4, <1>6, <1>7 DEF SameResults
  <2> QED BY <1>5, <2>1, CasesStay DEF IInv, CaseStep
<1>8. CASE row.status = "completed"
  <2> DEFINE k == KeyOf[p]
  <2>1. ASSUME NEW x \in Key \ {k}, idem[x] # None PROVE idem[x] \in Caller \ {r}
    <3>1. idem[x] \in Caller /\ KeyOf[idem[x]] = x
      BY <2>1 DEF IInv, TypeOK, KeysOK
    <3>2. KeyOf[r] = k
      BY <1>3 DEF IInv, KeysOK
    <3> QED BY <3>1, <3>2
  <2>2. ASSUME NEW x \in Key \ {k} PROVE RecordedOf(x)' = RecordedOf(x)
    <3>1. \A u \in Tool : idem[x] # None => tool'[<<idem[x], u>>] = tool[<<idem[x], u>>]
      BY <1>4, <1>6, <2>1
    <3> QED BY <1>5, <3>1 DEF RecordedOf
  <2>3. RecordedOf(k)' = RecordedOf(k) \cup {t} /\ t \notin RecordedOf(k)
    <3>1. \A u \in Tool \ {t} : tool'[<<r, u>>] = tool[<<r, u>>]
      BY <1>4, <1>6
    <3>2. tool'[<<r, t>>].status = "completed"
      BY <1>4, <1>6, <1>8
    <3> QED BY <1>3, <1>5, <1>6, <3>1, <3>2 DEF RecordedOf
  <2> HIDE DEF k
  <2>4. ResultsOf' = [ResultsOf EXCEPT ![k] = ResultsOf[k] \cup {t}] /\ t \notin ResultsOf[k]
    BY <1>3, <2>2, <2>3 DEF ResultsOf, k
  <2>5. CaseMap' = CaseMap /\ ConsultedOf' = ConsultedOf
    BY <1>5 DEF CaseMap, CaseOf, PhaseOf, ConsultedOf
  <2>6. CaseMap[k].phase \in {"open", "escalated"}
    <3>1. PhaseOf(run[r]) \in {"open", "escalated"}
      BY <1>3, <1>6, StillRecords
    <3> QED BY <1>3, <3>1 DEF CaseMap, CaseOf, k
  <2>7. t = "reasoning" => k \in ConsultedOf
    <3>1. invocations[<<r, t>>] = 1
      BY <1>6 DEF IInv, ToolsOK
    <3> QED BY <1>3, <3>1 DEF ConsultedOf, k
  <2>8. CaseRecords(k, t)
    BY <2>4, <2>5, <2>6, <2>7 DEF CaseRecords
  <2> QED BY <1>3, <2>8 DEF CaseStep, k
<1> QED BY <1>7, <1>8

LEMMA AdvanceMovesCase ==
  ASSUME IInv, NEW p \in Caller, Advance(p)
  PROVE  CaseStep
<1> DEFINE c == call[p]
           r == c.run
           row == Moved(run[r], c)
           k == KeyOf[r]
<1>1. /\ c \in Call /\ r \in Caller /\ Exists(r) /\ c.state \in Working /\ run[r].state = c.state
      /\ run' = [run EXCEPT ![r] = row] /\ UNCHANGED <<idem, tool, invocations>>
  <2>1. /\ c.pc = "resume" /\ CallOK(p, c) /\ c \in Call /\ c.run \in Caller \cup {None}
    BY CallFields DEF IInv, CallsOK, Advance, Ready
  <2> QED BY <2>1 DEF CallOK, Advance, UnchangedSince
<1>2. run[r] \in RunRow /\ run[r].draft = None
  BY <1>1, RunFields DEF IInv, DraftIsGrounded, Working
<1>3. row.state = Target(c) /\ row.mode = run[r].mode
      /\ row.draft = IF Target(c) = "awaiting_human" THEN tool[<<r, "reasoning">>].result ELSE None
  BY <1>2 DEF Moved, RunRow
<1>4. /\ Target(c) \in Working \cup {"awaiting_human", "escalated"}
      /\ Target(c) = "awaiting_human" =>
           /\ tool[<<r, "reasoning">>].result \in Draft
           /\ invocations[<<r, "reasoning">>] = 1
           /\ \A t \in Tool : tool[<<r, t>>].status = "completed"
  <2>1. Target(c) \in Working \cup {"awaiting_human", "escalated"}
    BY <1>1 DEF Target, Forward, Working
  <2>2. Target(c) = "awaiting_human" =>
          BundleValid(r) /\ tool[<<r, "reasoning">>].status = "completed"
    BY <1>1, TargetOfTransition
  <2>3. <<r, "reasoning">> \in Caller \X Tool
    BY <1>1 DEF Tool
  <2>4. Target(c) = "awaiting_human" => \A t \in Tool : tool[<<r, t>>].status = "completed"
    BY <2>2 DEF BundleValid, Tool
  <2> QED BY <1>1, <2>1, <2>2, <2>3, <2>4 DEF IInv, ToolsOK
<1>5. PhaseOf(run[r]) = "open"
  BY <1>1 DEF PhaseOf, Working
<1>6. /\ Target(c) \in Working => PhaseOf(row) = "open"
      /\ Target(c) = "awaiting_human" => PhaseOf(row) = "recommended"
      /\ Target(c) = "escalated" => PhaseOf(row) = "escalated"
  BY <1>3 DEF PhaseOf, Working
<1> HIDE DEF row
<1>7. /\ k \in Key /\ ConsultedOf' = ConsultedOf /\ ResultsOf' = ResultsOf
      /\ CaseMap[k] = [phase |-> PhaseOf(run[r]), mode |-> run[r].mode, draft |-> run[r].draft]
      /\ CaseMap' = [CaseMap EXCEPT ![k] =
                       [phase |-> PhaseOf(row), mode |-> row.mode, draft |-> row.draft]]
  BY <1>1, CaseMoves
<1>8. CaseMap[k] = [phase |-> "open", mode |-> run[r].mode, draft |-> None]
  BY <1>2, <1>5, <1>7
<1> HIDE DEF c, r, k
<1>9. CASE Target(c) \in Working
  <2>1. CaseMap' = [CaseMap EXCEPT ![k] = CaseMap[k]]
    BY <1>3, <1>6, <1>7, <1>8, <1>9 DEF Working
  <2>2. CaseMap' = CaseMap
    BY <1>7, <2>1 DEF CaseMap
  <2> QED BY <1>7, <2>2 DEF CaseStep
<1>10. CASE Target(c) = "awaiting_human"
  <2>1. PICK draft \in Draft : draft = tool[<<r, "reasoning">>].result
    BY <1>4, <1>10
  <2>2. CaseMap' = [CaseMap EXCEPT ![k] =
                     [phase |-> "recommended", mode |-> run[r].mode, draft |-> draft]]
    BY <1>3, <1>6, <1>7, <1>10, <2>1
  <2>3. CaseMap' = [CaseMap EXCEPT ![k].phase = "recommended", ![k].draft = draft]
    <3> DEFINE g == [CaseMap EXCEPT ![k] = [phase |-> "recommended", mode |-> run[r].mode, draft |-> None]]
    <3>2. [CaseMap EXCEPT ![k].phase = "recommended"] = g
      <4>1. [CaseMap[k] EXCEPT !.phase = "recommended"] = [phase |-> "recommended", mode |-> run[r].mode, draft |-> None]
        BY <1>8
      <4> QED BY <4>1
    <3>3. g[k] = [phase |-> "recommended", mode |-> run[r].mode, draft |-> None] /\ \A z : [g EXCEPT ![k] = z] = [CaseMap EXCEPT ![k] = z]
      BY <1>7, CaseMapIsFunction
    <3> HIDE DEF g
    <3>4. [g[k] EXCEPT !.draft = draft] = [phase |-> "recommended", mode |-> run[r].mode, draft |-> draft]
      BY <3>3
    <3>5. [g EXCEPT ![k].draft = draft] = [CaseMap EXCEPT ![k] = [phase |-> "recommended", mode |-> run[r].mode, draft |-> draft]]
      BY <3>3, <3>4
    <3>6. [CaseMap EXCEPT ![k].phase = "recommended", ![k].draft = draft] = [CaseMap EXCEPT ![k] = [phase |-> "recommended", mode |-> run[r].mode, draft |-> draft]]
      BY <3>2, <3>5 DEF g
    <3> QED BY <2>2, <3>6
  <2>4. k \in ConsultedOf
    <3>1. idem[k] = r /\ r # None
      BY <1>1, NoneIsNothingElse DEF IInv, KeysOK, k
    <3> QED BY <1>4, <1>7, <1>10, <3>1 DEF ConsultedOf
  <2>5. CaseMap[k].phase = "open"
    BY <1>8
  <2>7. ResultsOf[k] = Tool
    <3>1. idem[k] = r /\ r # None
      BY <1>1, NoneIsNothingElse DEF IInv, KeysOK, k
    <3> QED BY <1>4, <1>7, <1>10, <3>1 DEF ResultsOf, RecordedOf
  <2>6. CaseRecommends(k)
    BY <1>7, <2>3, <2>4, <2>5, <2>7 DEF CaseRecommends
  <2> QED BY <1>7, <2>6 DEF CaseStep
<1>11. CASE Target(c) = "escalated"
  <2>1. CaseMap' = [CaseMap EXCEPT ![k] =
                     [phase |-> "escalated", mode |-> run[r].mode, draft |-> None]]
    BY <1>3, <1>6, <1>7, <1>11
  <2>2. CaseMap' = [CaseMap EXCEPT ![k].phase = "escalated"]
    <3>1. [CaseMap[k] EXCEPT !.phase = "escalated"] =
            [phase |-> "escalated", mode |-> run[r].mode, draft |-> None]
      BY <1>8
    <3> QED BY <2>1, <3>1
  <2>3. CaseMap[k].phase = "open"
    BY <1>8
  <2>4. CaseEscalates(k)
    BY <1>7, <2>2, <2>3 DEF CaseEscalates
  <2> QED BY <1>7, <2>4 DEF CaseStep
<1> QED BY <1>4, <1>9, <1>10, <1>11

LEMMA DecideMovesCase ==
  ASSUME IInv, NEW v \in ReviewCall, Decide(v)
  PROVE  CaseStep
<1>1. PICK r \in Caller, draft \in Draft :
        /\ Exists(r) /\ MayDecide(r, ActorOf[v], draft)
        /\ run' = [run EXCEPT ![r].state = "closed", ![r].version = @ + 2]
  BY DEF Decide
<1> DEFINE row == [run[r] EXCEPT !.state = "closed", !.version = run[r].version + 2]
           k == KeyOf[r]
<1>2. run[r] \in RunRow /\ run[r].state = "awaiting_human" /\ run[r].mode = "human_review"
  <2>1. run[r] \in RunRow
    BY RunFields DEF IInv
  <2> QED BY <1>1, <2>1 DEF MayDecide, RunRow
<1>3. row.state = "closed" /\ row.mode = "human_review" /\ row.draft = run[r].draft
  BY <1>2 DEF RunRow
<1>4. run' = [run EXCEPT ![r] = row] /\ UNCHANGED <<idem, tool, invocations>>
  <2>1. run \in [Caller -> RunRow]
    BY DEF IInv, TypeOK
  <2>2. run' = [run EXCEPT ![r] = row]
    BY <1>1, <2>1 DEF RunRow
  <2> QED BY <2>2 DEF Decide
<1>5. PhaseOf(run[r]) = "recommended" /\ PhaseOf(row) = "decided"
  BY <1>2, <1>3 DEF PhaseOf, Working
<1> HIDE DEF row
<1>6. /\ k \in Key /\ ConsultedOf' = ConsultedOf /\ ResultsOf' = ResultsOf
      /\ CaseMap[k] = [phase |-> PhaseOf(run[r]), mode |-> run[r].mode, draft |-> run[r].draft]
      /\ CaseMap' = [CaseMap EXCEPT ![k] =
                       [phase |-> PhaseOf(row), mode |-> row.mode, draft |-> row.draft]]
  BY <1>1, <1>4, CaseMoves
<1> HIDE DEF k
<1>7. CaseMap[k] = [phase |-> "recommended", mode |-> "human_review", draft |-> run[r].draft]
  BY <1>2, <1>5, <1>6
<1>8. CaseMap' = [CaseMap EXCEPT ![k].phase = "decided"]
  <2>1. [CaseMap[k] EXCEPT !.phase = "decided"] =
          [phase |-> "decided", mode |-> "human_review", draft |-> run[r].draft]
    BY <1>7
  <2> QED BY <1>3, <1>5, <1>6, <2>1
<1>9. CaseMap[k].phase = "recommended" /\ CaseMap[k].mode = "human_review"
  BY <1>7
<1>10. CaseDecides(k)
  BY <1>6, <1>8, <1>9 DEF CaseDecides
<1> QED BY <1>6, <1>10 DEF CaseStep

LEMMA ExpiryKeepsCase ==
  ASSUME IInv, NEW r \in Caller, ExpireReview(r)
  PROVE  CaseStep
<1> DEFINE row == [run[r] EXCEPT !.expired = TRUE]
           k == KeyOf[r]
<1>1. /\ run[r].state = "awaiting_human" /\ Exists(r) /\ run' = [run EXCEPT ![r] = row]
      /\ UNCHANGED <<idem, tool, invocations>>
  BY DEF ExpireReview, Exists
<1>2. row.state = run[r].state /\ row.mode = run[r].mode /\ row.draft = run[r].draft
  <2>1. run[r] \in RunRow
    BY RunFields DEF IInv
  <2> QED BY <2>1 DEF RunRow
<1>3. PhaseOf(row) = PhaseOf(run[r])
  BY <1>2 DEF PhaseOf
<1> HIDE DEF row
<1>4. /\ k \in Key /\ ConsultedOf' = ConsultedOf /\ ResultsOf' = ResultsOf
      /\ CaseMap[k] = [phase |-> PhaseOf(run[r]), mode |-> run[r].mode, draft |-> run[r].draft]
      /\ CaseMap' = [CaseMap EXCEPT ![k] =
                       [phase |-> PhaseOf(row), mode |-> row.mode, draft |-> row.draft]]
  BY <1>1, CaseMoves
<1> HIDE DEF k
<1>5. CaseMap' = [CaseMap EXCEPT ![k] = CaseMap[k]]
  BY <1>2, <1>3, <1>4
<1>6. CaseMap' = CaseMap
  BY <1>4, <1>5, CaseMapIsFunction
<1> QED BY <1>4, <1>6 DEF CaseStep

LEMMA NextMovesCase ==
  ASSUME IInv, HInv, RowsOfRuns, StatesReached, [Next]_vars
  PROVE  CaseStep
<1>1. CASE UNCHANGED <<idem, run, tool, invocations>>
  BY <1>1, CasesStay DEF IInv, CaseStep, SameResults
<1>2. ASSUME NEW p \in Caller, Intake(p) PROVE CaseStep
  <2>1. CASE Claim(p)
    <3>1. KeyOf[p] \in Key
      BY KeyAssumption
    <3> QED BY <2>1, <3>1, ClaimOpens DEF CaseStep
  <2>2. CASE Find(p) \/ Observe(p) \/ RejectIntake(p)
    BY <1>1, <2>2 DEF Find, Observe, RejectIntake
  <2> QED BY <1>2, <2>1, <2>2 DEF Intake
<1>3. ASSUME NEW p \in Caller, UseTool(p) PROVE CaseStep
  <2>1. CASE ReuseResult(p) \/ RefuseRetry(p)
    BY <1>1, <2>1 DEF ReuseResult, RefuseRetry
  <2> QED BY <1>3, <2>1, ClaimToolConsults, ReturnRecords DEF UseTool
<1>4. ASSUME NEW p \in Caller, Transition(p) PROVE CaseStep
  <2>1. CASE Conflict(p) \/ ReadForRejection(p) \/ RejectControl(p) \/ Reload(p)
    BY <1>1, <2>1 DEF Conflict, ReadForRejection, RejectControl, Reload
  <2> QED BY <1>4, <2>1, AdvanceMovesCase DEF Transition
<1>5. ASSUME NEW p \in Caller, Die(p) \/ LoseLock(p) PROVE CaseStep
  BY <1>1, <1>5 DEF Die, LoseLock
<1>6. ASSUME NEW v \in ReviewCall, ReviewStep(v) PROVE CaseStep
  <2>1. CASE RefuseReview(v) \/ ReadForReviewRejection(v) \/ RejectReview(v)
    BY <1>1, <2>1 DEF RefuseReview, ReadForReviewRejection, RejectReview
  <2> QED BY <1>6, <2>1, DecideMovesCase DEF ReviewStep
<1>7. ASSUME NEW r \in Caller, ExpireReview(r) PROVE CaseStep
  BY <1>7, ExpiryKeepsCase
<1>8. CASE UNCHANGED vars
  BY <1>1, <1>8 DEF vars
<1> QED BY <1>2, <1>3, <1>4, <1>5, <1>6, <1>7, <1>8 DEF Next, Step

LEMMA InitMapsCase == Init => Cases!Init
<1> SUFFICES ASSUME Init PROVE Cases!Init
  OBVIOUS
<1>1. \A k \in Key : idem[k] = None
  BY DEF Init
<1> QED BY <1>1 DEF Cases!Init, Cases!NoCase

\* The whole spine - intake, races for a key, tool calls, transitions, crashes and
\* reviews - implements one case per key: consulted once, while open and with all
\* its evidence, then one recommendation on all results or one escalation, then at
\* most one decision; no result is taken back, and of the cases at rest only an
\* escalated one may still get a result.
THEOREM CaseRefinement == Spec => ImplementsCase
<1>1. Init => RowsOfRuns /\ StatesReached
  BY DEF Init, NoToolRow, NoRun, RowsOfRuns, StatesReached
<1>2. IInv /\ HInv /\ RowsOfRuns /\ StatesReached /\ [Next]_vars => RowsOfRuns' /\ StatesReached'
  BY RowsOfRunsStep, StatesReachedStep
<1>3. Spec => [](RowsOfRuns /\ StatesReached)
  BY <1>1, <1>2, SecondInductive, PTL DEF Spec
<1>4. CaseStep => [Cases!Next]_Cases!vars
  <2> USE DEF CaseMap, CaseOf, ConsultedOf, ResultsOf, RecordedOf, Cases!Tools, Tool, Cases!vars
  <2>1. CaseMap' = CaseMap /\ ConsultedOf' = ConsultedOf /\ ResultsOf' = ResultsOf
          => UNCHANGED Cases!vars
    OBVIOUS
  <2>2. \A k \in Key : CaseOpens(k) => Cases!Open(k)
    BY DEF CaseOpens, Cases!Open, Cases!NoCase
  <2>3. \A k \in Key : CaseConsults(k) => Cases!Consult(k)
    BY DEF CaseConsults, Cases!Consult
  <2>4. \A k \in Key, t \in Tool : CaseRecords(k, t) => Cases!Record(k, t)
    BY DEF CaseRecords, Cases!Record
  <2>5. \A k \in Key : CaseRecommends(k) => Cases!Recommend(k)
    BY DEF CaseRecommends, Cases!Recommend
  <2>6. \A k \in Key : CaseEscalates(k) => Cases!Escalate(k)
    BY DEF CaseEscalates, Cases!Escalate
  <2>7. \A k \in Key : CaseDecides(k) => Cases!Decide(k)
    BY DEF CaseDecides, Cases!Decide
  <2>8. Tool = Cases!Tools
    OBVIOUS
  <2> HIDE DEF CaseMap, CaseOf, ConsultedOf, ResultsOf, RecordedOf, Cases!Tools, Tool, Cases!vars
  <2> QED BY <2>1, <2>2, <2>3, <2>4, <2>5, <2>6, <2>7, <2>8 DEF CaseStep, Cases!Next
<1>5. IInv /\ HInv /\ RowsOfRuns /\ StatesReached /\ [Next]_vars => [Cases!Next]_Cases!vars
  BY <1>4, NextMovesCase
<1> QED BY <1>3, <1>5, InitMapsCase, SecondInductive, PTL
       DEF Spec, ImplementsCase, Cases!Spec

================================================================================
