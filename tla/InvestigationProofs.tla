--------------------------- MODULE InvestigationProofs ---------------------------
(***************************************************************************)
(* Proofs about Investigation for any number of requests, keys, drafts and *)
(* review calls, and whoever dies or loses a lock.                         *)
(***************************************************************************)
EXTENDS Investigation, TLAPS

--------------------------------------------------------------------------------
(* The inductive invariant, in named parts *)

\* A call c of the request p: it works on the run its key names, and what it has
\* read is the state of a run that exists.
CallOK(p, c) ==
  /\ c.pc \notin {"idle", "claim", "dead"} => c.run # None /\ c.state # None
  /\ c.run # None =>
       /\ Exists(c.run) /\ idem[KeyOf[p]] = c.run
       /\ c.pc \notin {"mismatch", "rejected", "dead"} => PayloadOf[c.run] = PayloadOf[p]
  /\ c.pc \in {"resume", "holding"} => c.state \in Working

CallsOK == \A p \in Caller : CallOK(p, call[p])

KeysOK ==
  /\ \A k \in Key : idem[k] # None => Exists(idem[k]) /\ KeyOf[idem[k]] = k
  /\ \A r \in Caller : Exists(r) => idem[KeyOf[r]] = r

\* DraftIsGrounded for one run.
GroundedAt(r) ==
  /\ run[r].draft # None =>
       /\ tool[<<r, "reasoning">>] = [status |-> "completed", result |-> run[r].draft]
       /\ \A t \in EvidenceTool : tool[<<r, t>>] = [status |-> "completed", result |-> "sound"]
  /\ run[r].draft # None <=> run[r].state \in {"awaiting_human", "closed"}

\* A tool call has one owner until it is recorded, with or without its lock.
HoldersOK ==
  /\ \A p \in Caller : call[p].pc = "holding" =>
       ToolsLeft(p) /\ tool[At(p)].status = "started"
  /\ \A p, q \in Caller :
       call[p].pc = "holding" /\ call[q].pc = "holding" /\ At(p) = At(q) => p = q

\* A row is inserted once, with the one call of its tool.
ToolsOK ==
  /\ \A at \in Caller \X Tool :
       invocations[at] = IF tool[at].status = "absent" THEN 0 ELSE 1
  /\ \A r \in Caller :
       tool[<<r, "reasoning">>].status = "completed" => tool[<<r, "reasoning">>].result \in Draft

ReviewsOK ==
  \A v \in ReviewCall : review[v].pc = "rejecting" =>
    review[v].run # None /\ review[v].state # None

\* Past the quality checks the evidence is sound and stays so.
EvidenceOK ==
  \A r \in Caller :
    run[r].state \in {"reasoning", "drafting_recommendation", "awaiting_human", "closed"}
      => BundleValid(r)

IInv ==
  /\ TypeOK /\ CallsOK /\ KeysOK /\ HoldersOK /\ ToolsOK /\ ReviewsOK /\ EvidenceOK
  /\ DraftIsGrounded /\ DecisionBinds

--------------------------------------------------------------------------------
(* What the parts say of one call, one tool row, one run *)

LEMMA NoneIsNothingElse ==
  /\ None \notin Caller /\ None \notin Draft /\ None \notin RunState
  /\ None \notin Code /\ None \notin Decision
  BY NoneAssumption

LEMMA CallFields ==
  ASSUME TypeOK, NEW p \in Caller
  PROVE  /\ call[p] \in Call /\ call[p].run \in Caller \cup {None}
         /\ call[p].state \in RunState \cup {None} /\ call[p].version \in Nat
         /\ call[p].next \in 1..4 /\ call[p].code \in Code \cup {None}
  BY DEF TypeOK, Call

\* The place of a call that has a tool left to use.
LEMMA PlaceOfCall ==
  ASSUME TypeOK, NEW p \in Caller, call[p].run # None, call[p].state \in Working,
         ToolsLeft(p)
  PROVE  /\ At(p) \in Caller \X Tool /\ call[p].next \in 1..3 /\ call[p].run \in Caller
         /\ At(p)[1] = call[p].run
         /\ call[p].state \in {"gathering_evidence", "reasoning"}
         /\ call[p].state = "reasoning" => At(p)[2] = "reasoning"
         /\ call[p].state = "gathering_evidence" => At(p)[2] \in EvidenceTool
  <1>1. call[p].run \in Caller /\ call[p].next \in 1..4 /\ call[p].next <= Len(Work(call[p].state))
    BY CallFields DEF ToolsLeft
  <1>2. CASE call[p].state = "gathering_evidence"
    <2>1. Work(call[p].state) = <<"T1_inventory", "T2_sales_demand", "T3_supplier">>
      BY <1>2 DEF Work
    <2>2. call[p].next \in 1..3
      BY <1>1, <2>1
    <2>3. Work(call[p].state)[call[p].next] \in EvidenceTool
      BY <2>1, <2>2 DEF EvidenceTool
    <2> QED
      BY <1>1, <1>2, <2>2, <2>3 DEF At, Tool
  <1>3. CASE call[p].state = "reasoning"
    <2>1. Work(call[p].state) = <<"reasoning">>
      BY <1>3 DEF Work
    <2>2. call[p].next = 1
      BY <1>1, <2>1
    <2>3. Work(call[p].state)[call[p].next] = "reasoning"
      BY <2>1, <2>2
    <2> QED
      BY <1>1, <1>3, <2>2, <2>3 DEF At, Tool
  <1>4. CASE call[p].state \notin {"gathering_evidence", "reasoning"}
    <2>1. Work(call[p].state) = <<>>
      BY <1>4 DEF Work
    <2>2. Len(Work(call[p].state)) = 0
      BY <2>1
    <2> QED
      BY <1>1, <2>2
  <1> QED
    BY <1>2, <1>3, <1>4

LEMMA RunFields ==
  ASSUME TypeOK, NEW r \in Caller
  PROVE  /\ run[r] \in RunRow /\ run[r].state \in RunState \cup {"absent"}
         /\ run[r].version \in Nat /\ run[r].draft \in Draft \cup {None}
         /\ Exists(r) => run[r].state \in RunState /\ run[r].state # None
  <1>1. /\ run[r] \in RunRow /\ run[r].state \in RunState \cup {"absent"}
        /\ run[r].version \in Nat /\ run[r].draft \in Draft \cup {None}
    BY DEF TypeOK, RunRow
  <1> QED
    BY <1>1, NoneIsNothingElse DEF Exists

\* A call that owns no tool call, now or after, moves on; the log may grow.
LEMMA CallMoves ==
  ASSUME IInv, NEW p \in Caller, NEW c \in Call, CallOK(p, c),
         call' = [call EXCEPT ![p] = c], call[p].pc # "holding", c.pc # "holding",
         log' \in [Caller -> Seq(Event)],
         UNCHANGED <<idem, run, tool, lock, decision, review, invocations>>
  PROVE  IInv'
  <1>1. call' \in [Caller -> Call] /\ call'[p] = c /\ \A q \in Caller \ {p} : call'[q] = call[q]
    BY DEF IInv, TypeOK
  <1>2. TypeOK'
    BY <1>1 DEF IInv, TypeOK
  <1>3. CallsOK'
    BY <1>1 DEF IInv, CallsOK, CallOK, Exists
  <1>4. KeysOK' /\ ToolsOK' /\ ReviewsOK' /\ EvidenceOK' /\ DraftIsGrounded' /\ DecisionBinds'
    BY DEF IInv, KeysOK, ToolsOK, ReviewsOK, EvidenceOK, DraftIsGrounded, DecisionBinds,
           Exists, BundleValid
  <1>5. \A q \in Caller : call'[q].pc = "holding" =>
          call[q].pc = "holding" /\ At(q)' = At(q) /\ ToolsLeft(q)' = ToolsLeft(q)
    BY <1>1 DEF At, ToolsLeft
  <1>6. HoldersOK'
    BY <1>5 DEF IInv, HoldersOK
  <1> QED
    BY <1>2, <1>3, <1>4, <1>6 DEF IInv

LEMMA LogGrows ==
  ASSUME TypeOK, NEW r \in Caller, NEW from \in RunState \cup {None}, NEW to \in RunState,
         NEW code \in Code \cup {None}, AppendEvent(r, from, to, code)
  PROVE  log' \in [Caller -> Seq(Event)]
  <1>1. [from |-> from, to |-> to, code |-> code] \in Event
    BY DEF Event
  <1> QED
    BY <1>1 DEF TypeOK, AppendEvent

\* What a request has read of an existing run is a call it can go on with.
LEMMA ViewOK ==
  ASSUME IInv, NEW p \in Caller, NEW r \in Caller, Exists(r), idem[KeyOf[p]] = r,
         NEW pc \in {"resume", "done", "mismatch", "rejecting"},
         pc = "resume" => run[r].state \in Working,
         pc # "mismatch" => PayloadOf[r] = PayloadOf[p],
         NEW c, c = [pc |-> pc, run |-> r, state |-> run[r].state,
                     version |-> run[r].version, next |-> 1, code |-> None]
  PROVE  c \in Call /\ CallOK(p, c) /\ c.pc # "holding"
  <1>1. run[r].state \in RunState /\ run[r].version \in Nat /\ run[r].state # None /\ r # None
    BY RunFields, NoneIsNothingElse DEF IInv
  <1>2. c \in Call
    BY <1>1 DEF Call
  <1>3. CallOK(p, c)
    BY <1>1 DEF CallOK
  <1> QED
    BY <1>2, <1>3

--------------------------------------------------------------------------------
(* Actions that move one call: intake, results of others, conflicts *)

LEMMA InitKeeps == Init => IInv
  <1> SUFFICES ASSUME Init PROVE IInv
    OBVIOUS
  <1>1. TypeOK
    <2>1. NoRun \in RunRow /\ NoToolRow \in ToolRow /\ NewCall \in Call /\ NewReview \in Review
      BY DEF NoRun, RunRow, NoToolRow, ToolRow, NewCall, Call, NewReview, Review
    <2>2. <<>> \in Seq(Event)
      OBVIOUS
    <2> QED
      BY <2>1, <2>2 DEF Init, TypeOK
  <1>2. CallsOK /\ HoldersOK
    BY DEF Init, NewCall, CallsOK, CallOK, HoldersOK
  <1>3. KeysOK
    BY DEF Init, NoRun, KeysOK, Exists
  <1>4. ToolsOK
    <2>1. \A at \in Caller \X Tool : tool[at].status = "absent" /\ invocations[at] = 0
      BY DEF Init, NoToolRow
    <2>2. \A r \in Caller : tool[<<r, "reasoning">>].status = "absent"
      BY <2>1 DEF Tool
    <2> QED
      BY <2>1, <2>2 DEF ToolsOK
  <1>5. ReviewsOK
    BY DEF Init, NewReview, ReviewsOK
  <1>6. EvidenceOK /\ DraftIsGrounded /\ DecisionBinds
    BY DEF Init, NoRun, EvidenceOK, DraftIsGrounded, DecisionBinds
  <1> QED
    BY <1>1, <1>2, <1>3, <1>4, <1>5, <1>6 DEF IInv

LEMMA FindKeeps ==
  ASSUME IInv, NEW p \in Caller, Find(p)
  PROVE  IInv'
  <1> DEFINE c == [call[p] EXCEPT !.pc = "claim"]
  <1>1. call[p] \in Call /\ CallOK(p, call[p]) /\ call[p].pc = "idle"
    BY DEF IInv, TypeOK, CallsOK, Find
  <1>2. c \in Call /\ c.pc = "claim" /\ c.run = call[p].run
    BY <1>1 DEF Call
  <1>3. CallOK(p, c)
    BY <1>1, <1>2 DEF CallOK
  <1>4. call' = [call EXCEPT ![p] = c]
    BY DEF Find
  <1> HIDE DEF c
  <1> QED
    BY <1>1, <1>2, <1>3, <1>4, CallMoves DEF Find, IInv, TypeOK

LEMMA ObserveKeeps ==
  ASSUME IInv, NEW p \in Caller, Observe(p)
  PROVE  IInv'
  <1> DEFINE r == idem[KeyOf[p]]
             pc == IF PayloadOf[r] = PayloadOf[p] THEN Resumed(run[r].state) ELSE "mismatch"
             c == [pc |-> pc, run |-> r, state |-> run[r].state,
                   version |-> run[r].version, next |-> 1, code |-> None]
  <1>1. KeyOf[p] \in Key /\ r # None
    BY KeyAssumption DEF Observe, KeyFree
  <1>2. r \in Caller /\ Exists(r)
    BY <1>1 DEF IInv, TypeOK, KeysOK
  <1>3. /\ pc \in {"resume", "done", "mismatch", "rejecting"}
        /\ pc = "resume" => run[r].state \in Working
        /\ pc # "mismatch" => PayloadOf[r] = PayloadOf[p]
    BY DEF Resumed
  <1>4. call' = [call EXCEPT ![p] = c] /\ call[p].pc # "holding"
    BY DEF Observe, View
  <1> HIDE DEF pc
  <1>5. c \in Call /\ CallOK(p, c) /\ c.pc # "holding"
    BY <1>2, <1>3, ViewOK
  <1> HIDE DEF c
  <1> QED
    BY <1>4, <1>5, CallMoves DEF Observe, IInv, TypeOK

LEMMA RejectIntakeKeeps ==
  ASSUME IInv, NEW p \in Caller, RejectIntake(p)
  PROVE  IInv'
  <1> DEFINE c == [call[p] EXCEPT !.pc = "rejected"]
  <1>1. call[p] \in Call /\ CallOK(p, call[p]) /\ call[p].pc = "mismatch"
    BY DEF IInv, TypeOK, CallsOK, RejectIntake
  <1>2. call[p].run \in Caller /\ call[p].state \in RunState
    BY <1>1, CallFields DEF CallOK, IInv
  <1>3. c \in Call /\ c.pc = "rejected" /\ c.run = call[p].run /\ c.state = call[p].state
    BY <1>1 DEF Call
  <1>4. CallOK(p, c)
    BY <1>1, <1>3 DEF CallOK
  <1>5. call' = [call EXCEPT ![p] = c]
    BY DEF RejectIntake
  <1>6. log' \in [Caller -> Seq(Event)]
    BY <1>2, LogGrows DEF RejectIntake, IInv
  <1> HIDE DEF c
  <1> QED
    BY <1>1, <1>3, <1>4, <1>5, <1>6, CallMoves DEF RejectIntake

LEMMA ReuseResultKeeps ==
  ASSUME IInv, NEW p \in Caller, ReuseResult(p)
  PROVE  IInv'
  <1> DEFINE c == [call[p] EXCEPT !.next = call[p].next + 1]
  <1>1. call[p] \in Call /\ CallOK(p, call[p]) /\ call[p].pc = "resume" /\ ToolsLeft(p)
    BY DEF IInv, TypeOK, CallsOK, ReuseResult
  <1>2. call[p].next \in 1..3
    BY <1>1, PlaceOfCall DEF CallOK, IInv
  <1>3. call[p].next + 1 \in 1..4
    BY <1>2
  <1>4. c \in Call /\ c.pc = call[p].pc /\ c.run = call[p].run /\ c.state = call[p].state
    BY <1>1, <1>3 DEF Call
  <1>5. CallOK(p, c)
    BY <1>1, <1>4 DEF CallOK
  <1>6. call' = [call EXCEPT ![p] = c]
    BY DEF ReuseResult
  <1> HIDE DEF c
  <1> QED
    BY <1>1, <1>4, <1>5, <1>6, CallMoves DEF ReuseResult, IInv, TypeOK

LEMMA RefuseRetryKeeps ==
  ASSUME IInv, NEW p \in Caller, RefuseRetry(p)
  PROVE  IInv'
  <1> DEFINE code == IF tool[At(p)].status = "failed" THEN "TOOL_FAILED" ELSE "RETRY_FORBIDDEN"
             c == [call[p] EXCEPT !.code = code]
  <1>1. call[p] \in Call /\ CallOK(p, call[p]) /\ call[p].pc = "resume"
    BY DEF IInv, TypeOK, CallsOK, RefuseRetry
  <1>2. code \in Code
    BY DEF Code
  <1>3. call' = [call EXCEPT ![p] = c]
    BY DEF RefuseRetry
  <1> HIDE DEF code
  <1>4. c \in Call /\ c.pc = call[p].pc /\ c.run = call[p].run /\ c.state = call[p].state
    BY <1>1, <1>2 DEF Call
  <1>5. CallOK(p, c)
    BY <1>1, <1>4 DEF CallOK
  <1> HIDE DEF c
  <1> QED
    BY <1>1, <1>3, <1>4, <1>5, CallMoves DEF RefuseRetry, IInv, TypeOK

LEMMA ConflictKeeps ==
  ASSUME IInv, NEW p \in Caller, Conflict(p)
  PROVE  IInv'
  <1> DEFINE c == [call[p] EXCEPT !.pc = "conflict"]
  <1>1. call[p] \in Call /\ CallOK(p, call[p]) /\ call[p].pc = "resume"
    BY DEF IInv, TypeOK, CallsOK, Conflict, Ready
  <1>2. c \in Call /\ c.pc = "conflict" /\ c.run = call[p].run /\ c.state = call[p].state
    BY <1>1 DEF Call
  <1>3. CallOK(p, c)
    BY <1>1, <1>2 DEF CallOK
  <1>4. call' = [call EXCEPT ![p] = c]
    BY DEF Conflict
  <1> HIDE DEF c
  <1> QED
    BY <1>1, <1>2, <1>3, <1>4, CallMoves DEF Conflict, IInv, TypeOK

LEMMA ReadForRejectionKeeps ==
  ASSUME IInv, NEW p \in Caller, ReadForRejection(p)
  PROVE  IInv'
  <1> DEFINE r == call[p].run
             c == [pc |-> "rejecting", run |-> r, state |-> run[r].state,
                   version |-> run[r].version, next |-> 1, code |-> None]
  <1>1. CallOK(p, call[p]) /\ call[p].pc = "conflict"
    BY DEF IInv, CallsOK, ReadForRejection
  <1>2. r \in Caller /\ Exists(r) /\ idem[KeyOf[p]] = r /\ PayloadOf[r] = PayloadOf[p]
    BY <1>1, CallFields DEF CallOK, IInv
  <1>3. call' = [call EXCEPT ![p] = c]
    BY DEF ReadForRejection, View
  <1>4. c \in Call /\ CallOK(p, c) /\ c.pc # "holding"
    BY <1>2, ViewOK
  <1> HIDE DEF c
  <1> QED
    BY <1>1, <1>3, <1>4, CallMoves DEF ReadForRejection, IInv, TypeOK

LEMMA RejectControlKeeps ==
  ASSUME IInv, NEW p \in Caller, RejectControl(p)
  PROVE  IInv'
  <1> DEFINE c == [call[p] EXCEPT !.pc = "reload"]
  <1>1. call[p] \in Call /\ CallOK(p, call[p]) /\ call[p].pc = "rejecting"
    BY DEF IInv, TypeOK, CallsOK, RejectControl
  <1>2. call[p].run \in Caller /\ call[p].state \in RunState
    BY <1>1, CallFields DEF CallOK, IInv
  <1>3. c \in Call /\ c.pc = "reload" /\ c.run = call[p].run /\ c.state = call[p].state
    BY <1>1 DEF Call
  <1>4. CallOK(p, c)
    BY <1>1, <1>3 DEF CallOK
  <1>5. call' = [call EXCEPT ![p] = c]
    BY DEF RejectControl
  <1>6. log' \in [Caller -> Seq(Event)]
    BY <1>2, LogGrows DEF RejectControl, IInv
  <1> HIDE DEF c
  <1> QED
    BY <1>1, <1>3, <1>4, <1>5, <1>6, CallMoves DEF RejectControl

LEMMA ReloadKeeps ==
  ASSUME IInv, NEW p \in Caller, Reload(p)
  PROVE  IInv'
  <1> DEFINE r == call[p].run
             pc == Resumed(run[r].state)
             c == [pc |-> pc, run |-> r, state |-> run[r].state,
                   version |-> run[r].version, next |-> 1, code |-> None]
  <1>1. CallOK(p, call[p]) /\ call[p].pc = "reload"
    BY DEF IInv, CallsOK, Reload
  <1>2. r \in Caller /\ Exists(r) /\ idem[KeyOf[p]] = r /\ PayloadOf[r] = PayloadOf[p]
    BY <1>1, CallFields DEF CallOK, IInv
  <1>3. pc \in {"resume", "done"} /\ (pc = "resume" => run[r].state \in Working)
    BY DEF Resumed
  <1>4. call' = [call EXCEPT ![p] = c]
    BY DEF Reload, View
  <1> HIDE DEF pc
  <1>5. c \in Call /\ CallOK(p, c) /\ c.pc # "holding"
    BY <1>2, <1>3, ViewOK
  <1> HIDE DEF c
  <1> QED
    BY <1>1, <1>4, <1>5, CallMoves DEF Reload, IInv, TypeOK

--------------------------------------------------------------------------------
(* Actions on the rows of a tool and on its lock *)

\* A row that has not been completed can be written: no draft rests on it.
LEMMA OpenRowChanges ==
  ASSUME IInv, NEW at \in Caller \X Tool, tool[at].status \in {"absent", "started"},
         NEW row \in ToolRow, tool' = [tool EXCEPT ![at] = row], UNCHANGED run
  PROVE  /\ tool' \in [Caller \X Tool -> ToolRow]
         /\ tool'[at] = row /\ \A x \in (Caller \X Tool) \ {at} : tool'[x] = tool[x]
         /\ EvidenceOK' /\ DraftIsGrounded'
  <1>1. /\ tool' \in [Caller \X Tool -> ToolRow]
        /\ tool'[at] = row /\ \A x \in (Caller \X Tool) \ {at} : tool'[x] = tool[x]
    BY DEF IInv, TypeOK
  <1>2. \A r \in Caller, t \in Tool :
          tool[<<r, t>>].status = "completed" => tool'[<<r, t>>] = tool[<<r, t>>]
    BY <1>1
  <1>3. \A r \in Caller : BundleValid(r) => BundleValid(r)'
    BY <1>2 DEF BundleValid, Tool
  <1>4. EvidenceOK'
    BY <1>3 DEF IInv, EvidenceOK
  <1>5. DraftIsGrounded'
    <2> SUFFICES ASSUME NEW r \in Caller, run[r].draft # None
        PROVE  /\ tool'[<<r, "reasoning">>] =
                     [status |-> "completed", result |-> run[r].draft]
               /\ \A t \in EvidenceTool :
                     tool'[<<r, t>>] = [status |-> "completed", result |-> "sound"]
      BY DEF IInv, DraftIsGrounded
    <2>1. /\ tool[<<r, "reasoning">>] = [status |-> "completed", result |-> run[r].draft]
          /\ \A t \in EvidenceTool :
               tool[<<r, t>>] = [status |-> "completed", result |-> "sound"]
      BY DEF IInv, DraftIsGrounded
    <2> QED
      BY <1>2, <2>1 DEF Tool
  <1> QED
    BY <1>1, <1>4, <1>5

LEMMA ClaimToolKeeps ==
  ASSUME IInv, NEW p \in Caller, ClaimTool(p)
  PROVE  IInv'
  <1> DEFINE c == [call[p] EXCEPT !.pc = "holding"]
             at == At(p)
             row == [status |-> "started", result |-> None]
  <1>1. /\ call[p] \in Call /\ CallOK(p, call[p]) /\ call[p].pc = "resume" /\ ToolsLeft(p)
        /\ lock' = [lock EXCEPT ![at] = p]
    BY DEF IInv, TypeOK, CallsOK, ClaimTool
  <1>2. at \in Caller \X Tool
    BY <1>1, PlaceOfCall DEF CallOK, IInv
  <1>3. /\ c \in Call /\ c.pc = "holding" /\ c.run = call[p].run /\ c.state = call[p].state
        /\ c.next = call[p].next /\ c.code = call[p].code
    BY <1>1 DEF Call
  <1>4. CallOK(p, c)
    BY <1>1, <1>3 DEF CallOK
  <1>5. row \in ToolRow /\ row.status = "started" /\ tool[at].status = "absent"
    BY DEF ToolRow, ClaimTool, MayClaim
  <1>6. /\ tool' = [tool EXCEPT ![at] = row] /\ call' = [call EXCEPT ![p] = c]
        /\ invocations' = [invocations EXCEPT ![at] = @ + 1]
        /\ UNCHANGED <<idem, run, log, decision, review>>
    BY DEF ClaimTool
  <1> HIDE DEF row
  <1>7. /\ tool' \in [Caller \X Tool -> ToolRow]
        /\ tool'[at] = row /\ \A x \in (Caller \X Tool) \ {at} : tool'[x] = tool[x]
        /\ EvidenceOK' /\ DraftIsGrounded'
    BY <1>2, <1>5, <1>6, OpenRowChanges
  <1>8. call' \in [Caller -> Call] /\ call'[p] = c /\ \A q \in Caller \ {p} : call'[q] = call[q]
    BY <1>3, <1>6 DEF IInv, TypeOK
  <1>9. At(p)' = at /\ ToolsLeft(p)'
    BY <1>1, <1>3, <1>8 DEF At, ToolsLeft
  <1>10. \A q \in Caller \ {p} : At(q)' = At(q) /\ ToolsLeft(q)' = ToolsLeft(q)
    BY <1>8 DEF At, ToolsLeft
  <1>11. \A q \in Caller \ {p} : call[q].pc = "holding" =>
           /\ At(q) # at /\ At(q) \in Caller \X Tool
           /\ ToolsLeft(q) /\ tool[At(q)].status = "started"
    <2> SUFFICES ASSUME NEW q \in Caller \ {p}, call[q].pc = "holding"
        PROVE  /\ At(q) # at /\ At(q) \in Caller \X Tool
               /\ ToolsLeft(q) /\ tool[At(q)].status = "started"
      OBVIOUS
    <2>1. ToolsLeft(q) /\ tool[At(q)].status = "started" /\ CallOK(q, call[q])
      BY DEF IInv, HoldersOK, CallsOK
    <2>2. At(q) \in Caller \X Tool
      BY <2>1, PlaceOfCall DEF CallOK, IInv
    <2> QED
      BY <2>1, <2>2, <1>5
  <1> HIDE DEF at, c
  <1>12. HoldersOK'
    <2>1. \A q \in Caller : call'[q].pc = "holding" =>
            ToolsLeft(q)' /\ tool'[At(q)'].status = "started"
      BY <1>5, <1>7, <1>8, <1>9, <1>10, <1>11
    <2>2. \A q, x \in Caller :
            call'[q].pc = "holding" /\ call'[x].pc = "holding" /\ At(q)' = At(x)' => q = x
      BY <1>8, <1>9, <1>10, <1>11 DEF IInv, HoldersOK
    <2> QED
      BY <2>1, <2>2 DEF HoldersOK
  <1>13. lock' \in [Caller \X Tool -> Caller \cup {None}]
    BY <1>1 DEF IInv, TypeOK
  <1>14. /\ invocations' \in [Caller \X Tool -> Nat]
         /\ invocations'[at] = invocations[at] + 1
         /\ \A x \in (Caller \X Tool) \ {at} : invocations'[x] = invocations[x]
    BY <1>2, <1>6 DEF IInv, TypeOK
  <1>15. TypeOK'
    BY <1>6, <1>7, <1>8, <1>13, <1>14 DEF IInv, TypeOK
  <1>16. CallsOK'
    BY <1>4, <1>6, <1>8 DEF IInv, CallsOK, CallOK, Exists
  <1>17. ToolsOK'
    <2>0. \A x \in Caller \X Tool :
            invocations[x] = IF tool[x].status = "absent" THEN 0 ELSE 1
      BY DEF IInv, ToolsOK
    <2>1. \A x \in Caller \X Tool :
            invocations'[x] = IF tool'[x].status = "absent" THEN 0 ELSE 1
      <3>1. invocations'[at] = 1 /\ tool'[at].status # "absent"
        BY <2>0, <1>2, <1>5, <1>7, <1>14
      <3> QED
        BY <2>0, <3>1, <1>7, <1>14
    <2>2. \A r \in Caller : tool'[<<r, "reasoning">>].status = "completed" =>
            tool'[<<r, "reasoning">>].result \in Draft
      BY <1>5, <1>7 DEF IInv, ToolsOK, Tool
    <2> QED
      BY <2>1, <2>2 DEF ToolsOK
  <1>18. KeysOK' /\ ReviewsOK' /\ DecisionBinds'
    BY <1>6 DEF IInv, KeysOK, ReviewsOK, DecisionBinds, Exists
  <1> QED
    BY <1>7, <1>12, <1>15, <1>16, <1>17, <1>18 DEF IInv

LEMMA ToolReturnsKeeps ==
  ASSUME IInv, NEW p \in Caller, ToolReturns(p)
  PROVE  IInv'
  <1> DEFINE at == At(p)
  <1>1. /\ call[p] \in Call /\ CallOK(p, call[p]) /\ call[p].pc = "holding"
        /\ ToolsLeft(p) /\ tool[at].status = "started"
    BY DEF IInv, TypeOK, CallsOK, HoldersOK, ToolReturns
  <1>2. at \in Caller \X Tool /\ call[p].next \in 1..3
    BY <1>1, PlaceOfCall DEF CallOK, IInv
  <1>3. PICK row \in Returns(at[2]) :
          /\ tool' = [tool EXCEPT ![at] = row]
          /\ IF lock[at] = p
             THEN /\ lock' = [lock EXCEPT ![at] = None]
                  /\ call' = [call EXCEPT ![p] =
                       IF row.status = "failed"
                       THEN [call[p] EXCEPT !.pc = "resume", !.code = "TOOL_FAILED"]
                       ELSE [call[p] EXCEPT !.pc = "resume", !.next = call[p].next + 1]]
             ELSE /\ call' = [call EXCEPT ![p].pc = "failed"]
                  /\ UNCHANGED lock
    BY DEF ToolReturns
  <1>4. UNCHANGED <<idem, run, log, decision, review, invocations>>
    BY DEF ToolReturns
  <1>5. /\ row \in ToolRow /\ row.status \in {"failed", "completed"}
        /\ at[2] = "reasoning" /\ row.status = "completed" => row.result \in Draft
    BY DEF Returns, ToolRow
  <1>6. PICK c \in Call :
          /\ call' = [call EXCEPT ![p] = c]
          /\ c.pc \in {"resume", "failed"} /\ c.run = call[p].run /\ c.state = call[p].state
    <2> DEFINE c1 == [call[p] EXCEPT !.pc = "resume", !.code = "TOOL_FAILED"]
               c2 == [call[p] EXCEPT !.pc = "resume", !.next = call[p].next + 1]
               c3 == [call[p] EXCEPT !.pc = "failed"]
    <2>1. call[p].next + 1 \in 1..4 /\ "TOOL_FAILED" \in Code
      BY <1>2 DEF Code
    <2>2. c1 \in Call /\ c1.pc = "resume" /\ c1.run = call[p].run /\ c1.state = call[p].state
      BY <1>1, <2>1 DEF Call
    <2>3. c2 \in Call /\ c2.pc = "resume" /\ c2.run = call[p].run /\ c2.state = call[p].state
      BY <1>1, <2>1 DEF Call
    <2>4. c3 \in Call /\ c3.pc = "failed" /\ c3.run = call[p].run /\ c3.state = call[p].state
      BY <1>1 DEF Call
    <2>5. \/ call' = [call EXCEPT ![p] = c1] \/ call' = [call EXCEPT ![p] = c2]
          \/ call' = [call EXCEPT ![p] = c3]
      BY <1>3
    <2> HIDE DEF c1, c2, c3
    <2> QED
      BY <2>2, <2>3, <2>4, <2>5
  <1>7. CallOK(p, c)
    BY <1>1, <1>6 DEF CallOK
  <1>8. /\ tool' \in [Caller \X Tool -> ToolRow]
        /\ tool'[at] = row /\ \A x \in (Caller \X Tool) \ {at} : tool'[x] = tool[x]
        /\ EvidenceOK' /\ DraftIsGrounded'
    BY <1>1, <1>2, <1>3, <1>4, <1>5, OpenRowChanges
  <1>9. call' \in [Caller -> Call] /\ call'[p] = c /\ \A q \in Caller \ {p} : call'[q] = call[q]
    BY <1>6 DEF IInv, TypeOK
  <1>10. lock' \in [Caller \X Tool -> Caller \cup {None}]
    <2>1. lock' = [lock EXCEPT ![at] = None] \/ UNCHANGED lock
      BY <1>3
    <2>2. lock \in [Caller \X Tool -> Caller \cup {None}]
      BY DEF IInv, TypeOK
    <2> QED
      BY <2>1, <2>2
  <1>11. TypeOK'
    BY <1>4, <1>8, <1>9, <1>10 DEF IInv, TypeOK
  <1>12. CallsOK'
    BY <1>4, <1>7, <1>9 DEF IInv, CallsOK, CallOK, Exists
  <1>13. \A q \in Caller : call'[q].pc = "holding" =>
           /\ q # p /\ call[q].pc = "holding" /\ At(q)' = At(q) /\ ToolsLeft(q)' = ToolsLeft(q)
    BY <1>6, <1>9 DEF At, ToolsLeft
  <1>14. \A q \in Caller : call[q].pc = "holding" =>
           /\ ToolsLeft(q) /\ tool[At(q)].status = "started" /\ At(q) \in Caller \X Tool
    BY PlaceOfCall DEF IInv, HoldersOK, CallsOK, CallOK
  <1>15. \A q \in Caller \ {p} : call[q].pc = "holding" => At(q) # at
    BY <1>1 DEF IInv, HoldersOK
  <1> HIDE DEF at
  <1>16. HoldersOK'
    <2>1. \A q \in Caller : call'[q].pc = "holding" =>
            ToolsLeft(q)' /\ tool'[At(q)'].status = "started"
      BY <1>8, <1>13, <1>14, <1>15
    <2>2. \A q, x \in Caller :
            call'[q].pc = "holding" /\ call'[x].pc = "holding" /\ At(q)' = At(x)' => q = x
      BY <1>13 DEF IInv, HoldersOK
    <2> QED
      BY <2>1, <2>2 DEF HoldersOK
  <1>17. ToolsOK'
    <2>0. \A x \in Caller \X Tool :
            invocations[x] = IF tool[x].status = "absent" THEN 0 ELSE 1
      BY DEF IInv, ToolsOK
    <2>1. \A x \in Caller \X Tool :
            invocations'[x] = IF tool'[x].status = "absent" THEN 0 ELSE 1
      <3>1. invocations[at] = 1 /\ tool'[at].status # "absent"
        BY <2>0, <1>1, <1>2, <1>5, <1>8
      <3>2. invocations' = invocations
        BY <1>4
      <3>3. ASSUME NEW x \in Caller \X Tool
            PROVE  invocations'[x] = IF tool'[x].status = "absent" THEN 0 ELSE 1
        <4>1. CASE x = at
          BY <3>1, <3>2, <4>1
        <4>2. CASE x # at
          BY <2>0, <3>2, <4>2, <1>8
        <4> QED
          BY <4>1, <4>2
      <3> QED
        BY <3>3
    <2>2. \A r \in Caller : tool'[<<r, "reasoning">>].status = "completed" =>
            tool'[<<r, "reasoning">>].result \in Draft
      <3>1. \A r \in Caller : tool[<<r, "reasoning">>].status = "completed" =>
              tool[<<r, "reasoning">>].result \in Draft
        BY DEF IInv, ToolsOK
      <3>2. ASSUME NEW r \in Caller, tool'[<<r, "reasoning">>].status = "completed"
            PROVE  tool'[<<r, "reasoning">>].result \in Draft
        <4>1. <<r, "reasoning">> \in Caller \X Tool
          BY DEF Tool
        <4>2. CASE <<r, "reasoning">> = at
          <5>1. at[2] = "reasoning" /\ tool'[at] = row
            BY <4>2, <1>8
          <5>2. row.result \in Draft
            BY <3>2, <4>2, <5>1, <1>5
          <5> QED
            BY <4>2, <5>1, <5>2
        <4>3. CASE <<r, "reasoning">> # at
          BY <3>1, <3>2, <4>1, <4>3, <1>8
        <4> QED
          BY <4>2, <4>3
      <3> QED
        BY <3>2
    <2> QED
      BY <2>1, <2>2 DEF ToolsOK
  <1>18. KeysOK' /\ ReviewsOK' /\ DecisionBinds'
    BY <1>4 DEF IInv, KeysOK, ReviewsOK, DecisionBinds, Exists
  <1> QED
    BY <1>8, <1>11, <1>12, <1>16, <1>17, <1>18 DEF IInv

LEMMA DieKeeps ==
  ASSUME IInv, NEW p \in Caller, Die(p)
  PROVE  IInv'
  <1> DEFINE c == [call[p] EXCEPT !.pc = "dead"]
  <1>1. call[p] \in Call /\ CallOK(p, call[p])
    BY DEF IInv, TypeOK, CallsOK
  <1>2. c \in Call /\ c.pc = "dead" /\ c.run = call[p].run /\ c.state = call[p].state
    BY <1>1 DEF Call
  <1>3. CallOK(p, c)
    BY <1>1, <1>2 DEF CallOK
  <1>4. /\ call' = [call EXCEPT ![p] = c]
        /\ UNCHANGED <<idem, run, log, tool, decision, review, invocations>>
    BY DEF Die
  <1> HIDE DEF c
  <1>5. call' \in [Caller -> Call] /\ call'[p] = c /\ \A q \in Caller \ {p} : call'[q] = call[q]
    BY <1>2, <1>4 DEF IInv, TypeOK
  <1>6. lock' \in [Caller \X Tool -> Caller \cup {None}]
    BY DEF Die, FreedLocks, IInv, TypeOK
  <1>7. TypeOK'
    BY <1>4, <1>5, <1>6 DEF IInv, TypeOK
  <1>8. CallsOK'
    BY <1>3, <1>4, <1>5 DEF IInv, CallsOK, CallOK, Exists
  <1>9. \A q \in Caller : call'[q].pc = "holding" =>
          call[q].pc = "holding" /\ At(q)' = At(q) /\ ToolsLeft(q)' = ToolsLeft(q)
    BY <1>2, <1>5 DEF At, ToolsLeft
  <1>10. HoldersOK'
    BY <1>4, <1>9 DEF IInv, HoldersOK
  <1>11. KeysOK' /\ ToolsOK' /\ ReviewsOK' /\ EvidenceOK' /\ DraftIsGrounded' /\ DecisionBinds'
    BY <1>4 DEF IInv, KeysOK, ToolsOK, ReviewsOK, EvidenceOK, DraftIsGrounded,
                DecisionBinds, Exists, BundleValid
  <1> QED
    BY <1>7, <1>8, <1>10, <1>11 DEF IInv

LEMMA LoseLockKeeps ==
  ASSUME IInv, NEW p \in Caller, LoseLock(p)
  PROVE  IInv'
  <1>1. UNCHANGED <<idem, run, log, tool, decision, call, review, invocations>>
    BY DEF LoseLock
  <1>2. lock' \in [Caller \X Tool -> Caller \cup {None}]
    BY DEF LoseLock, FreedLocks, IInv, TypeOK
  <1>3. TypeOK'
    BY <1>1, <1>2 DEF IInv, TypeOK
  <1>4. CallsOK' /\ KeysOK'
    BY <1>1 DEF IInv, CallsOK, CallOK, KeysOK, Exists
  <1>5. HoldersOK'
    BY <1>1 DEF IInv, HoldersOK, At, ToolsLeft
  <1>6. ToolsOK' /\ ReviewsOK' /\ EvidenceOK' /\ DraftIsGrounded' /\ DecisionBinds'
    BY <1>1 DEF IInv, ToolsOK, ReviewsOK, EvidenceOK, DraftIsGrounded, DecisionBinds,
                BundleValid
  <1> QED
    BY <1>3, <1>4, <1>5, <1>6 DEF IInv

--------------------------------------------------------------------------------
(* Actions on the row of a run: intake, transition, review *)

\* A row of a run changes and the run goes on existing: keys, the calls of other
\* requests, and the tools are as before.
LEMMA RowChanges ==
  ASSUME IInv, NEW r \in Caller, Exists(r), NEW row \in RunRow, row.state # "absent",
         run' = [run EXCEPT ![r] = row], UNCHANGED <<idem, tool, lock, invocations>>
  PROVE  /\ run' \in [Caller -> RunRow] /\ run'[r] = row
         /\ \A x \in Caller \ {r} : run'[x] = run[x]
         /\ \A x \in Caller : Exists(x)' <=> Exists(x)
         /\ KeysOK' /\ ToolsOK'
         /\ \A q \in Caller : call'[q] = call[q] => CallOK(q, call[q])'
         /\ call' = call => HoldersOK'
  <1>1. /\ run' \in [Caller -> RunRow] /\ run'[r] = row
        /\ \A x \in Caller \ {r} : run'[x] = run[x]
    BY DEF IInv, TypeOK
  <1>2. \A x \in Caller : Exists(x)' <=> Exists(x)
    BY <1>1 DEF Exists
  <1>3. KeysOK'
    <2>1. \A k \in Key : idem[k] # None => idem[k] \in Caller
      BY DEF IInv, TypeOK
    <2> QED
      BY <1>2, <2>1 DEF IInv, KeysOK
  <1>4. ToolsOK'
    BY DEF IInv, ToolsOK
  <1>5. ASSUME NEW q \in Caller, call'[q] = call[q]
        PROVE  CallOK(q, call[q])'
    <2>1. CallOK(q, call[q]) /\ call[q].run \in Caller \cup {None}
      BY CallFields DEF IInv, CallsOK
    <2>2. call[q].run # None => Exists(call[q].run)'
      BY <1>2, <1>5, <2>1 DEF CallOK
    <2> QED
      BY <1>5, <2>1, <2>2 DEF CallOK
  <1>6. call' = call => HoldersOK'
    BY DEF IInv, HoldersOK, At, ToolsLeft
  <1> QED
    BY <1>1, <1>2, <1>3, <1>4, <1>5, <1>6

LEMMA ClaimKeeps ==
  ASSUME IInv, NEW p \in Caller, Claim(p)
  PROVE  IInv'
  <1> DEFINE k == KeyOf[p]
  <1>1. PICK mode \in Mode :
          /\ run' = [run EXCEPT ![p] = [NoRun EXCEPT !.state = "created", !.mode = mode]]
          /\ call' = View(p, p, [NoRun EXCEPT !.state = "created", !.mode = mode], "resume")
    BY DEF Claim
  <1> DEFINE row == [NoRun EXCEPT !.state = "created", !.mode = mode]
             c == [pc |-> "resume", run |-> p, state |-> row.state,
                   version |-> row.version, next |-> 1, code |-> None]
  <1>2. /\ idem' = [idem EXCEPT ![k] = p] /\ idem[k] = None /\ k \in Key
        /\ call[p].pc = "claim" /\ AppendEvent(p, None, "created", None)
        /\ UNCHANGED <<tool, lock, decision, review, invocations>>
    BY KeyAssumption DEF Claim, KeyFree
  <1>3. /\ row \in RunRow /\ row.state = "created" /\ row.version = 0 /\ row.draft = None
    BY ModeAssumption DEF NoRun, RunRow, RunState
  <1>4. run' = [run EXCEPT ![p] = row] /\ call' = [call EXCEPT ![p] = c]
    BY <1>1 DEF View
  <1> HIDE DEF row
  <1>5. /\ c \in Call /\ c.pc = "resume" /\ c.run = p /\ c.state = "created"
    BY <1>3 DEF Call, RunState
  <1> HIDE DEF c
  <1>6. /\ run' \in [Caller -> RunRow] /\ run'[p] = row /\ \A x \in Caller \ {p} : run'[x] = run[x]
        /\ idem' \in [Key -> Caller \cup {None}] /\ idem'[k] = p
        /\ \A x \in Key \ {k} : idem'[x] = idem[x]
        /\ call' \in [Caller -> Call] /\ call'[p] = c /\ \A x \in Caller \ {p} : call'[x] = call[x]
    BY <1>2, <1>3, <1>4, <1>5 DEF IInv, TypeOK
  <1>7. ~Exists(p) /\ p # None
    BY <1>2, NoneIsNothingElse DEF IInv, KeysOK
  <1>8. log' \in [Caller -> Seq(Event)]
    BY <1>2, LogGrows DEF IInv, RunState
  <1>9. TypeOK'
    BY <1>2, <1>6, <1>8 DEF IInv, TypeOK
  <1>10. Exists(p)' /\ \A x \in Caller \ {p} : Exists(x)' <=> Exists(x)
    BY <1>3, <1>6 DEF Exists
  <1>11. \A x \in Caller : Exists(x) => KeyOf[x] # k
    BY <1>2, NoneIsNothingElse DEF IInv, KeysOK
  <1>12. KeysOK'
    <2>1. \A x \in Key : idem[x] # None => idem[x] \in Caller /\ Exists(idem[x]) /\ KeyOf[idem[x]] = x
      BY DEF IInv, TypeOK, KeysOK
    <2>2. \A x \in Key : idem'[x] # None => Exists(idem[x])' /\ KeyOf[idem'[x]] = x
      BY <1>6, <1>10, <2>1
    <2>3. \A x \in Caller : Exists(x)' => idem'[KeyOf[x]] = x
      BY <1>6, <1>10, <1>11, KeyAssumption DEF IInv, KeysOK
    <2> QED
      BY <2>2, <2>3 DEF KeysOK
  <1>13. CallsOK'
    <2>1. CallOK(p, call[p])'
      BY <1>2, <1>5, <1>6, <1>7, <1>10, NoneIsNothingElse DEF CallOK, RunState, Working
    <2>2. ASSUME NEW q \in Caller \ {p}
          PROVE  CallOK(q, call[q])'
      <3>1. CallOK(q, call[q]) /\ call[q].run \in Caller \cup {None} /\ call'[q] = call[q]
        BY <1>6, CallFields DEF IInv, CallsOK
      <3>2. CASE call[q].run = None
        BY <3>1, <3>2 DEF CallOK
      <3>3. CASE call[q].run # None
        <4>1. /\ Exists(call[q].run) /\ idem[KeyOf[q]] = call[q].run /\ KeyOf[q] \in Key
          BY <3>1, <3>3, KeyAssumption DEF CallOK
        <4>2. idem'[KeyOf[q]] = call'[q].run /\ Exists(call[q].run)'
          BY <4>1, <3>3, <3>1, <1>2, <1>6, <1>7, <1>10, NoneIsNothingElse
        <4> QED
          BY <3>1, <3>3, <4>2 DEF CallOK
      <3> QED
        BY <3>2, <3>3
    <2> QED
      BY <2>1, <2>2 DEF CallsOK
  <1>14. HoldersOK'
    <2>1. \A q \in Caller : call'[q].pc = "holding" =>
            call[q].pc = "holding" /\ At(q)' = At(q) /\ ToolsLeft(q)' = ToolsLeft(q)
      BY <1>5, <1>6 DEF At, ToolsLeft
    <2> QED
      BY <1>2, <2>1 DEF IInv, HoldersOK
  <1>15. ToolsOK' /\ ReviewsOK'
    BY <1>2 DEF IInv, ToolsOK, ReviewsOK
  <1>16. EvidenceOK'
    BY <1>2, <1>3, <1>6 DEF IInv, EvidenceOK, BundleValid
  <1>17. DraftIsGrounded'
    <2>1. /\ run'[p].draft = None /\ run'[p].state = "created" /\ tool' = tool
          /\ \A x \in Caller \ {p} : run'[x] = run[x]
      BY <1>2, <1>3, <1>6
    <2>2. DraftIsGrounded
      BY DEF IInv
    <2> QED
      BY <2>1, <2>2 DEF DraftIsGrounded
  <1>18. DecisionBinds'
    BY <1>2, <1>3, <1>6, <1>7 DEF IInv, DecisionBinds, Exists
  <1> QED
    BY <1>9, <1>12, <1>13, <1>14, <1>15, <1>16, <1>17, <1>18 DEF IInv

\* Where a transition may lead, and what it then rests on.
LEMMA TargetOfTransition ==
  ASSUME IInv, NEW c \in Call, c.run \in Caller, c.state \in Working, run[c.run].state = c.state
  PROVE  /\ Target(c) \in RunState \ {"created", "closed"}
         /\ Target(c) = "awaiting_human" => tool[<<c.run, "reasoning">>].status = "completed"
         /\ Target(c) \in {"reasoning", "drafting_recommendation", "awaiting_human"}
              => BundleValid(c.run)
         /\ Stop(c) \in Code \cup {None}
  <1>1. Stop(c) \in Code \cup {None}
    <2>1. c.code \in Code \cup {None}
      BY DEF Call
    <2>2. Stop(c) \in {c.code, "EVIDENCE_INVALID", "RESULT_UNAVAILABLE", None}
      BY DEF Stop
    <2> QED
      BY <2>1, <2>2 DEF Code
  <1>2. CASE Stop(c) # None
    BY <1>1, <1>2 DEF Target, RunState
  <1>3. CASE Stop(c) = None
    <2>1. Target(c) = Forward[c.state]
      BY <1>3 DEF Target
    <2>2. /\ c.state = "quality_checks" => BundleValid(c.run)
          /\ c.state = "drafting_recommendation" => tool[<<c.run, "reasoning">>].status = "completed"
      <3>1. None # "EVIDENCE_INVALID" /\ None # "RESULT_UNAVAILABLE"
        BY NoneIsNothingElse DEF Code
      <3> QED
        BY <1>3, <3>1 DEF Stop
    <2>3. c.state \in {"reasoning", "drafting_recommendation"} => BundleValid(c.run)
      BY DEF IInv, EvidenceOK
    <2>4. /\ c.state = "created" => Target(c) = "validating"
          /\ c.state = "validating" => Target(c) = "gathering_evidence"
          /\ c.state = "gathering_evidence" => Target(c) = "quality_checks"
          /\ c.state = "quality_checks" => Target(c) = "reasoning"
          /\ c.state = "reasoning" => Target(c) = "drafting_recommendation"
          /\ c.state = "drafting_recommendation" => Target(c) = "awaiting_human"
      BY <2>1 DEF Forward
    <2> QED
      BY <1>1, <2>2, <2>3, <2>4 DEF Working, RunState
  <1> QED
    BY <1>2, <1>3

LEMMA AdvanceKeeps ==
  ASSUME IInv, NEW p \in Caller, Advance(p)
  PROVE  IInv'
  <1> DEFINE old == call[p]
             r == call[p].run
             row == Moved(run[r], old)
             pc == Resumed(row.state)
             c == [pc |-> pc, run |-> r, state |-> row.state,
                   version |-> row.version, next |-> 1, code |-> None]
  <1>1. /\ old \in Call /\ CallOK(p, old) /\ old.pc = "resume" /\ run[r].state = old.state
        /\ run' = [run EXCEPT ![r] = row] /\ call' = [call EXCEPT ![p] = c]
        /\ AppendEvent(r, old.state, Target(old), Stop(old))
        /\ UNCHANGED <<idem, tool, lock, decision, review, invocations>>
    BY DEF IInv, TypeOK, CallsOK, Advance, Ready, UnchangedSince, View
  <1>2. /\ r \in Caller /\ r # None /\ Exists(r) /\ idem[KeyOf[p]] = r /\ PayloadOf[r] = PayloadOf[p]
        /\ old.state \in Working /\ old.state \in RunState
    BY <1>1, CallFields DEF CallOK, IInv, Working, RunState
  <1>3. /\ Target(old) \in RunState \ {"created", "closed"}
        /\ Target(old) = "awaiting_human" => tool[<<r, "reasoning">>].status = "completed"
        /\ Target(old) \in {"reasoning", "drafting_recommendation", "awaiting_human"}
             => BundleValid(r)
        /\ Stop(old) \in Code \cup {None}
    BY <1>1, <1>2, TargetOfTransition
  <1>4. run[r] \in RunRow /\ run[r].version + 1 \in Nat /\ run[r].draft = None
    <2>1. run[r] \in RunRow /\ run[r].version \in Nat
      BY <1>2, RunFields DEF IInv
    <2>2. run[r].state \notin {"awaiting_human", "closed"}
      BY <1>1, <1>2 DEF Working
    <2>3. run[r].draft = None
      BY <1>2, <2>2 DEF IInv, DraftIsGrounded
    <2> QED
      BY <2>1, <2>3
  <1> DEFINE draft == IF Target(old) = "awaiting_human" THEN tool[<<r, "reasoning">>].result ELSE None
  <1>5. draft \in Draft \cup {None} /\ (draft # None <=> Target(old) = "awaiting_human")
    BY <1>2, <1>3, NoneIsNothingElse DEF IInv, ToolsOK
  <1>6. row = [run[r] EXCEPT !.state = Target(old), !.version = run[r].version + 1, !.draft = draft]
    BY <1>4 DEF Moved, RunRow
  <1> HIDE DEF draft, row
  <1>7. /\ row \in RunRow /\ row.state = Target(old) /\ row.draft = draft
        /\ row.version = run[r].version + 1 /\ row.mode = run[r].mode
    BY <1>3, <1>4, <1>5, <1>6 DEF RunRow
  <1>8. row.state # "absent" /\ row.state \in RunState
    BY <1>3, <1>7 DEF RunState
  <1>9. pc \in {"resume", "done"} /\ (pc = "resume" => row.state \in Working)
    BY DEF Resumed
  <1> HIDE DEF pc
  <1>10. c \in Call /\ c.pc = pc /\ c.run = r /\ c.state = row.state
    BY <1>2, <1>4, <1>7, <1>8, <1>9 DEF Call
  <1> HIDE DEF c, old, r
  <1>11. /\ run' \in [Caller -> RunRow] /\ run'[r] = row
         /\ \A x \in Caller \ {r} : run'[x] = run[x]
         /\ \A x \in Caller : Exists(x)' <=> Exists(x)
         /\ KeysOK' /\ ToolsOK'
         /\ \A q \in Caller : call'[q] = call[q] => CallOK(q, call[q])'
    BY <1>1, <1>2, <1>7, <1>8, RowChanges
  <1>12. call' \in [Caller -> Call] /\ call'[p] = c /\ \A x \in Caller \ {p} : call'[x] = call[x]
    BY <1>1, <1>10 DEF IInv, TypeOK
  <1>13. log' \in [Caller -> Seq(Event)]
    BY <1>1, <1>2, <1>3, LogGrows DEF IInv
  <1>14. TypeOK'
    BY <1>1, <1>11, <1>12, <1>13 DEF IInv, TypeOK
  <1>15. CallsOK'
    <2>1. CallOK(p, call[p])'
      BY <1>1, <1>2, <1>8, <1>9, <1>10, <1>11, <1>12, NoneIsNothingElse DEF CallOK
    <2> QED
      BY <1>11, <1>12, <2>1 DEF CallsOK
  <1>16. HoldersOK'
    <2>1. \A q \in Caller : call'[q].pc = "holding" =>
            call[q].pc = "holding" /\ At(q)' = At(q) /\ ToolsLeft(q)' = ToolsLeft(q)
      BY <1>9, <1>10, <1>12 DEF At, ToolsLeft
    <2> QED
      BY <1>1, <2>1 DEF IInv, HoldersOK
  <1>17. ReviewsOK'
    BY <1>1 DEF IInv, ReviewsOK
  <1>18. \A x \in Caller : BundleValid(x)' = BundleValid(x)
    BY <1>1 DEF BundleValid
  <1>19. EvidenceOK'
    BY <1>3, <1>7, <1>11, <1>18 DEF IInv, EvidenceOK
  <1>20. DraftIsGrounded'
    <2>1. ASSUME draft # None
          PROVE  /\ tool[<<r, "reasoning">>] = [status |-> "completed", result |-> draft]
                 /\ \A t \in EvidenceTool :
                       tool[<<r, t>>] = [status |-> "completed", result |-> "sound"]
      <3>1. \A t \in Tool : tool[<<r, t>>] \in ToolRow
        BY <1>2 DEF IInv, TypeOK
      <3>2. BundleValid(r) /\ tool[<<r, "reasoning">>].status = "completed"
            /\ draft = tool[<<r, "reasoning">>].result
        BY <1>3, <1>5, <2>1 DEF draft
      <3> QED
        BY <3>1, <3>2 DEF BundleValid, ToolRow, Tool
    <2>2. /\ \A x \in Caller \ {r} : run'[x] = run[x]
          /\ run'[r].draft = draft /\ run'[r].state = Target(old)
      BY <1>7, <1>11
    <2>3. draft # None <=> Target(old) \in {"awaiting_human", "closed"}
      BY <1>3, <1>5
    <2>4. \A x \in Caller : GroundedAt(x)
      BY DEF IInv, DraftIsGrounded, GroundedAt
    <2>5. UNCHANGED tool
      BY <1>1
    <2>6. \A x \in Caller \ {r} : GroundedAt(x)'
      BY <2>2, <2>4, <2>5 DEF GroundedAt
    <2>7. ASSUME NEW x \in Caller, x = r PROVE GroundedAt(x)'
      BY <2>1, <2>2, <2>3, <2>5, <2>7 DEF GroundedAt
    <2> QED
      BY <2>6, <2>7 DEF DraftIsGrounded, GroundedAt
  <1>21. DecisionBinds'
    <2>1. decision[r] = None
      BY <1>1, <1>2 DEF IInv, DecisionBinds, Working
    <2> QED
      BY <1>1, <1>3, <1>7, <1>11, <2>1 DEF IInv, DecisionBinds
  <1> QED
    BY <1>11, <1>14, <1>15, <1>16, <1>17, <1>19, <1>20, <1>21 DEF IInv

\* Steps that leave everything of IInv alone but the log and one review.
LEMMA ReviewMoves ==
  ASSUME IInv, NEW v \in ReviewCall, NEW w \in Review,
         w.pc = "rejecting" => w.run # None /\ w.state # None,
         review' = [review EXCEPT ![v] = w], log' \in [Caller -> Seq(Event)],
         UNCHANGED <<idem, run, tool, lock, decision, call, invocations>>
  PROVE  IInv'
  <1>1. /\ review' \in [ReviewCall -> Review] /\ review'[v] = w
        /\ \A x \in ReviewCall \ {v} : review'[x] = review[x]
    BY DEF IInv, TypeOK
  <1>2. TypeOK'
    BY <1>1 DEF IInv, TypeOK
  <1>3. ReviewsOK'
    BY <1>1 DEF IInv, ReviewsOK
  <1>4. CallsOK' /\ KeysOK'
    BY DEF IInv, CallsOK, CallOK, KeysOK, Exists
  <1>5. HoldersOK'
    BY DEF IInv, HoldersOK, At, ToolsLeft
  <1>6. ToolsOK' /\ EvidenceOK' /\ DraftIsGrounded' /\ DecisionBinds'
    BY DEF IInv, ToolsOK, EvidenceOK, DraftIsGrounded, DecisionBinds, BundleValid
  <1> QED
    BY <1>2, <1>3, <1>4, <1>5, <1>6 DEF IInv

LEMMA ReviewFields ==
  ASSUME TypeOK, NEW v \in ReviewCall, NEW pc \in {"rejecting", "done"}
  PROVE  /\ review[v] \in Review
         /\ [review[v] EXCEPT !.pc = pc] \in Review /\ [review[v] EXCEPT !.pc = pc].pc = pc
         /\ review[v].run \in Caller \cup {None} /\ review[v].state \in RunState \cup {None}
  BY DEF TypeOK, Review

LEMMA RefuseReviewKeeps ==
  ASSUME IInv, NEW v \in ReviewCall, RefuseReview(v)
  PROVE  IInv'
  <1>1. PICK r \in Caller : Exists(r) /\ AppendEvent(r, run[r].state, run[r].state, None)
    BY DEF RefuseReview
  <1>2. log' \in [Caller -> Seq(Event)]
    BY <1>1, RunFields, LogGrows DEF IInv
  <1> DEFINE w == [review[v] EXCEPT !.pc = "done"]
  <1>3. w \in Review /\ w.pc = "done" /\ review' = [review EXCEPT ![v] = w]
    BY ReviewFields DEF IInv, RefuseReview
  <1> HIDE DEF w
  <1> QED
    BY <1>2, <1>3, ReviewMoves DEF RefuseReview

LEMMA ReadForReviewRejectionKeeps ==
  ASSUME IInv, NEW v \in ReviewCall, ReadForReviewRejection(v)
  PROVE  IInv'
  <1>1. PICK r \in Caller :
          /\ Exists(r)
          /\ review' = [review EXCEPT ![v] =
               [pc |-> "rejecting", run |-> r, state |-> run[r].state]]
    BY DEF ReadForReviewRejection
  <1> DEFINE w == [pc |-> "rejecting", run |-> r, state |-> run[r].state]
  <1>2. w \in Review /\ w.run # None /\ w.state # None /\ review' = [review EXCEPT ![v] = w]
    BY <1>1, RunFields, NoneIsNothingElse DEF IInv, Review
  <1> HIDE DEF w
  <1> QED
    BY <1>2, ReviewMoves DEF ReadForReviewRejection, IInv, TypeOK

LEMMA RejectReviewKeeps ==
  ASSUME IInv, NEW v \in ReviewCall, RejectReview(v)
  PROVE  IInv'
  <1>1. /\ review[v].pc = "rejecting"
        /\ AppendEvent(review[v].run, review[v].state, review[v].state, None)
    BY DEF RejectReview
  <1>2. review[v].run \in Caller /\ review[v].state \in RunState
    BY <1>1, ReviewFields DEF IInv, ReviewsOK
  <1>3. log' \in [Caller -> Seq(Event)]
    BY <1>1, <1>2, LogGrows DEF IInv
  <1> DEFINE w == [review[v] EXCEPT !.pc = "done"]
  <1>4. w \in Review /\ w.pc = "done" /\ review' = [review EXCEPT ![v] = w]
    BY ReviewFields DEF IInv, RejectReview
  <1> HIDE DEF w
  <1> QED
    BY <1>3, <1>4, ReviewMoves DEF RejectReview

LEMMA DecideKeeps ==
  ASSUME IInv, NEW v \in ReviewCall, Decide(v)
  PROVE  IInv'
  <1>1. PICK r \in Caller, draft \in Draft, action \in Action :
          /\ Exists(r) /\ MayDecide(r, ActorOf[v], draft)
          /\ decision' = [decision EXCEPT ![r] =
               [action |-> action, reviewer |-> ActorOf[v], draft |-> run[r].draft]]
          /\ run' = [run EXCEPT ![r].state = "closed", ![r].version = @ + 2]
          /\ log' = [log EXCEPT ![r] = @ \o
               << [from |-> "awaiting_human", to |-> DecidedState(action), code |-> None],
                  [from |-> DecidedState(action), to |-> "closed", code |-> None] >>]
    BY DEF Decide
  <1> DEFINE row == [run[r] EXCEPT !.state = "closed", !.version = run[r].version + 2]
             made == [action |-> action, reviewer |-> ActorOf[v], draft |-> run[r].draft]
             w == [review[v] EXCEPT !.pc = "done"]
             e1 == [from |-> "awaiting_human", to |-> DecidedState(action), code |-> None]
             e2 == [from |-> DecidedState(action), to |-> "closed", code |-> None]
  <1>2. /\ run[r].mode # "shadow" /\ run[r].state = "awaiting_human"
        /\ ActorOf[v] = "assigned" /\ run[r].draft \in Draft
    BY <1>1 DEF MayDecide
  <1>3. run[r] \in RunRow /\ run[r].version + 2 \in Nat
    BY RunFields DEF IInv
  <1>4. /\ row \in RunRow /\ row.state = "closed" /\ row.draft = run[r].draft
        /\ row.mode = "human_review"
    BY <1>2, <1>3 DEF RunRow, RunState
  <1>5. /\ made \in Decision /\ made # None /\ made.reviewer = "assigned"
        /\ made.draft = run[r].draft
    BY <1>2, NoneIsNothingElse DEF Decision, Actor
  <1>6. DecidedState(action) \in RunState
    BY DEF DecidedState, Action, RunState
  <1>7. e1 \in Event /\ e2 \in Event
    BY <1>6 DEF Event, RunState
  <1>8. w \in Review /\ w.pc = "done" /\ review' = [review EXCEPT ![v] = w]
    BY ReviewFields DEF IInv, Decide
  <1>9. /\ run' = [run EXCEPT ![r] = row] /\ decision' = [decision EXCEPT ![r] = made]
        /\ log' = [log EXCEPT ![r] = log[r] \o <<e1, e2>>]
    BY <1>1
  <1>10. UNCHANGED <<idem, tool, lock, call, invocations>>
    BY DEF Decide
  <1> HIDE DEF row, made, w, e1, e2
  <1>11. log' \in [Caller -> Seq(Event)]
    <2>1. log[r] \in Seq(Event) /\ <<e1, e2>> \in Seq(Event)
      BY <1>7 DEF IInv, TypeOK
    <2>2. log[r] \o <<e1, e2>> \in Seq(Event)
      BY <2>1
    <2> QED
      BY <1>9, <2>2 DEF IInv, TypeOK
  <1>12. /\ run' \in [Caller -> RunRow] /\ run'[r] = row
         /\ \A x \in Caller \ {r} : run'[x] = run[x]
         /\ KeysOK' /\ ToolsOK' /\ HoldersOK'
         /\ \A q \in Caller : call'[q] = call[q] => CallOK(q, call[q])'
    <2>1. /\ r \in Caller /\ Exists(r) /\ row \in RunRow /\ row.state # "absent"
          /\ run' = [run EXCEPT ![r] = row] /\ UNCHANGED <<idem, tool, lock, call, invocations>>
      BY <1>1, <1>4, <1>9, <1>10
    <2> QED
      BY <2>1, RowChanges
  <1>13. /\ decision' \in [Caller -> Decision \cup {None}] /\ decision'[r] = made
         /\ \A x \in Caller \ {r} : decision'[x] = decision[x]
    BY <1>5, <1>9 DEF IInv, TypeOK
  <1>14. /\ review' \in [ReviewCall -> Review] /\ review'[v] = w
         /\ \A x \in ReviewCall \ {v} : review'[x] = review[x]
    BY <1>8 DEF IInv, TypeOK
  <1>15. TypeOK'
    BY <1>10, <1>11, <1>12, <1>13, <1>14 DEF IInv, TypeOK
  <1>16. CallsOK'
    BY <1>10, <1>12 DEF CallsOK
  <1>17. ReviewsOK'
    BY <1>8, <1>14 DEF IInv, ReviewsOK
  <1>18. EvidenceOK'
    BY <1>2, <1>10, <1>12 DEF IInv, EvidenceOK, BundleValid
  <1>19. DraftIsGrounded'
    <2>1. \A x \in Caller : GroundedAt(x)
      BY DEF IInv, DraftIsGrounded, GroundedAt
    <2>2. \A x \in Caller \ {r} : GroundedAt(x)'
      BY <1>10, <1>12, <2>1 DEF GroundedAt
    <2>3. run'[r].draft = run[r].draft /\ run[r].draft # None
      BY <1>2, <1>4, <1>12, <2>1 DEF GroundedAt
    <2>4. GroundedAt(r)'
      BY <1>4, <1>10, <1>12, <2>1, <2>3 DEF GroundedAt
    <2> QED
      BY <2>2, <2>4 DEF DraftIsGrounded, GroundedAt
  <1>20. DecisionBinds'
    BY <1>4, <1>5, <1>12, <1>13 DEF IInv, DecisionBinds
  <1> QED
    BY <1>12, <1>15, <1>16, <1>17, <1>18, <1>19, <1>20 DEF IInv

LEMMA ExpireReviewKeeps ==
  ASSUME IInv, NEW r \in Caller, ExpireReview(r)
  PROVE  IInv'
  <1> DEFINE row == [run[r] EXCEPT !.expired = TRUE]
  <1>1. /\ run[r].state = "awaiting_human" /\ run' = [run EXCEPT ![r] = row]
        /\ UNCHANGED <<idem, log, tool, lock, decision, call, review, invocations>>
    BY DEF ExpireReview
  <1>2. run[r] \in RunRow
    BY RunFields DEF IInv
  <1>3. /\ row \in RunRow /\ row.state = run[r].state /\ row.draft = run[r].draft
        /\ row.mode = run[r].mode
    BY <1>2 DEF RunRow
  <1> HIDE DEF row
  <1>4. /\ run' \in [Caller -> RunRow] /\ run'[r] = row
        /\ \A x \in Caller \ {r} : run'[x] = run[x]
        /\ KeysOK' /\ ToolsOK' /\ HoldersOK'
        /\ \A q \in Caller : call'[q] = call[q] => CallOK(q, call[q])'
    BY <1>1, <1>3, RowChanges DEF Exists
  <1>5. TypeOK'
    BY <1>1, <1>4 DEF IInv, TypeOK
  <1>6. CallsOK' /\ ReviewsOK'
    BY <1>1, <1>4 DEF IInv, CallsOK, ReviewsOK
  <1>7. EvidenceOK'
    BY <1>1, <1>3, <1>4 DEF IInv, EvidenceOK, BundleValid
  <1>8. DraftIsGrounded'
    BY <1>1, <1>3, <1>4 DEF IInv, DraftIsGrounded
  <1>9. DecisionBinds'
    BY <1>1, <1>3, <1>4 DEF IInv, DecisionBinds
  <1> QED
    BY <1>4, <1>5, <1>6, <1>7, <1>8, <1>9 DEF IInv

--------------------------------------------------------------------------------
(* The invariant holds, and what it implies *)

LEMMA StutterKeeps == ASSUME IInv, UNCHANGED vars PROVE IInv'
  <1>1. UNCHANGED <<idem, run, log, tool, lock, decision, call, review, invocations>>
    BY DEF vars
  <1>2. TypeOK'
    BY <1>1 DEF IInv, TypeOK
  <1>3. CallsOK' /\ KeysOK'
    BY <1>1 DEF IInv, CallsOK, CallOK, KeysOK, Exists
  <1>4. HoldersOK'
    BY <1>1 DEF IInv, HoldersOK, At, ToolsLeft
  <1>5. ToolsOK' /\ ReviewsOK' /\ EvidenceOK' /\ DraftIsGrounded' /\ DecisionBinds'
    BY <1>1 DEF IInv, ToolsOK, ReviewsOK, EvidenceOK, DraftIsGrounded, DecisionBinds,
                BundleValid
  <1> QED
    BY <1>2, <1>3, <1>4, <1>5 DEF IInv

LEMMA NextKeeps == ASSUME IInv, [Next]_vars PROVE IInv'
  <1>1. ASSUME NEW p \in Caller, Intake(p) PROVE IInv'
    BY <1>1, FindKeeps, ClaimKeeps, ObserveKeeps, RejectIntakeKeeps DEF Intake
  <1>2. ASSUME NEW p \in Caller, UseTool(p) PROVE IInv'
    BY <1>2, ClaimToolKeeps, ReuseResultKeeps, RefuseRetryKeeps, ToolReturnsKeeps DEF UseTool
  <1>3. ASSUME NEW p \in Caller, Transition(p) PROVE IInv'
    BY <1>3, AdvanceKeeps, ConflictKeeps, ReadForRejectionKeeps, RejectControlKeeps,
       ReloadKeeps DEF Transition
  <1>4. ASSUME NEW p \in Caller, Die(p) \/ LoseLock(p) PROVE IInv'
    BY <1>4, DieKeeps, LoseLockKeeps
  <1>5. ASSUME NEW v \in ReviewCall, ReviewStep(v) PROVE IInv'
    BY <1>5, DecideKeeps, RefuseReviewKeeps, ReadForReviewRejectionKeeps, RejectReviewKeeps
       DEF ReviewStep
  <1>6. ASSUME NEW r \in Caller, ExpireReview(r) PROVE IInv'
    BY <1>6, ExpireReviewKeeps
  <1>7. CASE UNCHANGED vars
    BY <1>7, StutterKeeps
  <1> QED
    BY <1>1, <1>2, <1>3, <1>4, <1>5, <1>6, <1>7 DEF Next, Step

\* The inductive invariant is an invariant.
THEOREM Inductive == Spec => []IInv
  <1>1. Init => IInv
    BY InitKeeps
  <1>2. IInv /\ [Next]_vars => IInv'
    BY NextKeeps
  <1> QED
    BY <1>1, <1>2, PTL DEF Spec

\* Every row, event, lock and call of the spine has its type.
THEOREM TypeCorrect == Spec => []TypeOK
  <1>1. IInv => TypeOK
    BY DEF IInv
  <1> QED
    BY <1>1, Inductive, PTL

\* No tool is called twice for a run, whoever races, dies or loses a lock
\* (claim_or_observe_tool and complete_tool).
THEOREM CallsHappenOnce == Spec => []ToolsCalledOnce
  <1>1. ASSUME IInv PROVE ToolsCalledOnce
    <2>1. ASSUME NEW at \in Caller \X Tool PROVE invocations[at] \in {0, 1}
      BY <1>1 DEF IInv, ToolsOK
    <2> QED
      BY <2>1 DEF ToolsCalledOnce
  <1> QED
    BY <1>1, Inductive, PTL

\* A key keeps one run, and whoever is answered with a run gets the run of its
\* key and payload (begin_intake).
THEOREM KeysAreUnique == Spec => []OneRunPerKey
  <1>1. ASSUME IInv PROVE OneRunPerKey
    <2>1. \A r \in Caller : Exists(r) => idem[KeyOf[r]] = r
      BY <1>1 DEF IInv, KeysOK
    <2>2. ASSUME NEW p \in Caller, call[p].pc = "done"
          PROVE  call[p].run = idem[KeyOf[p]] /\ PayloadOf[call[p].run] = PayloadOf[p]
      BY <1>1, <2>2 DEF IInv, CallsOK, CallOK
    <2> QED
      BY <2>1, <2>2 DEF OneRunPerKey
  <1> QED
    BY <1>1, Inductive, PTL

\* What is put to a human is what the one reasoning call returned on sound
\* evidence, and nothing written later changes it (set_draft_and_transition).
THEOREM DraftsAreGrounded == Spec => []DraftIsGrounded
  <1>1. IInv => DraftIsGrounded
    BY DEF IInv
  <1> QED
    BY <1>1, Inductive, PTL

\* A run is closed by one decision of the assigned reviewer on its draft, never
\* a shadow run (record_review).
THEOREM DecisionsBind == Spec => []DecisionBinds
  <1>1. IInv => DecisionBinds
    BY DEF IInv
  <1> QED
    BY <1>1, Inductive, PTL

================================================================================
