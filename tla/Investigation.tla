----------------------------- MODULE Investigation -----------------------------
(***************************************************************************)
(* The control spine of one investigation (service.py, repository.py,      *)
(* state_machine.py, migration 0001): idempotent intake, the resumable     *)
(* pipeline with its at-most-once tool calls, and the human review.        *)
(*                                                                         *)
(* Every call is one HTTP request served by its own process.  A step is    *)
(* one database transaction, or one outside call with the transaction that *)
(* records it; between two steps the other calls run, and the process may  *)
(* die.  One tenant is modelled: every statement of the code is restricted *)
(* to the principal's tenant.                                              *)
(***************************************************************************)
EXTENDS Integers, Sequences, FiniteSets

CONSTANTS
  Caller,       \* intake requests; a retry by the client is a caller of its own
  Key,          \* values of the Idempotency-Key header
  KeyOf,        \* KeyOf[p]: the key of the request of p
  Payload,      \* request payloads, by hash
  PayloadOf,    \* PayloadOf[p]: the payload of the request of p
  Mode,         \* the run modes in this model: "human_review" and "shadow"
  Draft,        \* results the reasoning adapter may return, by draft hash
  ReviewCall,   \* review requests
  ActorOf,      \* ActorOf[v]: who sends review request v
  MayDie,       \* intake requests that may end without an answer
  MayLoseLock,  \* intake requests whose lock connection may drop
  None          \* the value of an absent draft, owner, decision or code

Actor == {"assigned", "other_reviewer", "not_a_reviewer"}

ASSUME KeyAssumption == KeyOf \in [Caller -> Key]
ASSUME PayloadAssumption == PayloadOf \in [Caller -> Payload]
ASSUME ModeAssumption == Mode \subseteq {"human_review", "shadow"}
ASSUME ActorAssumption == ActorOf \in [ReviewCall -> Actor]
ASSUME FaultAssumption == MayDie \subseteq Caller /\ MayLoseLock \subseteq Caller

VARIABLES
  idem,      \* the table idempotency_key: idem[k] is the run that k names
  run,       \* the table investigation_run; run[p] is the row inserted by p
  log,       \* the append-only table workflow_event, per run, by event_id
  tool,      \* the table tool_invocation
  lock,      \* the session advisory lock of a run and a tool: its holder
  decision,  \* the table review_decision
  call,      \* where an intake request stands and its RunRecord
  review,    \* where a review request stands
  invocations \* history: how often a tool was called for a run

vars == <<idem, run, log, tool, lock, decision, call, review, invocations>>

--------------------------------------------------------------------------------
(* States, tools and rows *)

EvidenceTool == {"T1_inventory", "T2_sales_demand", "T3_supplier"}
Tool == EvidenceTool \cup {"reasoning"}

RunState ==
  {"created", "validating", "gathering_evidence", "quality_checks", "reasoning",
   "drafting_recommendation", "awaiting_human", "approved", "edited_and_approved",
   "rejected", "escalated", "closed", "failed_authz"}

\* The states _resume_step works on; it returns the run in any other.
Working ==
  {"created", "validating", "gathering_evidence", "quality_checks", "reasoning",
   "drafting_recommendation"}

TRANSITIONS ==
  [ s \in RunState |->
    CASE s = "created" -> {"validating", "failed_authz"}
      [] s = "validating" -> {"gathering_evidence", "escalated", "failed_authz"}
      [] s = "gathering_evidence" -> {"quality_checks", "escalated"}
      [] s = "quality_checks" -> {"reasoning", "escalated"}
      [] s = "reasoning" -> {"drafting_recommendation", "escalated"}
      [] s = "drafting_recommendation" -> {"awaiting_human", "escalated"}
      [] s = "awaiting_human" -> {"approved", "edited_and_approved", "rejected", "escalated"}
      [] s \in {"approved", "edited_and_approved", "rejected", "escalated"} -> {"closed"}
      [] OTHER -> {} ]

\* The tools a state uses, in order.
Work(state) ==
  CASE state = "gathering_evidence" -> <<"T1_inventory", "T2_sales_demand", "T3_supplier">>
    [] state = "reasoning" -> <<"reasoning">>
    [] OTHER -> <<>>

Code == {"TOOL_FAILED", "RETRY_FORBIDDEN", "EVIDENCE_INVALID", "RESULT_UNAVAILABLE"}

RunRow ==
  [ state : RunState \cup {"absent"}, version : Nat, mode : {"human_review", "shadow"},
    draft : Draft \cup {None}, expired : BOOLEAN ]   \* expired: now > review_expires_at
NoRun ==
  [state |-> "absent", version |-> 0, mode |-> "human_review", draft |-> None,
   expired |-> FALSE]

\* A rejection has from = to; the code is that of an escalation.
Event == [from : RunState \cup {None}, to : RunState, code : Code \cup {None}]

\* Evidence is sound or not in the eyes of validate_bundle.
ToolRow ==
  [ status : {"absent", "started", "completed", "failed"},
    result : {"sound", "unsound", None} \cup Draft ]
NoToolRow == [status |-> "absent", result |-> None]

Action == {"approve", "edit_approve", "reject", "escalate"}
Decision == [action : Action, reviewer : Actor, draft : Draft]

ASSUME NoneAssumption ==
  None \notin Caller \cup Draft \cup RunState \cup Code \cup Decision

Call ==
  [ pc : {"idle", "claim", "mismatch", "resume", "holding", "conflict", "rejecting",
          "reload", "done", "rejected", "failed", "dead"},
    run : Caller \cup {None}, state : RunState \cup {None}, version : Nat,
    next : 1..4, code : Code \cup {None} ]
NewCall ==
  [pc |-> "idle", run |-> None, state |-> None, version |-> 0, next |-> 1, code |-> None]

Review == [pc : {"idle", "rejecting", "done"}, run : Caller \cup {None},
           state : RunState \cup {None}]
NewReview == [pc |-> "idle", run |-> None, state |-> None]

--------------------------------------------------------------------------------
(* Intake: begin_intake *)

AppendEvent(r, from, to, code) ==
  log' = [log EXCEPT ![r] = Append(@, [from |-> from, to |-> to, code |-> code])]

\* Mutant: a run with its result ready is taken for one at rest.
ResumedEarly(state) ==
  IF state \in Working \ {"drafting_recommendation"} THEN "resume" ELSE "done"

\* _resume_step works on a run of these states and returns any other.
Resumed(state) == IF state \in Working THEN "resume" ELSE "done"

\* The request of p goes on from row, the row of run r it has just read.
View(p, r, row, pc) ==
  [call EXCEPT ![p] = [pc |-> pc, run |-> r, state |-> row.state,
                       version |-> row.version, next |-> 1, code |-> None]]

\* Mutant: nothing makes the key unique.
KeyFreeAlways(p) == TRUE

KeyFree(p) == idem[KeyOf[p]] = None

\* The key is looked up and is not there yet.
Find(p) ==
  /\ call[p].pc = "idle" /\ KeyFree(p)
  /\ call' = [call EXCEPT ![p].pc = "claim"]
  /\ UNCHANGED <<idem, run, log, tool, lock, decision, review, invocations>>

\* Run, key and first event are inserted in one transaction.
Claim(p) ==
  /\ call[p].pc = "claim" /\ KeyFree(p)
  /\ idem' = [idem EXCEPT ![KeyOf[p]] = p]
  /\ \E mode \in Mode :
       LET row == [NoRun EXCEPT !.state = "created", !.mode = mode]
       IN /\ run' = [run EXCEPT ![p] = row]
          /\ call' = View(p, p, row, "resume")
  /\ AppendEvent(p, None, "created", None)
  /\ UNCHANGED <<tool, lock, decision, review, invocations>>

\* The key is taken, at the first look or because the race for it was lost.
Observe(p) ==
  /\ call[p].pc \in {"idle", "claim"} /\ ~KeyFree(p)
  /\ LET r == idem[KeyOf[p]]
     IN call' = View(p, r, run[r],
                     IF PayloadOf[r] = PayloadOf[p] THEN Resumed(run[r].state)
                     ELSE "mismatch")
  /\ UNCHANGED <<idem, run, log, tool, lock, decision, review, invocations>>

\* IDEMPOTENCY_KEY_CONFLICT: the rejection carries the state read before.
RejectIntake(p) ==
  /\ call[p].pc = "mismatch"
  /\ AppendEvent(call[p].run, call[p].state, call[p].state, None)
  /\ call' = [call EXCEPT ![p].pc = "rejected"]
  /\ UNCHANGED <<idem, run, tool, lock, decision, review, invocations>>

--------------------------------------------------------------------------------
(* The tools of a state: _gather_evidence and _reason_once *)

\* The request still has a tool of its state to use.
ToolsLeft(p) == call[p].code = None /\ call[p].next <= Len(Work(call[p].state))

\* The row of tool_invocation the request is at.
At(p) == <<call[p].run, Work(call[p].state)[call[p].next]>>

\* Mutant: the row is looked up without waiting for its owner.
NoWait(at) == TRUE

\* The advisory lock can be taken: no session holds it.
LockFree(at) == lock[at] = None

\* Mutant: an abandoned call is tried again.
MayClaimAbandoned(row) == row.status \in {"absent", "started"}

MayClaim(row) == row.status = "absent"

\* The caller becomes the owner of the call and keeps the lock during it.
ClaimTool(p) ==
  /\ call[p].pc = "resume" /\ ToolsLeft(p) /\ LockFree(At(p))
  /\ MayClaim(tool[At(p)])
  /\ tool' = [tool EXCEPT ![At(p)] = [status |-> "started", result |-> None]]
  /\ lock' = [lock EXCEPT ![At(p)] = p]
  /\ invocations' = [invocations EXCEPT ![At(p)] = @ + 1]
  /\ call' = [call EXCEPT ![p].pc = "holding"]
  /\ UNCHANGED <<idem, run, log, decision, review>>

\* Another caller has finished the call: its result is used.
ReuseResult(p) ==
  /\ call[p].pc = "resume" /\ ToolsLeft(p) /\ LockFree(At(p))
  /\ tool[At(p)].status = "completed"
  /\ call' = [call EXCEPT ![p].next = @ + 1]
  /\ UNCHANGED <<idem, run, log, tool, lock, decision, review, invocations>>

\* _forbidden_retry_code: a failed call keeps its own code; one that was
\* started and whose lock is free again was abandoned.
RefuseRetry(p) ==
  /\ call[p].pc = "resume" /\ ToolsLeft(p) /\ LockFree(At(p))
  /\ ~MayClaim(tool[At(p)]) /\ tool[At(p)].status # "completed"
  /\ call' = [call EXCEPT ![p].code =
       IF tool[At(p)].status = "failed" THEN "TOOL_FAILED" ELSE "RETRY_FORBIDDEN"]
  /\ UNCHANGED <<idem, run, log, tool, lock, decision, review, invocations>>

\* What a tool may return: evidence or a draft, or a failure.
Returns(t) ==
  {[status |-> "failed", result |-> None]} \cup
  {[status |-> "completed", result |-> x] :
     x \in IF t = "reasoning" THEN Draft ELSE {"sound", "unsound"}}

\* The outside call ends and complete_tool records it.  An owner whose lock
\* connection is gone records it too, but fails when it releases the lock.
ToolReturns(p) ==
  /\ call[p].pc = "holding"
  /\ \E row \in Returns(At(p)[2]) :
       /\ tool' = [tool EXCEPT ![At(p)] = row]
       /\ IF lock[At(p)] = p
          THEN /\ lock' = [lock EXCEPT ![At(p)] = None]
               /\ call' = [call EXCEPT ![p] =
                    IF row.status = "failed"
                    THEN [call[p] EXCEPT !.pc = "resume", !.code = "TOOL_FAILED"]
                    ELSE [call[p] EXCEPT !.pc = "resume", !.next = call[p].next + 1]]
          ELSE /\ call' = [call EXCEPT ![p].pc = "failed"]
               /\ UNCHANGED lock
  /\ UNCHANGED <<idem, run, log, decision, review, invocations>>

--------------------------------------------------------------------------------
(* The transitions: _resume_step, transition, set_draft_and_transition *)

\* Mutant: the bundle is checked for being there, not for being sound.
BundleComplete(r) == \A t \in EvidenceTool : tool[<<r, t>>].status = "completed"

\* validate_bundle.
BundleValid(r) ==
  \A t \in EvidenceTool :
    tool[<<r, t>>].status = "completed" /\ tool[<<r, t>>].result = "sound"

\* The code the run is to be escalated with, if any.
Stop(c) ==
  CASE c.code # None -> c.code
    [] c.state = "quality_checks" /\ ~BundleValid(c.run) -> "EVIDENCE_INVALID"
    [] c.state = "drafting_recommendation"
         /\ tool[<<c.run, "reasoning">>].status # "completed" -> "RESULT_UNAVAILABLE"
    [] OTHER -> None

Forward ==
  [ created |-> "validating", validating |-> "gathering_evidence",
    gathering_evidence |-> "quality_checks", quality_checks |-> "reasoning",
    reasoning |-> "drafting_recommendation",
    drafting_recommendation |-> "awaiting_human" ]

Target(c) == IF Stop(c) = None THEN Forward[c.state] ELSE "escalated"

\* The row after the transition of c; the draft is bound on the last one.
Moved(row, c) ==
  [ row EXCEPT !.state = Target(c), !.version = row.version + 1,
    !.draft = IF Target(c) = "awaiting_human" THEN tool[<<c.run, "reasoning">>].result ELSE @ ]

\* Mutant: UPDATE without the state and version the caller has read.
UnchangedSinceIgnored(c) == TRUE

UnchangedSince(c) == run[c.run].state = c.state /\ run[c.run].version = c.version

Ready(p) == call[p].pc = "resume" /\ ~ToolsLeft(p)

Advance(p) ==
  /\ Ready(p) /\ UnchangedSince(call[p])
  /\ LET c == call[p]  row == Moved(run[c.run], c)
     IN /\ run' = [run EXCEPT ![c.run] = row]
        /\ AppendEvent(c.run, c.state, Target(c), Stop(c))
        /\ call' = View(p, c.run, row, Resumed(row.state))
  /\ UNCHANGED <<idem, tool, lock, decision, review, invocations>>

\* STATE_VERSION_CONFLICT: the update matches no row.
Conflict(p) ==
  /\ Ready(p) /\ ~UnchangedSince(call[p])
  /\ call' = [call EXCEPT ![p].pc = "conflict"]
  /\ UNCHANGED <<idem, run, log, tool, lock, decision, review, invocations>>

\* append_rejected_control reads the run on one connection ...
ReadForRejection(p) ==
  /\ call[p].pc = "conflict"
  /\ call' = View(p, call[p].run, run[call[p].run], "rejecting")
  /\ UNCHANGED <<idem, run, log, tool, lock, decision, review, invocations>>

\* ... and inserts what it has read on another.
RejectControl(p) ==
  /\ call[p].pc = "rejecting"
  /\ AppendEvent(call[p].run, call[p].state, call[p].state, None)
  /\ call' = [call EXCEPT ![p].pc = "reload"]
  /\ UNCHANGED <<idem, run, tool, lock, decision, review, invocations>>

\* _resume: converge on the current row.
Reload(p) ==
  /\ call[p].pc = "reload"
  /\ LET r == call[p].run IN call' = View(p, r, run[r], Resumed(run[r].state))
  /\ UNCHANGED <<idem, run, log, tool, lock, decision, review, invocations>>

--------------------------------------------------------------------------------
(* Failures of a request *)

\* Mutant: the lock outlives its session.
KeptLocks(p) == lock

\* PostgreSQL frees the session locks of a connection that is gone.
FreedLocks(p) == [at \in DOMAIN lock |-> IF lock[at] = p THEN None ELSE lock[at]]

Ended == {"done", "rejected", "failed", "dead"}

\* The process dies, or an exception that no handler expects ends the request.
Die(p) ==
  /\ p \in MayDie /\ call[p].pc \notin Ended \cup {"idle"}
  /\ call' = [call EXCEPT ![p].pc = "dead"]
  /\ lock' = FreedLocks(p)
  /\ UNCHANGED <<idem, run, log, tool, decision, review, invocations>>

\* The lock connection drops during a long call; its caller does not notice.
LoseLock(p) ==
  /\ p \in MayLoseLock /\ call[p].pc = "holding" /\ lock[At(p)] = p
  /\ lock' = FreedLocks(p)
  /\ UNCHANGED <<idem, run, log, tool, decision, call, review, invocations>>

--------------------------------------------------------------------------------
(* Human review: review, record_review *)

Exists(r) == run[r].state # "absent"

\* Mutant: shadow runs are not kept out.
MayDecideShadow(r, actor, draft) ==
  /\ decision[r] = None /\ run[r].state = "awaiting_human"
  /\ actor = "assigned" /\ draft = run[r].draft /\ ~run[r].expired

\* The review passes the checks of record_review.
MayDecide(r, actor, draft) ==
  /\ run[r].mode # "shadow"                                  \* SHADOW_REVIEW_FORBIDDEN
  /\ decision[r] = None /\ run[r].state = "awaiting_human"   \* RUN_ALREADY_DECIDED
  /\ actor = "assigned"                                      \* WRONG_REVIEWER
  /\ draft = run[r].draft                                    \* STALE_APPROVAL_TARGET
  /\ ~run[r].expired                                         \* REVIEW_EXPIRED

\* Mutant: a decided run is closed in one move.
DecidedAsClosed(action) == "closed"

DecidedState(action) ==
  CASE action = "approve" -> "approved"
    [] action = "edit_approve" -> "edited_and_approved"
    [] action = "reject" -> "rejected"
    [] action = "escalate" -> "escalated"

\* The decision and both transitions commit together, the row being locked.
Decide(v) ==
  /\ review[v].pc = "idle" /\ ActorOf[v] # "not_a_reviewer"
  /\ \E r \in Caller, draft \in Draft, action \in Action :
       /\ Exists(r) /\ MayDecide(r, ActorOf[v], draft)
       /\ decision' = [decision EXCEPT ![r] =
            [action |-> action, reviewer |-> ActorOf[v], draft |-> run[r].draft]]
       /\ run' = [run EXCEPT ![r].state = "closed", ![r].version = @ + 2]
       /\ log' = [log EXCEPT ![r] = @ \o
            << [from |-> "awaiting_human", to |-> DecidedState(action), code |-> None],
               [from |-> DecidedState(action), to |-> "closed", code |-> None] >>]
  /\ review' = [review EXCEPT ![v].pc = "done"]
  /\ UNCHANGED <<idem, tool, lock, call, invocations>>

\* A refused review leaves its rejection, in the same transaction.
RefuseReview(v) ==
  /\ review[v].pc = "idle" /\ ActorOf[v] # "not_a_reviewer"
  /\ \E r \in Caller, draft \in Draft :
       /\ Exists(r) /\ ~MayDecide(r, ActorOf[v], draft)
       /\ AppendEvent(r, run[r].state, run[r].state, None)
  /\ review' = [review EXCEPT ![v].pc = "done"]
  /\ UNCHANGED <<idem, run, tool, lock, decision, call, invocations>>

\* REVIEWER_ROLE_REQUIRED, or INVALID_EDITED_PAYLOAD from any reviewer: the
\* run is read, and the rejection is inserted later with what was read.
ReadForReviewRejection(v) ==
  /\ review[v].pc = "idle"
  /\ \E r \in Caller :
       /\ Exists(r)
       /\ review' = [review EXCEPT ![v] =
            [pc |-> "rejecting", run |-> r, state |-> run[r].state]]
  /\ UNCHANGED <<idem, run, log, tool, lock, decision, call, invocations>>

RejectReview(v) ==
  /\ review[v].pc = "rejecting"
  /\ AppendEvent(review[v].run, review[v].state, review[v].state, None)
  /\ review' = [review EXCEPT ![v].pc = "done"]
  /\ UNCHANGED <<idem, run, tool, lock, decision, call, invocations>>

\* The clock passes review_expires_at.
ExpireReview(r) ==
  /\ run[r].state = "awaiting_human" /\ ~run[r].expired
  /\ run' = [run EXCEPT ![r].expired = TRUE]
  /\ UNCHANGED <<idem, log, tool, lock, decision, call, review, invocations>>

--------------------------------------------------------------------------------
(* The specification *)

Init ==
  /\ idem = [k \in Key |-> None]
  /\ run = [r \in Caller |-> NoRun]
  /\ log = [r \in Caller |-> <<>>]
  /\ tool = [at \in Caller \X Tool |-> NoToolRow]
  /\ lock = [at \in Caller \X Tool |-> None]
  /\ decision = [r \in Caller |-> None]
  /\ call = [p \in Caller |-> NewCall]
  /\ review = [v \in ReviewCall |-> NewReview]
  /\ invocations = [at \in Caller \X Tool |-> 0]

Intake(p) == Find(p) \/ Claim(p) \/ Observe(p) \/ RejectIntake(p)
UseTool(p) == ClaimTool(p) \/ ReuseResult(p) \/ RefuseRetry(p) \/ ToolReturns(p)
Transition(p) ==
  Advance(p) \/ Conflict(p) \/ ReadForRejection(p) \/ RejectControl(p) \/ Reload(p)
Step(p) == Intake(p) \/ UseTool(p) \/ Transition(p)
ReviewStep(v) ==
  Decide(v) \/ RefuseReview(v) \/ ReadForReviewRejection(v) \/ RejectReview(v)

Next ==
  \/ \E p \in Caller : Step(p) \/ Die(p) \/ LoseLock(p)
  \/ \E v \in ReviewCall : ReviewStep(v)
  \/ \E r \in Caller : ExpireReview(r)

Spec == Init /\ [][Next]_vars

\* A request that has not died goes on: its statements and its outside calls
\* end by their timeouts.
FairSpec == Spec /\ \A p \in Caller : WF_vars(Step(p))

--------------------------------------------------------------------------------
(* Replaying the log: service.audit *)

\* Mutant: a rejection counts as a transition, its state may be an old one.
CountsAlways(event) == TRUE

\* A rejection records the same state twice and is skipped.
CountsInReplay(event) == event.from # event.to

Counted(r) == {i \in DOMAIN log[r] : CountsInReplay(log[r][i])}

ReplayedState(r) ==
  log[r][CHOOSE i \in Counted(r) : \A j \in Counted(r) : j <= i].to

--------------------------------------------------------------------------------
(* Properties *)

TypeOK ==
  /\ idem \in [Key -> Caller \cup {None}]
  /\ run \in [Caller -> RunRow]
  /\ log \in [Caller -> Seq(Event)]
  /\ tool \in [Caller \X Tool -> ToolRow]
  /\ lock \in [Caller \X Tool -> Caller \cup {None}]
  /\ decision \in [Caller -> Decision \cup {None}]
  /\ call \in [Caller -> Call]
  /\ review \in [ReviewCall -> Review]
  /\ invocations \in [Caller \X Tool -> Nat]

\* The append-only audit reconstructs the current state (docs/12, M1), however
\* late a concurrent rejection inserts the state it has read: the transitions of
\* the log are a path through TRANSITIONS from the creation of the run to its
\* state, one for every version, and the replay ends there.
AuditReplays ==
  \A r \in Caller : Exists(r) =>
    /\ log[r][1] = [from |-> None, to |-> "created", code |-> None]
    /\ \A i \in Counted(r) \ {1} :
         /\ log[r][i].to \in TRANSITIONS[log[r][i].from]
         /\ \E j \in Counted(r) :
              /\ j < i /\ log[r][j].to = log[r][i].from
              /\ \A k \in Counted(r) : k <= j \/ k >= i
    /\ Cardinality(Counted(r)) = run[r].version + 1
    /\ ReplayedState(r) = run[r].state

\* "A normal run makes no more than one model call" (docs/12, M1): duplicates,
\* retries after a crash and a lost lock never repeat a call of any tool.
ToolsCalledOnce == \A at \in Caller \X Tool : invocations[at] <= 1

\* One accepted request keeps one run: a key names the one run there is for it,
\* and every request that was answered with a run got that one, for a payload
\* that is the same as its own.
OneRunPerKey ==
  /\ \A r \in Caller : Exists(r) => idem[KeyOf[r]] = r
  /\ \A p \in Caller : call[p].pc = "done" =>
       /\ call[p].run = idem[KeyOf[p]]
       /\ PayloadOf[call[p].run] = PayloadOf[p]

\* A draft is put to a human only if it is what the one reasoning call returned,
\* on three sound pieces of evidence; no late result changes it afterwards.
DraftIsGrounded ==
  \A r \in Caller :
    /\ run[r].draft # None =>
         /\ tool[<<r, "reasoning">>] = [status |-> "completed", result |-> run[r].draft]
         /\ \A t \in EvidenceTool : tool[<<r, t>>] = [status |-> "completed", result |-> "sound"]
    /\ run[r].draft # None <=> run[r].state \in {"awaiting_human", "closed"}

\* A run is closed exactly by one decision: of the assigned reviewer, on the
\* draft the run holds, and never of a shadow run.
DecisionBinds ==
  \A r \in Caller :
    /\ decision[r] # None <=> run[r].state = "closed"
    /\ decision[r] # None =>
         /\ run[r].mode = "human_review"
         /\ decision[r].reviewer = "assigned" /\ decision[r].draft = run[r].draft

\* The request p no longer has the lock it took, or is gone.
Abandoned(p) ==
  \/ call[p].pc \in {"dead", "failed"}
  \/ call[p].pc = "holding" /\ lock[At(p)] # p

\* An escalation tells the truth: RETRY_FORBIDDEN only if a request abandoned its
\* call - never because another is slow - TOOL_FAILED only if a call did fail, and
\* EVIDENCE_INVALID only if some evidence is not sound.
EscalationIsHonest ==
  \A r \in Caller : \A i \in DOMAIN log[r] :
    /\ log[r][i].code = "RETRY_FORBIDDEN" =>
         \E p \in Caller : call[p].run = r /\ Abandoned(p)
    /\ log[r][i].code = "TOOL_FAILED" => \E t \in Tool : tool[<<r, t>>].status = "failed"
    /\ log[r][i].code = "EVIDENCE_INVALID" =>
         \E t \in EvidenceTool : tool[<<r, t>>].result = "unsound"
    /\ log[r][i].code # "RESULT_UNAVAILABLE"

\* A request that waits for a lock waits for the one request that is in the middle
\* of that very call and itself waits for nobody: no circle of waiting requests, and
\* nobody waits for the dead.
WaitsForTheOwner ==
  \A p \in Caller :
    call[p].pc = "resume" /\ ToolsLeft(p) /\ ~LockFree(At(p)) =>
      \E q \in Caller \ {p} :
        /\ lock[At(p)] = q /\ call[q].pc = "holding" /\ At(q) = At(p)
        /\ tool[At(p)].status = "started"

\* How far along a state is: every transition raises it.
Stage(state) ==
  CASE state = "created" -> 0
    [] state = "validating" -> 1
    [] state = "gathering_evidence" -> 2
    [] state = "quality_checks" -> 3
    [] state = "reasoning" -> 4
    [] state = "drafting_recommendation" -> 5
    [] state = "awaiting_human" -> 6
    [] state \in {"approved", "edited_and_approved", "rejected", "escalated", "failed_authz"} -> 7
    [] OTHER -> 8

\* Why the unbounded loop of conflicts and reloads in _resume ends: what a request
\* has read is never ahead of the row and differs from it only by an older version,
\* so a STATE_VERSION_CONFLICT means that somebody else has moved the run since; and
\* a run has no more versions than stages, so nobody can be sent back for ever.
ConflictsArePassing ==
  \A p \in Caller : call[p].run # None =>
    LET row == run[call[p].run]
    IN /\ call[p].version <= row.version /\ row.version <= Stage(row.state)
       /\ call[p].version = row.version => call[p].state = row.state
       /\ call[p].pc = "conflict" => call[p].version < row.version

\* audit() lists the events first and reads the run later, on another connection:
\* whatever commits in between, the replayed_state it shows is the current_state or
\* an earlier stage of the run, because every state an older log can replay to is
\* one the run has left for good.
ReportsNeverRunAhead ==
  \A r \in Caller : \A i \in Counted(r) :
    \/ log[r][i].to = run[r].state
    \/ Stage(log[r][i].to) < Stage(run[r].state)

\* Whoever has read of a run, a request its row or a report its log, knows its
\* present or its past, while others move it.
NobodyReadsAhead == ConflictsArePassing /\ ReportsNeverRunAhead

PhaseOf(row) ==
  CASE row.state \in Working -> "open"
    [] row.state = "awaiting_human" -> "recommended"
    [] row.state = "closed" -> "decided"
    [] OTHER -> row.state

Cases == INSTANCE InvestigationCase WITH
  case <- [k \in Key |->
    IF idem[k] = None THEN [phase |-> "none", mode |-> "human_review", draft |-> None]
    ELSE LET row == run[idem[k]]
         IN [phase |-> PhaseOf(row), mode |-> row.mode, draft |-> row.draft]],
  consulted <- {k \in Key : idem[k] # None /\ invocations[<<idem[k], "reasoning">>] > 0},
  results <- [k \in Key |->
    {t \in Tool : idem[k] # None /\ tool[<<idem[k], t>>].status = "completed"}]

\* The spine implements InvestigationCase: whatever the races, a key has one case
\* that is consulted only while it is open and has all its evidence, gets one
\* recommendation or one escalation, and is decided at most once; no result is taken
\* back, and of the cases at rest only an escalated one may get another.
ImplementsCase == Cases!Spec

--------------------------------------------------------------------------------
(* Liveness, under FairSpec *)

\* No request waits for ever: not for a lock whose owner is dead, and not in the
\* loop of conflicts and reloads.
EveryCallEnds == \A p \in Caller : call[p].pc # "idle" ~> call[p].pc \in Ended

\* A run outlives the process that works on it: as long as some request for its
\* key does not die, it comes to rest in a state a human or the audit can see.
Survivor(r) ==
  \E p \in Caller \ (MayDie \cup MayLoseLock) :
    KeyOf[p] = KeyOf[r] /\ PayloadOf[p] = PayloadOf[r]

RunComesToRest ==
  \A r \in Caller : Exists(r) /\ Survivor(r) ~> run[r].state \notin Working

================================================================================
