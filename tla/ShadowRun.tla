-------------------------------- MODULE ShadowRun --------------------------------
(***************************************************************************)
(* Shadow processing of one case (shadow/service.py, shadow/repository.py, *)
(* shadow/diff.py, migrations 0004 and 0005) by concurrent requests of one *)
(* tenant: two session advisory locks in a fixed order, the row that is    *)
(* observed, reclaimed or inserted, the analysis by the control spine, and *)
(* the completion that stores result and comparison once.                  *)
(*                                                                         *)
(* Every statement of the autocommitted lock connection is a step, and so  *)
(* is the completing transaction.  The analysis is the promise of the      *)
(* control spine, InvestigationCase, one case for every shadow run.        *)
(* Requests that process() turns away before it opens a connection change  *)
(* nothing and are left out.                                               *)
(***************************************************************************)
EXTENDS Integers, Sequences, FiniteSets

CONSTANTS
  Caller,      \* requests; a retry is a request of its own
  Key,         \* values of idempotency_key
  KeyOf,       \* KeyOf[p]: the key of request p
  Case,        \* case identities: case, version and processor version
  CaseOf,      \* CaseOf[p]: the identity request p is about
  Content,     \* what else the payload hash covers
  ContentOf,   \* ContentOf[p]: that of request p
  Rank,        \* the order of the advisory lock numbers
  Draft,       \* recommendations the analysis may end with
  EvidenceTool, \* the evidence tools of the analysis
  Expected,    \* Expected[x]: the reference outcome of content x, with required_tools
  MayStop,     \* requests that may die, or whose outside calls may raise
  MayLoseLock, \* requests whose idle lock connection may drop
  None         \* NULL

Lock == Key \cup Case

ASSUME RequestAssumption ==
  KeyOf \in [Caller -> Key] /\ CaseOf \in [Caller -> Case] /\ ContentOf \in [Caller -> Content]
ASSUME LockAssumption == Key \cap Case = {}
\* The numbers are 64 bits of a digest: different, and one of them is the highest.
ASSUME RankAssumption ==
  /\ Rank \in [Lock -> Int]
  /\ \A l, m \in Lock : Rank[l] = Rank[m] => l = m
  /\ Lock # {} => \E top \in Lock : \A l \in Lock : Rank[l] <= Rank[top]
ASSUME ToolAssumption == IsFiniteSet(EvidenceTool) /\ "reasoning" \notin EvidenceTool
ASSUME ExpectedAssumption ==
  Expected \in [Content ->
    [ escalated : BOOLEAN, draft : Draft \cup {None},
      tools : (SUBSET EvidenceTool) \ {{}} ]]
ASSUME FaultAssumption == MayStop \subseteq Caller /\ MayLoseLock \subseteq Caller

VARIABLES
  row,           \* the table shadow_run; row[p] is the row inserted by p
  log,           \* the append-only table shadow_control_event, per run, by id
  lock,          \* the session advisory locks: their holders
  call,          \* where a request stands
  investigation, \* the case of the control spine under the key shadow:<run>
  consulted,     \* the runs whose case was put to the model
  results        \* the tools whose result is on record for the case of a run

vars == <<row, log, lock, call, investigation, consulted, results>>

Spine == INSTANCE InvestigationCase WITH
  Key <- Caller, Mode <- {"shadow"}, case <- investigation

--------------------------------------------------------------------------------
(* Rows, results and requests *)

\* ShadowActualOutcome: what is computed from the fields kept here is left out.
Result ==
  [ phase : {"recommended", "escalated"}, draft : Draft \cup {None},
    evidence : SUBSET EvidenceTool,     \* evidence_tools and evidence_ids
    invoked : BOOLEAN,
    provider : {"not-invoked", "model"} ] \* provider_label, latency and cost
Agreement == {"exact", "partial", "disagree"}
Diff == [escalated : Agreement, recommendation : Agreement, evidence : Agreement]

Row ==
  [ status : {"absent", "started", "completed", "escalated"},
    result : Result \cup {None}, diff : Diff \cup {None} ]
NoRow == [status |-> "absent", result |-> None, diff |-> None]

Event == [type : {"started", "rejected", "completed"}, by : Caller]

Call ==
  [ pc : {"idle", "locking", "select", "reject", "insert", "record", "intake", "reasoning",
          "complete", "unlock", "done", "stopped"},
    run : Caller \cup {None}, result : Result \cup {None}, lost : BOOLEAN,
    answer : {None, "result", "identity_conflict", "idempotency_conflict",
              "completion_conflict", "unique_violation", "connection_lost"} ]
NewCall ==
  [pc |-> "idle", run |-> None, result |-> None, lost |-> FALSE, answer |-> None]

ASSUME NoneAssumption ==
  /\ None \notin Caller \cup Draft \cup Result \cup Diff
  /\ None \notin [key : Key, content : Content, result : Result \cup {None}]
  /\ None \notin {"result", "identity_conflict", "idempotency_conflict",
                  "completion_conflict", "unique_violation", "connection_lost"}

\* The pcs in which a request works on a run it has claimed.
Claimed == {"intake", "reasoning", "complete"}

Exists(r) == row[r].status # "absent"

--------------------------------------------------------------------------------
(* begin_or_observe: the locks *)

LocksOf(p) == {KeyOf[p], CaseOf[p]}

Begin(p) ==
  /\ call[p].pc = "idle"
  /\ call' = [call EXCEPT ![p].pc = "locking"]
  /\ UNCHANGED <<row, log, lock, investigation, consulted, results>>

\* Mutant: the two numbers are not sorted.
IsNextUnsorted(p, l) == lock[l] # p

IsNext(p, l) ==
  lock[l] # p /\ \A m \in LocksOf(p) : lock[m] # p => Rank[l] <= Rank[m]

\* Mutant: the lock is shared.
GrantedAlways(l) == TRUE

Granted(l) == lock[l] = None

TakeLock(p) ==
  /\ call[p].pc = "locking"
  /\ \E l \in LocksOf(p) :
       /\ IsNext(p, l) /\ Granted(l)
       /\ lock' = [lock EXCEPT ![l] = p]
       /\ call' = [call EXCEPT ![p].pc =
            IF \A m \in LocksOf(p) \ {l} : lock[m] = p THEN "select" ELSE "locking"]
  /\ UNCHANGED <<row, log, investigation, consulted, results>>

--------------------------------------------------------------------------------
(* begin_or_observe: the row *)

\* By the key or by the identity of the case.
SameRun(r, p) == KeyOf[r] = KeyOf[p] \/ CaseOf[r] = CaseOf[p]

Found(p) == {r \in Caller : Exists(r) /\ SameRun(r, p)}

\* Mutant: whatever the key names is taken for the request's own.
AnyPayload(r, p) == TRUE

\* The payload hash covers the case with its identity.
SamePayload(r, p) == CaseOf[r] = CaseOf[p] /\ ContentOf[r] = ContentOf[p]

Conclude(p, answer, result) ==
  call' = [call EXCEPT ![p].pc = "unlock", ![p].answer = answer, ![p].result = result]

\* SHADOW_IDENTITY_CONFLICT; nothing is recorded.
RefuseIdentity(p) ==
  /\ call[p].pc = "select" /\ Cardinality(Found(p)) > 1
  /\ Conclude(p, "identity_conflict", None)
  /\ UNCHANGED <<row, log, lock, investigation, consulted, results>>

\* One row: another payload, a terminal run to replay, or one to reclaim.
Observe(p) ==
  /\ call[p].pc = "select"
  /\ \E r \in Found(p) :
       /\ Found(p) = {r}
       /\ \/ /\ ~SamePayload(r, p)
             /\ call' = [call EXCEPT ![p].pc = "reject", ![p].run = r]
          \/ /\ SamePayload(r, p) /\ row[r].status # "started"
             /\ Conclude(p, "result", row[r].result)
          \/ /\ SamePayload(r, p) /\ row[r].status = "started"
             /\ call' = [call EXCEPT ![p].pc = "intake", ![p].run = r]
  /\ UNCHANGED <<row, log, lock, investigation, consulted, results>>

FindNothing(p) ==
  /\ call[p].pc = "select" /\ Found(p) = {}
  /\ call' = [call EXCEPT ![p].pc = "insert"]
  /\ UNCHANGED <<row, log, lock, investigation, consulted, results>>

AppendEvent(r, type, p) == log' = [log EXCEPT ![r] = Append(@, [type |-> type, by |-> p])]

\* Mutant: the refusal leaves no event.
RejectSilently(p) ==
  /\ call[p].pc = "reject"
  /\ Conclude(p, "idempotency_conflict", None)
  /\ UNCHANGED <<row, log, lock, investigation, consulted, results>>

\* SHADOW_IDEMPOTENCY_CONFLICT, after its event.
Reject(p) ==
  /\ call[p].pc = "reject"
  /\ AppendEvent(call[p].run, "rejected", p)
  /\ Conclude(p, "idempotency_conflict", None)
  /\ UNCHANGED <<row, lock, investigation, consulted, results>>

\* The UNIQUE constraints of shadow_run.
Insertable(p) ==
  \A r \in Caller : Exists(r) => KeyOf[r] # KeyOf[p] /\ CaseOf[r] # CaseOf[p]

Insert(p) ==
  /\ call[p].pc = "insert"
  /\ IF Insertable(p)
     THEN /\ row' = [row EXCEPT ![p].status = "started"]
          /\ call' = [call EXCEPT ![p].pc = "record", ![p].run = p]
     ELSE /\ Conclude(p, "unique_violation", None)
          /\ UNCHANGED row
  /\ UNCHANGED <<log, lock, investigation, consulted, results>>

\* A statement of its own: a death before it leaves a run without this event.
RecordStart(p) ==
  /\ call[p].pc = "record"
  /\ AppendEvent(p, "started", p)
  /\ call' = [call EXCEPT ![p].pc = "intake"]
  /\ UNCHANGED <<row, lock, investigation, consulted, results>>

--------------------------------------------------------------------------------
(* process: the analysis, the comparison and the completion *)

\* intake runs or resumes the pipeline under the key of the run; the session it
\* holds its claim with is idle meanwhile.
Intake(p) ==
  /\ call[p].pc = "intake"
  /\ LET r == call[p].run
     IN Spine!Open(r) \/ Spine!Consult(r) \/ Spine!Recommend(r) \/ Spine!Escalate(r)
  /\ UNCHANGED <<row, log, lock, call>>

\* complete_tool looks at neither the run nor the claim: a tool that p called is
\* recorded even if another request for the run has escalated it since.  (Which of
\* the two recorded a result makes no difference: both read all that is recorded.)
RecordResult(p) ==
  /\ call[p].pc = "intake"
  /\ LET r == call[p].run
     IN /\ investigation[r].phase = "escalated" =>
             \E q \in Caller \ {p} : call[q].run = r
        /\ \E t \in Spine!Tools : Spine!Record(r, t)
  /\ UNCHANGED <<row, log, lock, call>>

\* Mutant: intake may return a run that is still worked on.
AtRestEarly(r) == investigation[r].phase # "none"

\* The phases in which intake returns the run.
AtRest(r) == investigation[r].phase \in {"recommended", "escalated"}

\* _actual: detail reads the run and then, on another connection, the evidence on
\* record.  The run is at rest, its row and its events stay as they are, so that
\* the step stands at the moment the evidence is read.
ReadOutcome(p) ==
  /\ call[p].pc = "intake" /\ AtRest(call[p].run)
  /\ LET r == call[p].run
     IN call' = [call EXCEPT ![p].pc = "reasoning",
          ![p].result = [phase |-> investigation[r].phase, draft |-> investigation[r].draft,
                         evidence |-> results[r] \cap EvidenceTool,
                         invoked |-> FALSE, provider |-> "not-invoked"]]
  /\ UNCHANGED <<row, log, lock, investigation, consulted, results>>

ProviderOf(r) == IF "reasoning" \in results[r] THEN "model" ELSE "not-invoked"

\* _actual: the reasoning invocation with its metadata, looked up on its own.
ReadReasoning(p) ==
  /\ call[p].pc = "reasoning"
  /\ LET r == call[p].run
     IN call' = [call EXCEPT ![p].pc = "complete",
          ![p].result = [call[p].result EXCEPT !.invoked = r \in consulted,
                                               !.provider = ProviderOf(r)]]
  /\ UNCHANGED <<row, log, lock, investigation, consulted, results>>

Agree(expected, actual) == IF expected = actual THEN "exact" ELSE "disagree"

\* The evidence the case requires, against the evidence on record.
Cover(required, evidence) ==
  IF required \subseteq evidence THEN "exact"
  ELSE IF required \cap evidence # {} THEN "partial" ELSE "disagree"

\* compare, field by field; the fields of the draft, its citations among them, are one.
Compare(content, result) ==
  [ escalated |-> Agree(Expected[content].escalated, result.phase = "escalated"),
    recommendation |-> Agree(Expected[content].draft, result.draft),
    evidence |-> Cover(Expected[content].tools, result.evidence) ]

TerminalStatus(result) == IF result.phase = "escalated" THEN "escalated" ELSE "completed"

\* Mutant: the UPDATE has no condition on the status.
StillStartedAlways(r) == TRUE

StillStarted(r) == row[r].status = "started"

\* complete: row, comparison and event commit together; SHADOW_COMPLETION_CONFLICT
\* if another request has completed the run.
Complete(p) ==
  /\ call[p].pc = "complete"
  /\ LET r == call[p].run
         result == call[p].result
     IN IF StillStarted(r)
        THEN /\ row' = [row EXCEPT ![r] = [status |-> TerminalStatus(result),
               result |-> result, diff |-> Compare(ContentOf[r], result)]]
             /\ AppendEvent(r, "completed", p)
             /\ Conclude(p, "result", result)
        ELSE /\ Conclude(p, "completion_conflict", None)
             /\ UNCHANGED <<row, log>>
  /\ UNCHANGED <<lock, investigation, consulted, results>>

--------------------------------------------------------------------------------
(* The end of a request *)

\* One lock is released, the last taken first.
Unlock(p) ==
  /\ call[p].pc = "unlock" /\ ~call[p].lost
  /\ \E l \in LocksOf(p) :
       /\ lock[l] = p
       /\ \A m \in LocksOf(p) : lock[m] = p => Rank[m] <= Rank[l]
       /\ lock' = [lock EXCEPT ![l] = None]
       /\ call' = [call EXCEPT ![p].pc =
            IF \E m \in LocksOf(p) \ {l} : lock[m] = p THEN "unlock" ELSE "done"]
  /\ UNCHANGED <<row, log, investigation, consulted, results>>

\* The release finds its connection gone and raises, whatever was completed.
FailToUnlock(p) ==
  /\ call[p].pc = "unlock" /\ call[p].lost
  /\ call' = [call EXCEPT ![p].pc = "done", ![p].answer = "connection_lost", ![p].result = None]
  /\ UNCHANGED <<row, log, lock, investigation, consulted, results>>

\* Mutant: the locks outlive their session.
KeptLocks(p) == lock

FreedLocks(p) == [l \in Lock |-> IF lock[l] = p THEN None ELSE lock[l]]

\* The lock connection drops while the analysis runs, and nobody notices.
LoseLock(p) ==
  /\ p \in MayLoseLock /\ call[p].pc \in Claimed /\ ~call[p].lost
  /\ lock' = FreedLocks(p)
  /\ call' = [call EXCEPT ![p].lost = TRUE]
  /\ UNCHANGED <<row, log, investigation, consulted, results>>

\* The process dies, or a statement or outside call raises: its session ends and
\* what was committed stays.
Stop(p) ==
  /\ p \in MayStop /\ call[p].pc \notin {"idle", "done", "stopped"}
  /\ lock' = FreedLocks(p)
  /\ call' = [call EXCEPT ![p].pc = "stopped"]
  /\ UNCHANGED <<row, log, investigation, consulted, results>>

--------------------------------------------------------------------------------
(* The specification *)

Init ==
  /\ row = [r \in Caller |-> NoRow]
  /\ log = [r \in Caller |-> <<>>]
  /\ lock = [l \in Lock |-> None]
  /\ call = [p \in Caller |-> NewCall]
  /\ Spine!Init

\* What a request does once it has begun.
Step(p) ==
  \/ TakeLock(p) \/ RefuseIdentity(p) \/ Observe(p) \/ FindNothing(p) \/ Reject(p)
  \/ Insert(p) \/ RecordStart(p) \/ Intake(p) \/ RecordResult(p) \/ ReadOutcome(p)
  \/ ReadReasoning(p) \/ Complete(p) \/ Unlock(p) \/ FailToUnlock(p)

Next == \E p \in Caller : Begin(p) \/ Step(p) \/ LoseLock(p) \/ Stop(p)

Spec == Init /\ [][Next]_vars

\* A request that has begun goes on: its statements and its outside calls end.
FairSpec == Spec /\ \A p \in Caller : WF_vars(Step(p))

--------------------------------------------------------------------------------
(* Properties *)

TypeOK ==
  /\ row \in [Caller -> Row]
  /\ log \in [Caller -> Seq(Event)]
  /\ lock \in [Lock -> Caller \cup {None}]
  /\ call \in [Caller -> Call]
  /\ investigation \in [Caller ->
       [phase : {"none", "open", "recommended", "escalated"},
        mode : {"human_review", "shadow"}, draft : Draft \cup {None}]]
  /\ consulted \subseteq Caller
  /\ results \in [Caller -> SUBSET Spine!Tools]

\* The two ordered locks do what migration 0004 leaves to them: the constraints
\* on shadow_run never stop an INSERT, two requests work on one run only if one
\* of them has lost its locks, and only then may a completion be refused.
ClaimIsExclusive ==
  \A p \in Caller :
    /\ call[p].answer # "unique_violation"
    /\ call[p].answer = "completion_conflict" =>
         \E q \in Caller : call[q].run = call[p].run /\ call[q].lost
    /\ \A q \in Caller \ {p} :
         call[p].pc \in Claimed /\ call[q].pc \in Claimed /\ call[p].run = call[q].run
           => call[p].lost \/ call[q].lost

\* Positions of the events of one type.
EventsOf(r, type) == {i \in DOMAIN log[r] : log[r][i].type = type}

\* A run has exactly one completion event, and it is terminal from that event on:
\* what its log shows is what its row holds.  It has at most one start event,
\* before the completion, and lacks it only if the request that inserted it
\* stopped right there.
LogTellsTheRun ==
  \A r \in Caller :
    /\ Cardinality(EventsOf(r, "completed")) =
         IF row[r].status \in {"completed", "escalated"} THEN 1 ELSE 0
    /\ Cardinality(EventsOf(r, "started")) <= 1
    /\ \A i \in EventsOf(r, "started"), j \in EventsOf(r, "completed") : i < j
    /\ Exists(r) /\ EventsOf(r, "started") = {} => call[r].pc \in {"record", "stopped"}

\* What the analysis of r shows now, were it read in one moment.
Analysis(r) ==
  [ phase |-> investigation[r].phase, draft |-> investigation[r].draft,
    evidence |-> results[r] \cap EvidenceTool,
    invoked |-> r \in consulted, provider |-> ProviderOf(r) ]

\* Whoever completes a run and whenever it reads, nothing in the stored output is
\* ever taken back by the analysis: its phase, its draft and whether the model was
\* asked are final, and a recommendation is stored with all its evidence and the
\* model's metadata.  Only behind an escalation may the analysis get further than
\* its stored output, by evidence or metadata that is recorded late, and then a
\* request for that run has lost its locks; in all other cases the output is the
\* analysis as it stays.  The stored comparison is that of the stored output.
ResultIsSettled ==
  \A r \in Caller : row[r].status \in {"completed", "escalated"} =>
    LET stored == row[r].result
        now == Analysis(r)
    IN /\ row[r].status = TerminalStatus(stored)
       /\ row[r].diff = Compare(ContentOf[r], stored)
       /\ stored.phase = now.phase /\ stored.draft = now.draft /\ stored.invoked = now.invoked
       /\ stored.evidence \subseteq now.evidence
       /\ stored.provider # "not-invoked" => stored.provider = now.provider
       /\ stored.phase = "recommended" =>
            stored.evidence = EvidenceTool /\ stored.invoked /\ stored.provider = "model"
       /\ stored # now =>
            stored.phase = "escalated" /\ \E q \in Caller : call[q].run = r /\ call[q].lost

Runs(c) == {r \in Caller : Exists(r) /\ CaseOf[r] = c}

Cases == INSTANCE ShadowCase WITH
  Request <- Caller,
  shadow <- [c \in Case |->
    IF Runs(c) = {} THEN None
    ELSE LET r == CHOOSE r \in Runs(c) : TRUE
         IN [key |-> KeyOf[r], content |-> ContentOf[r], result |-> row[r].result]],
  answer <- [p \in Caller |->
    [ how |-> CASE call[p].pc # "done" -> "not yet"
                [] call[p].pc = "done" /\ call[p].answer = "result" -> "answered"
                [] call[p].pc = "done" /\
                   call[p].answer \in {"identity_conflict", "idempotency_conflict"} -> "refused"
                [] OTHER -> "failed",
      result |-> IF call[p].pc = "done" THEN call[p].result ELSE None ]]

\* "Repeated or concurrent equivalent requests converge on one shadow run"
\* (evaluation/shadow/README.md): however requests interleave, stop, lose their
\* locks and are retried under the same or another key, a case is bound once and
\* all answers for it are its one result; a refusal contradicts what is bound.
ImplementsShadowCase == Cases!Spec

\* The same, told of answers: two requests for one case that get an answer asked for
\* the same content, and got the same result, however far apart they ran.
AnswersConverge ==
  \A p, q \in Caller :
    call[p].answer = "result" /\ call[q].answer = "result" /\ CaseOf[p] = CaseOf[q]
    /\ call[p].pc # "stopped" /\ call[q].pc # "stopped"
      => ContentOf[p] = ContentOf[q] /\ call[p].result = call[q].result

\* A lock that p has to take next, and that another session holds.
WaitsFor(p, l) ==
  call[p].pc = "locking" /\ l \in LocksOf(p) /\ IsNext(p, l) /\ lock[l] # None

\* Requests whose keys and cases overlap crosswise, that stop or lose their locks,
\* never all wait for one another: among the locks waited for, one is held by a
\* request that is under way and itself waits for none.
NoDeadlock ==
  (\E p \in Caller : \E l \in Lock : WaitsFor(p, l)) =>
    \E p, q \in Caller : \E l \in Lock :
      /\ WaitsFor(p, l) /\ lock[l] = q
      /\ call[q].pc \notin {"idle", "done", "stopped"}
      /\ \A m \in Lock : ~WaitsFor(q, m)

\* Where the audit of a conflicting payload holds: a request is refused because of
\* the payload exactly if it has left its one event, and the log the event is in is
\* that of a run the request resolves to and contradicts, even if it then stops.
RejectionsAreBacked ==
  /\ \A p \in Caller : call[p].answer = "idempotency_conflict" =>
       \E r \in Caller : \E i \in DOMAIN log[r] : log[r][i] = [type |-> "rejected", by |-> p]
  /\ \A r \in Caller : \A i \in EventsOf(r, "rejected") :
       LET p == log[r][i].by
       IN /\ call[p].answer = "idempotency_conflict"
          /\ Exists(r) /\ SameRun(r, p) /\ ~SamePayload(r, p)
          /\ \A s \in Caller : \A j \in EventsOf(s, "rejected") :
               log[s][j].by = p => s = r /\ j = i

\* "A conflicting payload fails closed and is audited" (evaluation/shadow/README.md).
ConflictsAreAudited ==
  \A p \in Caller :
    call[p].answer \in {"identity_conflict", "idempotency_conflict"} =>
      \E r \in Caller : \E i \in DOMAIN log[r] :
        log[r][i] = [type |-> "rejected", by |-> p]

--------------------------------------------------------------------------------
(* Liveness, under FairSpec *)

\* No request waits for ever: the locks are taken in one order and end with their
\* session.  Each request begins and ends once, so that all of them end if again and
\* again there is none under way.
EveryRequestEnds == []<>(\A p \in Caller : call[p].pc \in {"idle", "done", "stopped"})

\* A request for the run of r that neither stops nor loses its locks.
Survivor(r) ==
  \E q \in Caller \ (MayStop \cup MayLoseLock) :
    /\ KeyOf[q] = KeyOf[r] /\ SamePayload(q, r)
    /\ call[q].pc # "idle"

\* A run whose request stopped is reclaimed and completed by a retry: no run that
\* has one stays 'started' for ever.
RunCompletes == []<>(\A r \in Caller : Survivor(r) => row[r].status # "started")

================================================================================
