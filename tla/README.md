# Formal models of StockoutOps Live

StockoutOps Live investigates stock-outs: an operator posts an intake request, a
deterministic control spine gathers three pieces of evidence, asks a reasoning
adapter once for a draft, and puts the draft to the assigned human reviewer.
Around it, a shadow processor replays cases without acting on them, alert policies
are evaluated over its reports, and a durable outbox delivers alert
notifications by webhook. Every component is a set of Python functions over one
PostgreSQL database; concurrency is that of HTTP requests, worker processes and
command lines that share the tables.

This directory holds TLA+ models of that system, TLC configurations that check
them on small instances, and TLAPS proofs.

## Inventory

| component | state | operations | what makes it correct |
|---|---|---|---|
| alert outbox and worker (`alerting/outbox.py`, `worker.py`, `webhook.py`, `worker_cli.py`, migrations 0007, 0008) | `alert_outbox` rows with a lease, append-only attempt events, the terminal ledger of 0007; a worker's batch and the answer it has not recorded | enqueue (in the evaluation's transaction), lease, POST, record delivered / retry / dead letter, re-drive | at most one recorder per row, bounded egress, DELIVERED only after an accepted request, evidence and ledger that agree with the row, every intent settles |
| investigation control spine (`service.py`, `repository.py`, `state_machine.py`, `schemas.py`, `api.py`, migration 0001) | `investigation_run`, `idempotency_key`, append-only `workflow_event`, `tool_invocation`, `review_decision`, session advisory locks; a request's `RunRecord` | intake, resume, tool claim and completion, transition, review, audit | one run per key, every tool called once, a log that replays to the state, a draft grounded in sound evidence, one decision by the right person, honest escalation codes, every run comes to rest |
| evidence tools and contracts (`evidence/`) | fixture tables (read only) | three queries, `validate_bundle` | stale or incomplete evidence stops before the model |
| alert evaluation (`alerting/repository.py`, `service.py`, `policies.py`, `enqueue.py`, migration 0006) | append-only `alert_evaluation_event`, a transaction advisory lock per fingerprint | evaluate every policy, record, enqueue | FIRED and RESOLVED alternate, one intent per transition, replays change nothing |
| shadow processing (`shadow/service.py`, `shadow/repository.py`, `shadow/diff.py`, migrations 0004, 0005) | `shadow_run` with output and comparison, append-only `shadow_control_event`, two session advisory locks per request | process (begin or observe, intake with `run_mode` shadow, compare, complete) | a claim is exclusive, one completion per run whose log tells the row, equivalent requests converge on one result, a crashed run is taken up again, nobody waits for ever |
| UAT shadow intake and collection (`shadow/intake.py`, `shadow/collection.py`, `shadow/contracts.py`, migration 0005) | `shadow_case_intake`, append-only `shadow_case_intake_event`, a session lock per case, a transaction lock per intake | import, accept, exclude, collect | an import leaves what it says wherever it dies, a decision stands, a withdrawn case is never counted |
| reasoning adapters, identity, app, config, migrations runner, reports, command lines, seed data, UI | none that changes after start | | not modelled: see below |

Components interact through the database only, except for three calls: the shadow
processor calls `InvestigationService.intake`, the alert service calls the
repository that enqueues into the outbox inside its own transaction, and the
worker posts to the receiver.

The behaviours that are hard: workers that die or are slow while another takes
their lease over; timeouts that hide an accepted request; duplicate intake requests
that race for a key, for a tool call and for each transition; a rejection that
inserts a state it read long before; a lock connection that drops during a long
outside call; shadow requests that take two locks each; rows and events written by
two autocommitted statements; a report of three reads; a budget or a ceiling that is
reached. `PROJECT.json` lists each at
its line under "hazards".

## Modules

| module | what it is |
|---|---|
| `AlertOutbox` | the outbox, its workers, the operator, the clock, the receiver, and the triggers of 0008 |
| `DeliveryIntent` | what the outbox promises: an intent is open, then delivered or given up, may be reopened by the operator, and is delivered only after it was received |
| `MCAlertOutbox` | constants for TLC |
| `AlertOutboxProofs` | proofs of every safety property of `AlertOutbox`, of the refinement, and that no row goes round for ever |
| `Investigation` | the control spine: intake, resume, tools, transitions, review, replay |
| `InvestigationCase` | what the spine promises of one idempotency key |
| `MCInvestigation` | constants for TLC |
| `InvestigationProofs` | proofs of five invariants of `Investigation` |
| `InvestigationAuditProofs` | proofs about the log of `Investigation` and of the refinement of `InvestigationCase` |
| `InvestigationRaceProofs` | proofs about its races: waiting for a lock, conflicts of versions, reports of two snapshots, and that the requests come to an end |
| `AlertEvaluation` | the evaluation of alert policies by concurrent requests, up to the enqueued intent |
| `AlertLifecycle` | what the evaluation promises of one alert: quiet or firing, one notice per change |
| `MCAlertEvaluation` | constants for TLC |
| `AlertEvaluationProofs` | proofs of the invariants of `AlertEvaluation`, of the refinement of `AlertLifecycle`, and that the requests come to an end |
| `ShadowRun` | shadow processing by concurrent requests, composed with `InvestigationCase` for the analysis |
| `ShadowCase` | what shadow processing promises of one case identity |
| `MCShadowRun` | constants for TLC |
| `ShadowRunProofs` | proofs of the four invariants of `ShadowRun` |
| `ShadowCaseProofs` | the proof that `ShadowRun` implements `ShadowCase`, that its locks never deadlock, that refusals and their events agree, and that the requests come to an end |
| `ShadowIntake` | import of UAT documents, acceptance, exclusion and the collection report |
| `MCShadowIntake` | constants for TLC |
| `ShadowIntakeProofs` | proofs of every property of `ShadowIntake` |

### AlertOutbox

| code | model |
|---|---|
| a row of `alert_outbox` | `outbox[r]`; `due` is next_attempt_at <= now, `lease_expired` is lease_expires_at <= now |
| `last_http_status`, `last_error_class` | `last`, one of seven classes of answers (`Answer`); a status above 599 is a class of its own because the column CHECKs reject it |
| `alert_delivery_attempt_event`, `alert_delivery_attempt` | `attempt_events`, `ledger` |
| the list `run_once` iterates over; the response `_process` holds | `batch[p]`, `sent[p]` |
| the receiver | `requests`: what was sent, and whether it was accepted |
| `enqueue_in_transaction`, `lease`, `post` | `Enqueue`, `Lease`, `Post` |
| `record_delivered`, `record_retry`, `record_dead_letter` | `RecordDelivered`, `RecordRetry`, `RecordDeadLetter`, each with its attempt event, ledger row and transition in one step |
| the return of False (OUTBOX_LEASE_LOST) | `LeaseLost` |
| a column CHECK that rolls the recording back | `RecordFails` |
| `redrive` | `Redrive` |

A transaction is one step; the request, the death of a process and another
worker's take-over come between steps. Time is two flags that may turn at any
moment, so every backoff, positive lease length and clock skew is covered (`worker_cli` does not
check `--lease-seconds`: a lease of 0 or less, which the triggers of 0008 refuse, is outside the
model). `Id` gives
each process its `--worker-id`: two processes may share one, and the safety run lets
them. The triggers of 0008 are not part of the actions; they are stated
separately and `GuardsNeverReject` says that no action is ever refused by one.
Rows are leased in any order that a batch of `BatchSize` allows: the scan orders by
`next_attempt_at`, which the flags do not keep, so the model has more behaviours.

### Investigation

| code | model |
|---|---|
| an HTTP intake request and its process | a `Caller` p, `call[p]` is its program counter and its `RunRecord` |
| a run's uuid | the caller whose transaction inserted it: `run[p]` |
| `idempotency_key`, `workflow_event`, `tool_invocation`, `review_decision` | `idem`, `log[r]`, `tool[r, t]`, `decision[r]` |
| the session advisory lock of a run and a tool | `lock[r, t]` |
| `begin_intake` | `Find`, then `Claim` or `Observe`; `RejectIntake` after a payload conflict |
| `claim_or_observe_tool` | `ClaimTool`, `ReuseResult`, `RefuseRetry` |
| the outside call, `complete_tool`, the release of the claim | `ToolReturns` |
| `transition`, `set_draft_and_transition` | `Advance` or `Conflict` |
| `append_rejected_control` | a step that reads (`ReadForRejection`, `ReadForReviewRejection`) and one that inserts (`RejectControl`, `RejectReview`) |
| the loop of `_resume` | `Reload` |
| `record_review` | `Decide` or `RefuseReview` |
| `audit` | `CountsInReplay`, `ReplayedState` |

`Die` is a process that dies, and also an exception no handler expects (a database
error in a tool): both end the request, free its session lock and leave a
'started' row. `LoseLock` drops the lock connection of a caller in the middle of
its outside call: the caller goes on, records the result, and fails when it
releases the lock. What quality checks and drafting read is read together with the
transition that follows: the rows are final by then (`DraftIsGrounded`).
`invocations` is a history variable, it counts the calls of each tool.

Abstracted: hashes and payloads are model values; evidence is sound or not; the
codes of tool failures are one, `TOOL_FAILED`; one tenant, as every statement is
restricted to the tenant of the principal. An edited payload, which `review` validates against
the evidence before its transaction starts, is the reviewed draft here, so `Decide` has no
separate validation; that the evidence stays is part of `DraftIsGrounded`.

### AlertEvaluation

| code | model |
|---|---|
| a call of `AlertService.evaluate` | a `Request` p, `call[p]`; `next` is its place in the loop over `POLICIES` |
| an alert fingerprint | the policy: the requests of a model share tenant and correlation |
| `alert_evaluation_event` | `events[f]`, in the order of `alert_evaluation_id` |
| the rows `enqueue_in_transaction` inserts | `intents[f]`, positions of events |
| `pg_advisory_xact_lock` | `lock[f]` |
| `AlertRepository.record` | `Read` (the lock, the two lookups), then `Refuse`, `Replay` or `Record` |
| `_next_state`, `should_notify` | `NextState`, `LIFECYCLE_TRANSITIONS` |
| SHADOW_EXTERNAL_ACTION_DETECTED | `FailsClosed`, after the record has committed |
| a process that dies, its transaction rolled back | `Die` |

Thresholds and samples are abstracted to how a snapshot stands to a policy
(`Measure`): breached, within, or unmeasured. The idempotency key of an event is its
request's prefix and the policy; its payload hash is the snapshot. A model fact worth
knowing: a report on which the safety policy fires is refused again by every
retry, because the replayed event is still FIRING, so the later policies are never
evaluated on that report.

### ShadowRun

| code | model |
|---|---|
| a call of `ShadowService.process` | a `Caller` p; `call[p]` is its program counter, claimed run, result and answer |
| `idempotency_key`; case, version and processor version; the rest of the payload | `KeyOf[p]`, `CaseOf[p]`, `ContentOf[p]` |
| a row of `shadow_run` with its `shadow_diff` | `row[r]`, named after the request that inserted it |
| `shadow_control_event` | `log[r]` |
| the two `pg_advisory_lock` calls over sorted numbers | `TakeLock`, one lock a step, in the order of `Rank` |
| the SELECT of `begin_or_observe` and its branches | `RefuseIdentity`, `Observe` (then `Reject`, a replay, or a reclaimed run), `FindNothing` |
| the two INSERTs | `Insert`, `RecordStart` |
| `InvestigationService.intake` under the key of the run | `Intake`, a step of `InvestigationCase` |
| `complete_tool` of that analysis, even behind an escalation | `RecordResult`, `Record` of `InvestigationCase` |
| `_actual`: detail with the evidence, audit; then the reasoning row with its metadata | `ReadOutcome`; `ReadReasoning` |
| `compare`, `complete` | `Compare`, `Complete`: row, comparison and event in one transaction |
| `pg_advisory_unlock` | `Unlock`, or `FailToUnlock` on a dropped connection |

The statements of the lock connection are autocommitted, so each is a step; the event of a
refusal and the exception raised after it are one, `Reject`, as a death between the two leaves
what a `Stop` after it leaves. `Stop`
is a death or an exception anywhere after the request has begun; `LoseLock` drops the
lock connection, which is idle while the analysis runs, and nobody notices. The locks are
of one tenant. `ShadowRun` does not repeat the control spine: it takes its promise,
`InvestigationCase`, which `Investigation` implements (`ImplementsCase`), one case for
every run as the key of the analysis contains the run's id.

`complete_tool` looks at neither the state of the run nor the claim. A request that has lost its
shadow locks and its tool lock may therefore record a result after another request has escalated
the run, and even after that one has stored what it read. So `results[r]`, the tools whose result
is on record, is state of its own, `_actual` reads it in two steps (the evidence with the
detail, the reasoning row later), and the stored output keeps what it saw. `ResultIsSettled` says
what holds: phase, draft and whether the model was asked are final, a recommendation is stored with
all its evidence and the model's metadata, nothing stored is taken back, and the comparison is that of
the stored output. It does not say that the stored output is the analysis as it stays: behind an
escalation its evidence, and with it the comparison, and its provider metadata may be behind the
tables for good, and then a request for that run has lost its locks.

An output keeps its phase, draft, evidence, whether the model was asked, and whose metadata it
has. The other fields go with these: root cause, action, confidence and citations with the draft;
escalation code with the phase; evidence ids, missing count and coverage with evidence and
draft; latency and cost with the provider. A comparison keeps
whether the case was escalated, the recommendation, and the required evidence with its three
degrees of agreement.

### ShadowIntake

| code | model |
|---|---|
| calls of `import_document`, `accept_for_m2_05`, `exclude_case`, and reports | `Importer`, `Acceptor`, `Excluder`, `Reporter` |
| `shadow_case_intake` | `intake[c]`: payload hash and importer |
| `shadow_case_intake_event` | `events`, a set: who wrote an event stands for its payload |
| the loop over the cases of a document | `call[p].at` |
| `import_or_observe` | `TakeLock`, `Select`, then `Replay`, `Reject`, or `Insert` and `RecordImport`, then `Unlock` |
| `get`, `pg_advisory_xact_lock`, the lookup, the decision | `Lookup`, `Control`, then `Accept` or `Exclude` |
| the three queries of the report and what it counts | `ReadRecords`, `ReadAccepted`, `ReadExcluded` |

An acceptance does not ask whether the intake is excluded; an excluded case may be
accepted afterwards and is still not counted. `Stop` is a death or a failing
statement between any two steps.

## Runs

| run | instance | shows |
|---|---|---|
| `outbox_safety` | 2 rows in a batch of 2, 2 processes under one worker id, one may die; ceiling 3 | columns within their bounds, one recorder, bounded egress, real deliveries, evidence, ledger, triggers, refinement of `DeliveryIntent` |
| `outbox_liveness` | 2 rows, 2 processes with ids of their own, no deaths, ceiling 2, under `FairSpec` | every intent settles |
| `outbox_crash` | 1 row, 2 processes with ids of their own, deaths anywhere and unstorable statuses, under `FairSpec` | every intent settles or is stranded on its last attempt; until then one that nobody holds has an owner that may have failed, and can be leased again or is stranded |
| `outbox_leasable` (violation) | 1 row, 2 processes, deaths | the threat model's claim that a crash leaves a leasable row is false for the last attempt |
| `outbox_evidence` (violation) | the same | "one row per HTTP attempt" is false for a request whose worker died or lost its lease |
| `investigation_race` | a request, its duplicate, and a third with another payload; the first may die or lose its lock | one run per key, one call per tool, honest escalations, a log that replays, waits for a live owner, readers (conflicting requests, audit reports) that know the present or the past of a run, refinement of `InvestigationCase` |
| `investigation_review` | three review calls against a run of either mode, two drafts | the draft is grounded, the decision binds, the log replays |
| `investigation_liveness` | a request that may die or lose its lock, and its retry, under `FairSpec` | the retry ends, the abandoned run comes to rest |
| `evaluation` | 2 policies, 5 requests: one that may die and its retry under another prefix, one that resolves, one without a measurement, one that reuses a key and fires the safety policy; under `FairSpec` | one event per input, transitions follow the measurements, backed answers, refinement of `AlertLifecycle`, every request ends |
| `shadow_run` | 4 requests for 2 cases: a request that may stop or lose its locks, its repetition, one of another case, and one that asks for the first case under the key of the second; two drafts, two evidence tools; under `FairSpec` | exclusive claims, a log that tells the row, settled results, no deadlock of the two locks, refusals that agree with their events, refinement of `ShadowCase`, no request waits for ever, an abandoned run is completed |
| `shadow_audit` (violation) | the same | "A conflicting payload fails closed and is audited" is false for an identity conflict |
| `shadow_intake` | two documents with the same two cases in opposite orders and one disagreement, an acceptance of each case, two exclusions for different reasons, a report; an import and an exclusion may die | imports are traced, decisions stand, locks follow the work, reports are sound |

Bounds. Two rows are enough for a batch in which one item waits while another is
posted; two processes for a take-over; a budget of up to 3 for a first, a middle and
a last attempt and a re-drive beyond them. `AttemptCeiling` stands for the constant 100
(`MAX_ATTEMPT_CEILING` and the CHECKs of 0008) and bounds every counter, as the
re-drives must raise the budget below it. In the investigation nothing needs a
bound: a run has at most eight transitions, a request conflicts at most once
per transition of another, and each review call is made once. Two callers race
for every step; the third brings the late rejection. In the evaluation five requests
with four snapshots give every transition of the lifecycle, a replay by key, a replay by
payload and a key conflict; a second policy is what the loop needs to go on or stop. Four shadow requests are two that
race for one run, a retry of the one that fails, and two whose key and case cross, which is
what takes the two locks in conflicting orders and finds two rows; two drafts tell a
second analysis from the first, two evidence tools give a required set that is covered in part, and the
one request that may lose its locks is the one whose results come late. Two documents in opposite orders give every wait of one import for
another; two exclusions a repetition and a conflict. None of these modules needs a bound on
a counter: every request and call is made once. Deadlock is not checked:
each system stops when all its requests are answered or its rows settled.

Fairness. `AlertOutbox!Fairness`: the clock advances, a request ends by its
timeout, a live process goes on, and worker runs keep being started
(`worker_cli` drains once and exits; who starts it again is the deployment's part).
`Investigation!FairSpec`: a request that has not died goes on, its statements and
outside calls end by their timeouts. `AlertEvaluation!FairSpec` and
`ShadowRun!FairSpec`: the same of their requests, once they have begun. Nothing is assumed of reviewers, faults or
the operator. Weak fairness suffices for the wait on `pg_advisory_lock`, because a
call has one owner and the lock stays free once it is released; in the evaluation each
of finitely many requests takes a lock at most once per policy.

Behind liveness. A liveness property holds in a run because of facts that fairness does not
give, and these are stated as safety properties of their own, for TLC and for the proofs:
whoever waits for a lock waits for a live owner that is inside its call or transaction
(`WaitsForTheOwner`, of `Investigation` and, proved only, of `AlertEvaluation`); of the requests that wait
for the two locks of a shadow run some holder waits for none (`NoDeadlock`); a version
conflict has somebody else's move behind it, of which a run has finitely many
(`ConflictsArePassing`, half of `NobodyReadsAhead`); an open intent is never locked away but by a fault
(`OpenIntentsAreInReach`).

The other half is that the work itself is bounded, for which every step needs a place on a scale
that no other step undoes. `RequestsRunDown` (of `Investigation`, `ShadowRun` and
`AlertEvaluation`) and `RowsRunDown` (of the outbox) say so as action properties: each step of a
request, each change of a row, brings it forward, nobody takes it back, and the scale ends.
They are proved; the scales (`Progress`) are defined with the proofs. With both halves, what
fairness has to supply is the next step of whoever can take one.

## Findings

* `outbox_leasable`: the attempt is counted when it is leased, so a worker that dies
  during the last one leaves an IN_FLIGHT row that `lease` never takes and
  `redrive` refuses, where the threat model promises a leasable row.
* `outbox_evidence`: an attempt whose worker died after sending, or found its lease
  taken over, leaves no event row.
* `shadow_audit`: `evaluation/shadow/README.md` says that a conflicting payload fails closed
  and is audited; a request whose key belongs to one run while its case has another is
  refused (SHADOW_IDENTITY_CONFLICT) without an event.

## Proofs

`AlertOutboxProofs` proves, for every set of rows and processes, every sharing of
worker ids, every batch size, budget and ceiling: `TypeCorrect`, `OneRecorder`,
`EgressIsBounded`, `DeliveryIsReal`, `EvidenceIsFaithful`, `LedgerIsFaithful`,
`GuardsAccept`, `NothingIsOutOfReach` and `Refinement`. They rest on the named assumptions of
`AlertOutbox` only (rows are numbers, worker ids exclude `Nobody`, budgets lie within
the ceiling, re-drives add at least one attempt).

The argument. No property is inductive alone: that one process can record an
outcome depends on the attempt number an item carries, that no attempt is sent twice
depends on which items wait in batches, and that the ledger agrees depends on the
attempt events. `IInv` joins the properties with four facts: a row's columns fit
its state (`RowsOK`), an item carries an attempt its row has reached and never
one already sent (`ItemsOK`), two items of one row and attempt are the same item of
the same process (`ItemsDistinct`), and requests stay within the attempts counted
(`RequestsOK`). Each action gets one lemma. `GuardsAccept` is an action property
proved from `IInv`, and `Refinement` maps each step to a step of
`DeliveryIntent` or a stutter. For `NothingIsOutOfReach`, `ReachOK` adds that a leased row
stays due and that its lease is held unless its owner may have failed: a step that drops an
item either settles the row, finds that the row has another lease, or is a fault (`ReachStep`), and
a step on another row leaves the lease with its holder (`StillHeld`).

`RowsEnd` proves `RowsRunDown`: within one attempt a row goes from a fresh lease to an expired
one, to a dead letter, to waiting, to due, to delivered, and whatever does not fit that order (a lease,
a take-over) counts a new attempt. A re-drive moves a dead letter to due without one, and the
attempts are bounded by the ceiling, which is why an operator who re-drives for ever still comes to
an end.

`InvestigationProofs` proves, for any number of requests, keys, payloads, drafts and
review calls, and whichever requests die or lose a lock: `TypeCorrect`,
`CallsHappenOnce`, `KeysAreUnique`, `DraftsAreGrounded` and `DecisionsBind`. The
assumptions are those of `Investigation` (the constants are functions on the requests;
`None` is none of the values it stands in for). The invariant `IInv` adds to the properties:
a call works on the run its key names and carries a state of it (`CallsOK`); a key
and its run name each other (`KeysOK`); a tool call has one owner and a started
row until it is recorded, with or without its lock (`HoldersOK`), which is why a lost
lock makes no second call; a row exists exactly when its tool was called
(`ToolsOK`); and past the quality checks the evidence is sound (`EvidenceOK`), because
only open rows are ever written (`OpenRowChanges`). Actions that move one call
share the lemma `CallMoves`, actions on the row of a run `RowChanges`.

`InvestigationAuditProofs` adds, from the same assumptions, `EscalationsAreHonest`,
`AuditsReplay` and `CaseRefinement`. What a step writes to a log is one of five things
(`LogStep`): nothing, a rejection, the creation, a transition, a decision. The second
invariant `HInv` holds what a request remembers to the tables: the tools it is past are
completed, its code has a reason that stays (`Explained`), a started call has its owner or a
dead one (`StartedOK`), and a request that is still reasoning finds its run reasoning or
the reasoning called - which is why the model is never consulted for a run that has moved on.
For the replay, a log is a path (`IsPath`): a rejection leaves it the path it was, whatever
state it repeats, and a transition, which the version check ties to the state of the run, makes
it one event longer. `CaseStep` lists the steps of one case, a result that goes on record while it is open or, late,
behind an escalation among them; every step of the spine is one of them or none.

`InvestigationRaceProofs` proves `LocksAreHeldByOwners` and `ReadersLag` (from `ConflictsPass` and
`ReportsLag`), from the same assumptions and invariants. A tool lock belongs to a request in the middle of that call
(`LocksOK`), whose row is 'started' by `HoldersOK`. For the conflicts, `CInv` says of every request
that the version it has read is at most that of the run, that equal versions mean equal states, and
that a request sent back by a conflict has an older one; and of the run that its version is
at most the stage of its state. It is inductive because every transition raises the stage
(`StageRises`) and the version by one, and only under the version check. The log then has no
transition to a state beyond the current one (`Behind`), so every older log replays to a
state the run has passed. `RequestsEnd` proves `RequestsRunDown`, for the loop in
`_resume_step` that has no bound of its own: a conflict only sends a request back to read a
later version (`ReadBehind`), a transition raises the version too, a version is at most the stage of
its state and so at most 8 (`VersionsEnd`), and between two versions there are at most four places
in the list of tools and a few pcs. A request has at most 110 steps to go.

`ShadowRunProofs` proves, for any number of requests that share keys and cases in any
way, any order of the lock numbers, and whoever stops or loses its connection:
`TypeCorrectness`, `ExclusiveClaims`, `ToldRuns` and `SettledResults`. The argument: a
lock is held by a request at work, and a request at work whose connection lives holds
both of its locks (`LocksOK`), so two requests of one key or one case are never both between
the lookup and the release (`SharedLock`). From it follows what a request knows of the
run it works on (`RunsOK`): a request about to insert finds nothing, and nobody takes up a
row before its start event. `ClaimsOK` then says that a claim on a run that
is no longer 'started', and a refused completion, mean a lost connection
(`Broken`). `LogInv` states the log of a run as sets of positions. For `SettledResults`, the control
spine leaves a case at rest alone but for results recorded behind an escalation (`CasesRest`), and
such a result is recorded only while two requests are at work on the run, of which one has lost
its locks (`Late`, from `ClaimsOK`); a request keeps its run and its lost connection when it ends. So
what a request has read lags behind the analysis only in that case (`SettledInv`), whether it is
about to look up the reasoning row, about to complete, or has completed (`ReadingKept`,
`HoldsKept`, `StoresKept`).

`ShadowCaseProofs` adds, from the same invariants, `ShadowRefinement`: `ShadowRun` implements
`ShadowCase`. Only an insertion changes what a case is bound to, and only a completion
its result (`ShadowSteps`), as at most one row names a key or a case (`OneRun`). From the
moment a request concludes, its answer or refusal rests on a row that stays (`Backed`):
a terminal row of its own payload, or a row that has its key or its case with something else. The
mapping needs that NULL is not a binding, which `NoneAssumption` says.

`Convergence` restates its heart for a reader of `evaluation/shadow/README.md`: all answers for a
case are one (`AnswersConverge`), as each rests on a terminal row and a case has one row.

`DeadlockFreedom` and `BackedRefusals` are proved there as well. For the first, a request that is
taking its locks holds those that come first (`LocksSorted`); among the locks that are waited for
there is a highest, its holder is at work or waits (`LocksOK`), and it cannot wait, as the lock it
would wait for is higher still. That there is a highest needs more than an order: `RankAssumption`
says that the lock numbers are different and one is the highest, because they are 64 bits
of a digest (`LeastNatural` turns this into a minimum by the library's `WFMin`). Two locks with one
number would be one lock in PostgreSQL, which the model excludes. For the second, the
invariant is the property itself with one fact more: a request refused because of its payload
still has its lock connection (`RefusedOK`), so the release cannot fail and replace the
answer by another. That an event is unique is that a request is refused once: `Reject` finds no answer
yet (`ClaimsOK`), and whoever has left an event has one.

`RequestsEnd` proves `RequestsRunDown` there: the scale counts the locks a request holds while
it takes or gives them, its pc, and in between how far the analysis of its run is (`CaseProgress`),
which any request at work on that run brings forward and none takes back (`CasesGoOn`): its phase
and its results on record, of which each tool has one. A request has at most 16 steps to go, and
one for each tool.

`ShadowIntakeProofs` proves, for any calls, documents and cases: `TypeCorrectness`,
`LocksFollowWork`, `SoundReports`, `StandingDecisions` and `TracedImports`. The locks are an
invariant of their own; a transaction under the lock of an intake still sees what it
read (`ReadsStand`), from which decisions stand (`DecisionInv`); imports need that
every case behind an import is as it left it, and the one it stands at is as its
program counter says (`ImportInv`).

`AlertEvaluationProofs` proves, for any policies in any order, any requests and measurements,
and whoever dies: `TypeCorrectness`, `SingleEvents`, `MeasuredTransitions`, `BackedAnswers`,
`AlternatingNotices`, `LocksAreNotChained` and `LifecycleRefinement`. Each event must be told from the history before it, so the
invariant gives every prefix its latest measured state (`LatestBefore`, `HistoryOK`). A lock is
held exactly by the request that works under it (`CallsOK`), hence what a request read
still holds when it writes (`ReadOK`): the latest state, and that no row repeats its
input, from which inputs stay distinct (`DistinctOK`). A firing event has the notice of
its firing at or before it (`NoticedOK`), and a request has left an event at every policy it
went past (`ProgressOK`). The refinement reads off the same facts that an event with a
lifecycle transition, and no other, changes whether the latest state is FIRING. `AlternatingNotices`
carries the invariant of `AlertLifecycle` over to the events and intents that implement it, and
`LocksAreNotChained` follows from `CallsOK`: the holder of a fingerprint's lock is inside its
transaction and takes no other lock before it ends. `RequestsEnd` proves `RequestsRunDown` from
`CallsOK`: two steps for each policy, and no policy twice.

Only model-checked: the liveness properties under fairness (`EveryIntentSettles`, the settling of
crashed outboxes, the end of requests and the completion of abandoned runs), out of this prover's reach,
of which the safety facts and the bounds on the work above are what the proofs contribute; and the three violation runs. Every
invariant, action property and refinement that a passing run checks is proved. The other way round,
type correctness is proved in every module and checked by TLC in the outbox only, where the
columns have bounds that a re-drive could exceed; `NoticesAlternate` and `WaitsForTheOwner` of
`AlertEvaluation`, and `AnswersConverge` of `ShadowRun`, follow from what the runs check and are
proved only. `RowsRunDown` and `RequestsRunDown` are in no run either: their scales belong to the
proofs.

## Not modelled

* the 0007 path of `delivery.py` that claims and completes ledger rows itself:
  only tests call it since the outbox replaced it;
* the HTTP layer, authentication and the tenant filter: static lookups;
* prompts, budgets and parsing in the reasoning adapters: their outcome is a draft
  or a failure;
* freshness arithmetic and provenance hashes: a piece of evidence is sound or not;
* shadow processing: requests turned away before a connection is opened; in output and
  comparison the fields that go with the ones kept (see above): escalation code, root cause,
  confidence, citations, `schema_valid`, counts and coverages, and the numbers of latency and cost;
* UAT intake: the field validation of a document, the tallies and the rendering of the
  collection report, and reports over reports (`shadow/report.py`, `shadow/metrics.py`,
  `alerting/report.py`);
* readers that put a detail together from two connections (`audit`, the shadow
  details when they are shown) as steps: they change nothing, and the code promises no snapshot; what `audit` can show
  between its two reads is `ReportsNeverRunAhead`, in `NobodyReadsAhead`;
* reports, command lines, seed data, templates, the migrations runner, smoke tests
  and CI: no state of the running system changes there.

## Plan

1. Done: `AlertOutbox`, `Investigation`, `AlertEvaluation`, `ShadowRun` (composed with the
   promise of the control spine) and `ShadowIntake`, with what each promises and the proofs
   listed above.
2. Every safety property is proved, and so is that the work behind each liveness property is
   bounded; what remains open to proof is the last step to the liveness properties themselves,
   which needs fairness and with it ENABLED.
3. `AlertPipeline`, the composition of `AlertEvaluation` and `AlertOutbox`: a FIRED notice that is
   retried may be delivered after the RESOLVED notice of the same alert. The code promises no
   order between intents, so there is a behaviour to show and no property yet to state.
