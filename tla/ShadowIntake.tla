------------------------------ MODULE ShadowIntake ------------------------------
(***************************************************************************)
(* Intake of genuine UAT shadow cases (shadow/intake.py, migration 0005)   *)
(* and the collection report over it (shadow/collection.py): concurrent    *)
(* imports of documents, acceptances and exclusions of intakes, and        *)
(* reports put together from three separate reads.                         *)
(*                                                                         *)
(* An import works with autocommitted statements under a session lock of   *)
(* the case: each is a step.  An acceptance or exclusion is a lookup and a *)
(* transaction, which is split where it has taken its lock and read.       *)
(* Documents and calls are those that pass validation; what fails it       *)
(* reaches no table.  The tenant is part of the identity of a case.        *)
(***************************************************************************)
EXTENDS Naturals, Sequences, FiniteSets

CONSTANTS
  Importer,   \* calls of import_document; a retry is a call of its own
  Acceptor,   \* calls of accept_for_m2_05
  Excluder,   \* calls of exclude_case
  Reporter,   \* collection reports
  Case,       \* identities of cases: tenant, case and version
  Content,    \* payload hashes
  Document,   \* Document[p]: the cases of the document p imports, with their contents
  Target,     \* Target[p]: the case whose intake p accepts or excludes
  Reason,     \* EXCLUSION_REASON_CODES
  ReasonOf,   \* ReasonOf[p]: the reason p excludes for
  Synthetic,  \* cases whose case and version the synthetic pack has too
  MayStop,    \* calls that may die, or whose statements may fail
  None

Caller == Importer \cup Acceptor \cup Excluder \cup Reporter

ASSUME CallerAssumption ==
  /\ Importer \cap (Acceptor \cup Excluder \cup Reporter) = {}
  /\ Acceptor \cap (Excluder \cup Reporter) = {} /\ Excluder \cap Reporter = {}
\* validate_genuine_intake: a document has a case, and none of them twice.
ASSUME DocumentAssumption ==
  /\ Document \in [Importer -> Seq([case : Case, content : Content]) \ {<<>>}]
  /\ \A p \in Importer : \A i, j \in DOMAIN Document[p] :
       Document[p][i].case = Document[p][j].case => i = j
ASSUME TargetAssumption ==
  Target \in [Acceptor \cup Excluder -> Case] /\ ReasonOf \in [Excluder -> Reason]
ASSUME SetAssumption ==
  Synthetic \subseteq Case /\ MayStop \subseteq Caller

VARIABLES
  intake,  \* the table shadow_case_intake
  events,  \* the append-only table shadow_case_intake_event
  lock,    \* the session lock of a case: its holder
  control, \* the transaction lock of an intake: its holder
  call,    \* where a call stands
  report   \* what a report has read and counted

vars == <<intake, events, lock, control, call, report>>

Intake == [content : Content, by : Importer]

\* Who wrote an event stands for its payload; the order of the ids is left out, as
\* it only tells the latest of several exclusions.
Event ==
  [type : {"imported", "replayed", "rejected"}, case : Case, by : Importer] \cup
  [type : {"accepted"}, case : Case, by : Acceptor] \cup
  [type : {"excluded"}, case : Case, by : Excluder]

Answer ==
  {"imported", "conflict", "unique_violation", "not_found", "accepted", "excluded", "overlap",
   "report"}

Pc ==
  {"idle", "locking", "select", "reject", "replay", "insert", "record", "unlock", "control",
   "commit", "accepted", "excluded", "done", "stopped"}

Call ==
  [ pc : Pc,
    at : Nat,            \* the case an import is at
    seen : Reason \cup {None, "accepted"}, \* what a transaction found decided already
    answer : Answer \cup {None} ]
NewCall == [pc |-> "idle", at |-> 1, seen |-> None, answer |-> None]

ASSUME NoneAssumption == None \notin Caller \cup Intake \cup Reason \cup Answer

Report == [records : SUBSET Case, accepted : SUBSET Case, counted : SUBSET Case]
NewReport == [records |-> {}, accepted |-> {}, counted |-> {}]

Imported(c) == intake[c] # None

Write(type, c, p) == events' = events \cup {[type |-> type, case |-> c, by |-> p]}

Of(type) == {e \in events : e.type = type}

Go(p, pc) == call' = [call EXCEPT ![p].pc = pc]

End(p, answer) == call' = [call EXCEPT ![p].pc = "done", ![p].answer = answer]

--------------------------------------------------------------------------------
(* import_document and import_or_observe *)

CaseOf(p) == Document[p][call[p].at].case
ContentOf(p) == Document[p][call[p].at].content

BeginImport(p) ==
  /\ call[p].pc = "idle"
  /\ Go(p, "locking")
  /\ UNCHANGED <<intake, events, lock, control, report>>

\* Mutant: the case is not locked.
GrantedAlways(c) == TRUE

Granted(c) == lock[c] = None

TakeLock(p) ==
  /\ call[p].pc = "locking" /\ Granted(CaseOf(p))
  /\ lock' = [lock EXCEPT ![CaseOf(p)] = p]
  /\ Go(p, "select")
  /\ UNCHANGED <<intake, events, control, report>>

Select(p) ==
  /\ call[p].pc = "select"
  /\ Go(p, IF ~Imported(CaseOf(p)) THEN "insert"
           ELSE IF intake[CaseOf(p)].content = ContentOf(p) THEN "replay" ELSE "reject")
  /\ UNCHANGED <<intake, events, lock, control, report>>

Reject(p) ==
  /\ call[p].pc = "reject"
  /\ Write("rejected", CaseOf(p), p)
  /\ call' = [call EXCEPT ![p].pc = "unlock", ![p].answer = "conflict"]
  /\ UNCHANGED <<intake, lock, control, report>>

Replay(p) ==
  /\ call[p].pc = "replay"
  /\ Write("replayed", CaseOf(p), p)
  /\ Go(p, "unlock")
  /\ UNCHANGED <<intake, lock, control, report>>

\* An INSERT the UNIQUE constraint of the table stops raises.
Insert(p) ==
  /\ call[p].pc = "insert"
  /\ IF Imported(CaseOf(p))
     THEN /\ call' = [call EXCEPT ![p].pc = "unlock", ![p].answer = "unique_violation"]
          /\ UNCHANGED intake
     ELSE /\ intake' = [intake EXCEPT ![CaseOf(p)] = [content |-> ContentOf(p), by |-> p]]
          /\ Go(p, "record")
  /\ UNCHANGED <<events, lock, control, report>>

\* A statement of its own: a death before it leaves an intake without this event.
RecordImport(p) ==
  /\ call[p].pc = "record"
  /\ Write("imported", CaseOf(p), p)
  /\ Go(p, "unlock")
  /\ UNCHANGED <<intake, lock, control, report>>

IsLast(p) == call[p].at = Len(Document[p])

\* The lock is released; then comes the next case, unless this one raised.
Unlock(p) ==
  /\ call[p].pc = "unlock"
  /\ lock' = [lock EXCEPT ![CaseOf(p)] = None]
  /\ IF call[p].answer # None THEN Go(p, "done")
     ELSE IF IsLast(p) THEN End(p, "imported")
     ELSE call' = [call EXCEPT ![p].pc = "locking", ![p].at = @ + 1]
  /\ UNCHANGED <<intake, events, control, report>>

--------------------------------------------------------------------------------
(* accept_for_m2_05 and exclude *)

\* get, on a connection of its own.
Lookup(p) ==
  /\ call[p].pc = "idle"
  /\ IF Imported(Target[p]) THEN Go(p, "control") ELSE End(p, "not_found")
  /\ UNCHANGED <<intake, events, lock, control, report>>

\* Mutant: the intake is not locked.
UncontrolledAlways(c) == TRUE

Uncontrolled(c) == control[c] = None

\* The transaction takes the lock of the intake and looks for its own kind of event:
\* an acceptance for an acceptance, the reason of an exclusion for an exclusion.
Control(p) ==
  /\ call[p].pc = "control" /\ Uncontrolled(Target[p])
  /\ control' = [control EXCEPT ![Target[p]] = p]
  /\ LET earlier == {e \in Of(IF p \in Acceptor THEN "accepted" ELSE "excluded") :
                       e.case = Target[p]}
     IN IF earlier = {} THEN Go(p, "commit")
        ELSE \E e \in earlier :
               call' = [call EXCEPT ![p].pc = "commit",
                 ![p].seen = IF p \in Acceptor THEN "accepted" ELSE ReasonOf[e.by]]
  /\ UNCHANGED <<intake, events, lock, report>>

\* Whether the intake is excluded is not asked.
Accept(p) ==
  /\ call[p].pc = "commit"
  /\ IF call[p].seen = None THEN Write("accepted", Target[p], p) ELSE UNCHANGED events
  /\ control' = [control EXCEPT ![Target[p]] = None]
  /\ End(p, "accepted")
  /\ UNCHANGED <<intake, lock, report>>

\* A second exclusion repeats the first or is SHADOW_INTAKE_EXCLUSION_CONFLICT.
Exclude(p) ==
  /\ call[p].pc = "commit"
  /\ IF call[p].seen = None THEN Write("excluded", Target[p], p) ELSE UNCHANGED events
  /\ control' = [control EXCEPT ![Target[p]] = None]
  /\ End(p, IF call[p].seen \in {None, ReasonOf[p]} THEN "excluded" ELSE "conflict")
  /\ UNCHANGED <<intake, lock, report>>

--------------------------------------------------------------------------------
(* The collection report *)

AcceptedCases == {e.case : e \in Of("accepted")}

\* Mutant: a case that was accepted cannot be withdrawn any more.
ExcludedUnlessAccepted == {e.case : e \in Of("excluded")} \ AcceptedCases

ExcludedCases == {e.case : e \in Of("excluded")}

ReadRecords(r) ==
  /\ call[r].pc = "idle"
  /\ report' = [report EXCEPT ![r].records = {c \in Case : Imported(c)}]
  /\ Go(r, "accepted")
  /\ UNCHANGED <<intake, events, lock, control>>

ReadAccepted(r) ==
  /\ call[r].pc = "accepted"
  /\ report' = [report EXCEPT ![r].accepted = AcceptedCases]
  /\ Go(r, "excluded")
  /\ UNCHANGED <<intake, events, lock, control>>

\* The last read, with which the report is computed: what it counts may not have
\* the identity of a synthetic case.
ReadExcluded(r) ==
  /\ call[r].pc = "excluded"
  /\ LET official == (report[r].records \cap report[r].accepted) \ ExcludedCases
     IN IF official \cap Synthetic # {}
        THEN End(r, "overlap") /\ UNCHANGED report
        ELSE End(r, "report") /\ report' = [report EXCEPT ![r].counted = official]
  /\ UNCHANGED <<intake, events, lock, control>>

--------------------------------------------------------------------------------
(* The specification *)

\* Mutant: the lock of a case outlives its session.
KeptLocks(p) == lock

FreedLocks(p) == [c \in Case |-> IF lock[c] = p THEN None ELSE lock[c]]

\* The process dies or a statement fails: its session ends, its transaction is
\* rolled back, and what was committed stays.
Stop(p) ==
  /\ p \in MayStop /\ call[p].pc \notin {"idle", "done", "stopped"}
  /\ lock' = FreedLocks(p)
  /\ control' = [c \in Case |-> IF control[c] = p THEN None ELSE control[c]]
  /\ Go(p, "stopped")
  /\ UNCHANGED <<intake, events, report>>

Init ==
  /\ intake = [c \in Case |-> None]
  /\ events = {}
  /\ lock = [c \in Case |-> None]
  /\ control = [c \in Case |-> None]
  /\ call = [p \in Caller |-> NewCall]
  /\ report = [r \in Reporter |-> NewReport]

ImportStep(p) ==
  TakeLock(p) \/ Select(p) \/ Reject(p) \/ Replay(p) \/ Insert(p) \/ RecordImport(p) \/ Unlock(p)

Next ==
  \/ \E p \in Importer : BeginImport(p) \/ ImportStep(p)
  \/ \E p \in Acceptor : Lookup(p) \/ Control(p) \/ Accept(p)
  \/ \E p \in Excluder : Lookup(p) \/ Control(p) \/ Exclude(p)
  \/ \E r \in Reporter : ReadRecords(r) \/ ReadAccepted(r) \/ ReadExcluded(r)
  \/ \E p \in Caller : Stop(p)

Spec == Init /\ [][Next]_vars

--------------------------------------------------------------------------------
(* Properties *)

TypeOK ==
  /\ intake \in [Case -> Intake \cup {None}]
  /\ events \subseteq Event
  /\ lock \in [Case -> Importer \cup {None}]
  /\ control \in [Case -> Acceptor \cup Excluder \cup {None}]
  /\ call \in [Caller -> Call]
  /\ \A p \in Importer : call[p].at \in DOMAIN Document[p]
  /\ report \in [Reporter -> Report]

\* The events of import p for the i-th case of its document.
Traces(p, i) ==
  {e \in events : e.by = p /\ e.case = Document[p][i].case
                  /\ e.type \in {"imported", "replayed", "rejected"}}

\* What import p has left behind for the i-th case when it has gone past it.
IsImported(p, i) ==
  LET c == Document[p][i].case
      type == IF intake[c].by = p THEN "imported" ELSE "replayed"
  IN /\ Imported(c) /\ intake[c].content = Document[p][i].content
     /\ Traces(p, i) = {[type |-> type, case |-> c, by |-> p]}

\* However imports of overlapping documents interleave and die, each has brought
\* in its document up to where it stands and nothing beyond: every case behind
\* it is stored once, with the content the import holds, and has exactly one event
\* of it that tells who stored it.  The answers say the same, and the constraint
\* of the table never stops an INSERT.  A stored case lacks its event only if
\* its import stopped right there.
ImportsAreTraced ==
  /\ \A p \in Importer :
       /\ \A i \in DOMAIN Document[p] :
            /\ i < call[p].at \/ call[p].answer = "imported" => IsImported(p, i)
            /\ i > call[p].at => Traces(p, i) = {}
       /\ call[p].answer = "conflict" =>
            /\ intake[CaseOf(p)].content # ContentOf(p)
            /\ Traces(p, call[p].at) = {[type |-> "rejected", case |-> CaseOf(p), by |-> p]}
       /\ call[p].answer # "unique_violation"
  /\ \A c \in Case : Imported(c) =>
       LET p == intake[c].by
       IN \/ [type |-> "imported", case |-> c, by |-> p] \in events
          \/ CaseOf(p) = c /\ call[p].pc \in {"record", "stopped"}

\* The events of the decisions on a case.
Decisions(type, c) == {e \in Of(type) : e.case = c}

\* A case is accepted at most once and excluded at most once, for one reason; every
\* call that was told so finds it so, and a conflict names the reason that stands.
DecisionsStand ==
  /\ \A c \in Case, type \in {"accepted", "excluded"} : Cardinality(Decisions(type, c)) <= 1
  /\ \A p \in Acceptor : call[p].answer = "accepted" => Decisions("accepted", Target[p]) # {}
  /\ \A p \in Excluder :
       call[p].answer \in {"excluded", "conflict"} =>
         \E e \in Decisions("excluded", Target[p]) :
           (ReasonOf[e.by] = ReasonOf[p]) = (call[p].answer = "excluded")
  /\ \A e \in Of("accepted") \cup Of("excluded") : Imported(e.case)

\* "A case counts ... only when" it was imported, accepted "and was not excluded"
\* (evaluation/shadow/METRICS.md).
Eligible(c) ==
  Imported(c) /\ Decisions("accepted", c) # {} /\ Decisions("excluded", c) = {}

\* Three reads at three moments make a sound report: every case it counts is
\* eligible at the moment of the last read, a case that was withdrawn before it is
\* never counted, and a case it saw imported and accepted is left out only if it
\* was withdrawn.  A report fails only over a synthetic identity that is eligible.
ReportsAreSound ==
  [][\A r \in Reporter :
       /\ call[r].answer # "report" /\ call'[r].answer = "report" =>
            report'[r].counted =
              {c \in report[r].records \cap report[r].accepted : Eligible(c)}
       /\ call[r].answer # "overlap" /\ call'[r].answer = "overlap" =>
            \E c \in Synthetic : Eligible(c)]_vars

\* Whoever holds a lock is at work under it, so nobody waits for the dead or for
\* anyone who waits: an import holds one lock, that of the case it stands at, and
\* lets go of it before the next one; a transaction takes nothing but its own.
LocksFollowTheWork ==
  /\ \A p \in Importer, c \in Case :
       lock[c] = p <=>
         /\ call[p].pc \in {"select", "reject", "replay", "insert", "record", "unlock"}
         /\ c = CaseOf(p)
  /\ \A p \in Acceptor \cup Excluder, c \in Case :
       control[c] = p <=> call[p].pc = "commit" /\ c = Target[p]

================================================================================
