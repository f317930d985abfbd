--------------------------- MODULE ShadowIntakeProofs ---------------------------
(***************************************************************************)
(* Proofs about ShadowIntake, for every set of calls, cases and documents: *)
(* type correctness, that locks follow the work done under them, that what *)
(* imports have stored, recorded and answered agrees, that decisions on a  *)
(* case stand, and that reports are sound.                                 *)
(***************************************************************************)
EXTENDS ShadowIntake, FiniteSetTheorems, TLAPS

--------------------------------------------------------------------------------
(* Type correctness *)

LEMMA DocumentType ==
  ASSUME NEW p \in Importer
  PROVE  /\ p \in Caller
         /\ Len(Document[p]) \in Nat
         /\ DOMAIN Document[p] = 1..Len(Document[p])
         /\ 1 \in DOMAIN Document[p]
         /\ \A i \in DOMAIN Document[p] :
              Document[p][i].case \in Case /\ Document[p][i].content \in Content
<1> DEFINE Row == [case : Case, content : Content]
           d == Document[p]
<1>1. d \in Seq(Row) /\ d # <<>>
  BY DocumentAssumption
<1> HIDE DEF d
<1>2. Len(d) \in Nat /\ DOMAIN d = 1..Len(d) /\ \A i \in DOMAIN d : d[i] \in Row
  <2> HIDE DEF Row
  <2> QED BY <1>1
<1>3. Len(d) # 0
  <2> HIDE DEF Row
  <2> QED BY <1>1, <1>2
<1>4. \A i \in DOMAIN d : d[i].case \in Case /\ d[i].content \in Content
  BY <1>2
<1>5. 1 \in DOMAIN d
  BY <1>2, <1>3
<1> QED BY <1>2, <1>4, <1>5 DEF Caller, d

LEMMA CaseOfType ==
  ASSUME TypeOK, NEW p \in Importer
  PROVE  /\ call[p].at \in DOMAIN Document[p]
         /\ CaseOf(p) \in Case /\ ContentOf(p) \in Content
BY DocumentType DEF TypeOK, CaseOf, ContentOf

LEMMA TargetType ==
  /\ \A p \in Acceptor \cup Excluder : p \in Caller /\ Target[p] \in Case
  /\ \A p \in Excluder : ReasonOf[p] \in Reason
BY TargetAssumption DEF Caller

LEMMA EventType ==
  ASSUME TypeOK
  PROVE  /\ \A e \in Of("imported") \cup Of("replayed") \cup Of("rejected") : e.by \in Importer
         /\ \A e \in Of("accepted") : e.by \in Acceptor
         /\ \A e \in Of("excluded") : e.by \in Excluder
         /\ \A e \in events : e.case \in Case /\ e.by \in Caller
BY DEF TypeOK, Of, Event, Caller

\* A call is moved, and given an answer, without anything else of it changing.
LEMMA MoveType ==
  ASSUME TypeOK, NEW p \in Caller, NEW pc \in Pc, NEW answer \in Answer,
         call' = [call EXCEPT ![p].pc = pc, ![p].answer = answer]
  PROVE  /\ call' \in [Caller -> Call]
         /\ \A q \in Importer : call'[q].at \in DOMAIN Document[q]
<1>1. [call[p] EXCEPT !.pc = pc, !.answer = answer] \in Call
  BY DEF TypeOK, Call
<1>2. \A q \in Caller : call'[q].at = call[q].at
  BY DEF TypeOK, Call
<1> QED BY <1>1, <1>2 DEF TypeOK, Caller

LEMMA GoType ==
  ASSUME TypeOK, NEW p \in Caller, NEW pc \in Pc, Go(p, pc)
  PROVE  /\ call' \in [Caller -> Call]
         /\ \A q \in Importer : call'[q].at \in DOMAIN Document[q]
<1>1. [call[p] EXCEPT !.pc = pc] \in Call
  BY DEF TypeOK, Call
<1>2. \A q \in Caller : call'[q].at = call[q].at
  BY DEF TypeOK, Call, Go
<1> QED BY <1>1, <1>2 DEF TypeOK, Caller, Go

LEMMA EndType ==
  ASSUME TypeOK, NEW p \in Caller, NEW answer \in Answer, End(p, answer)
  PROVE  /\ call' \in [Caller -> Call]
         /\ \A q \in Importer : call'[q].at \in DOMAIN Document[q]
BY MoveType DEF End, Pc

LEMMA TypeInit == Init => TypeOK
<1> SUFFICES ASSUME Init PROVE TypeOK
  OBVIOUS
<1>1. NewCall \in Call /\ NewReport \in Report
  BY DEF NewCall, Call, Pc, NewReport, Report
<1>2. \A p \in Importer : call[p].at \in DOMAIN Document[p]
  BY DocumentType DEF Init, NewCall, Caller
<1> QED BY <1>1, <1>2 DEF Init, TypeOK

LEMMA TypeImport ==
  ASSUME TypeOK, NEW p \in Importer, BeginImport(p) \/ ImportStep(p)
  PROVE  TypeOK'
<1> USE CaseOfType, DocumentType
<1>1. CASE BeginImport(p)
  BY <1>1, GoType DEF BeginImport, TypeOK, Pc
<1>2. CASE TakeLock(p)
  BY <1>2, GoType DEF TakeLock, TypeOK, Pc
<1>3. CASE Select(p)
  BY <1>3, GoType DEF Select, TypeOK, Pc
<1>4. CASE Reject(p)
  <2>1. call' \in [Caller -> Call] /\ \A q \in Importer : call'[q].at \in DOMAIN Document[q]
    BY <1>4, MoveType DEF Reject, Answer, Pc
  <2>2. [type |-> "rejected", case |-> CaseOf(p), by |-> p] \in Event
    BY DEF Event
  <2> QED BY <1>4, <2>1, <2>2 DEF Reject, Write, TypeOK
<1>5. CASE Replay(p)
  <2>1. [type |-> "replayed", case |-> CaseOf(p), by |-> p] \in Event
    BY DEF Event
  <2> QED BY <1>5, <2>1, GoType DEF Replay, Write, TypeOK, Pc
<1>6. CASE Insert(p)
  <2>1. CASE Imported(CaseOf(p))
    <3>1. call' = [call EXCEPT ![p].pc = "unlock", ![p].answer = "unique_violation"]
      BY <1>6, <2>1 DEF Insert
    <3>2. call' \in [Caller -> Call] /\ \A q \in Importer : call'[q].at \in DOMAIN Document[q]
      BY <3>1, MoveType DEF Answer, Pc
    <3> QED BY <1>6, <2>1, <3>2 DEF Insert, TypeOK
  <2>2. CASE ~Imported(CaseOf(p))
    <3>1. intake' \in [Case -> Intake \cup {None}]
      BY <1>6, <2>2 DEF Insert, TypeOK, Intake
    <3> QED BY <1>6, <2>2, <3>1, GoType DEF Insert, TypeOK, Pc
  <2> QED BY <2>1, <2>2
<1>7. CASE RecordImport(p)
  <2>1. [type |-> "imported", case |-> CaseOf(p), by |-> p] \in Event
    BY DEF Event
  <2> QED BY <1>7, <2>1, GoType DEF RecordImport, Write, TypeOK, Pc
<1>8. CASE Unlock(p)
  <2>1. lock' \in [Case -> Importer \cup {None}] /\ UNCHANGED <<intake, events, control, report>>
    BY <1>8 DEF Unlock, TypeOK
  <2>2. call' \in [Caller -> Call] /\ \A q \in Importer : call'[q].at \in DOMAIN Document[q]
    <3>1. CASE call[p].answer # None
      BY <1>8, <3>1, GoType DEF Unlock, Pc
    <3>2. CASE call[p].answer = None /\ IsLast(p)
      BY <1>8, <3>2, EndType DEF Unlock, Answer
    <3>3. CASE call[p].answer = None /\ ~IsLast(p)
      <4>1. call[p].at + 1 \in DOMAIN Document[p] /\ call[p].at + 1 \in Nat
        BY <3>3 DEF IsLast
      <4>2. call' = [call EXCEPT ![p].pc = "locking", ![p].at = @ + 1]
        BY <1>8, <3>3 DEF Unlock
      <4> DEFINE next == [call[p] EXCEPT !.pc = "locking", !.at = call[p].at + 1]
      <4>3. call[p] \in Call
        BY DEF TypeOK
      <4>4. next \in Call /\ next.at = call[p].at + 1
        BY <4>1, <4>3 DEF Call, Pc
      <4>5. call' = [call EXCEPT ![p] = next]
        BY <4>2, <4>3
      <4> HIDE DEF next
      <4> QED BY <4>1, <4>4, <4>5 DEF TypeOK, Caller
    <3> QED BY <3>1, <3>2, <3>3
  <2> QED BY <2>1, <2>2 DEF TypeOK
<1> QED BY <1>1, <1>2, <1>3, <1>4, <1>5, <1>6, <1>7, <1>8 DEF ImportStep

LEMMA TypeDecision ==
  ASSUME TypeOK, NEW p \in Acceptor \cup Excluder,
         \/ Lookup(p) \/ Control(p)
         \/ p \in Acceptor /\ Accept(p)
         \/ p \in Excluder /\ Exclude(p)
  PROVE  TypeOK'
<1> USE TargetType
<1>1. CASE Lookup(p)
  BY <1>1, GoType, EndType DEF Lookup, TypeOK, Answer, Pc
<1>2. CASE Control(p)
  <2>1. control' \in [Case -> Acceptor \cup Excluder \cup {None}]
    BY <1>2 DEF Control, TypeOK
  <2>2. call' \in [Caller -> Call] /\ \A q \in Importer : call'[q].at \in DOMAIN Document[q]
    <3> DEFINE earlier == {e \in Of(IF p \in Acceptor THEN "accepted" ELSE "excluded") :
                             e.case = Target[p]}
    <3>1. CASE earlier = {}
      BY <1>2, <3>1, GoType DEF Control, Pc
    <3>2. CASE earlier # {}
      <4>1. PICK e \in earlier :
              call' = [call EXCEPT ![p].pc = "commit",
                         ![p].seen = IF p \in Acceptor THEN "accepted" ELSE ReasonOf[e.by]]
        BY <1>2, <3>2 DEF Control
      <4>2. p \in Acceptor \/ ReasonOf[e.by] \in Reason
        BY EventType
      <4> DEFINE seen == IF p \in Acceptor THEN "accepted" ELSE ReasonOf[e.by]
      <4>3. seen \in Reason \cup {None, "accepted"} /\ "commit" \in Pc /\ call[p] \in Call
        BY <4>2 DEF TypeOK, Pc, Caller
      <4>4. call' = [call EXCEPT ![p] = [call[p] EXCEPT !.pc = "commit", !.seen = seen]]
        BY <4>1 DEF TypeOK, Call
      <4> HIDE DEF seen
      <4>5. [call[p] EXCEPT !.pc = "commit", !.seen = seen] \in Call
        BY <4>3 DEF Call
      <4>6. \A q \in Caller : call'[q].at = call[q].at
        BY <4>4 DEF TypeOK, Call
      <4> QED BY <4>4, <4>5, <4>6 DEF TypeOK, Caller
    <3> QED BY <3>1, <3>2
  <2> QED BY <1>2, <2>1, <2>2 DEF Control, TypeOK
<1>3. CASE p \in Acceptor /\ Accept(p)
  <2>1. [type |-> "accepted", case |-> Target[p], by |-> p] \in Event
    BY <1>3 DEF Event
  <2>2. events' \subseteq Event
    BY <1>3, <2>1 DEF Accept, Write, TypeOK
  <2> QED BY <1>3, <2>2, EndType DEF Accept, TypeOK, Answer
<1>4. CASE p \in Excluder /\ Exclude(p)
  <2>1. [type |-> "excluded", case |-> Target[p], by |-> p] \in Event
    BY <1>4 DEF Event
  <2>2. events' \subseteq Event
    BY <1>4, <2>1 DEF Exclude, Write, TypeOK
  <2> QED BY <1>4, <2>2, EndType DEF Exclude, TypeOK, Answer
<1> QED BY <1>1, <1>2, <1>3, <1>4

LEMMA TypeReport ==
  ASSUME TypeOK, NEW r \in Reporter, ReadRecords(r) \/ ReadAccepted(r) \/ ReadExcluded(r)
  PROVE  TypeOK'
<1>0. r \in Caller
  BY DEF Caller
<1>1. CASE ReadRecords(r)
  BY <1>0, <1>1, GoType DEF ReadRecords, TypeOK, Report, Pc
<1>2. CASE ReadAccepted(r)
  <2>1. AcceptedCases \subseteq Case
    BY EventType DEF AcceptedCases, Of
  <2>2. report' \in [Reporter -> Report]
    BY <1>2, <2>1 DEF ReadAccepted, TypeOK, Report
  <2> QED BY <1>0, <1>2, <2>2, GoType DEF ReadAccepted, TypeOK, Pc
<1>3. CASE ReadExcluded(r)
  <2> DEFINE official == (report[r].records \cap report[r].accepted) \ ExcludedCases
  <2>1. official \subseteq Case
    BY DEF TypeOK, Report
  <2>2. report' \in [Reporter -> Report]
    BY <1>3, <2>1 DEF ReadExcluded, TypeOK, Report
  <2> QED BY <1>0, <1>3, <2>2, EndType DEF ReadExcluded, TypeOK, Answer
<1> QED BY <1>1, <1>2, <1>3

LEMMA TypeStop ==
  ASSUME TypeOK, NEW p \in Caller, Stop(p)
  PROVE  TypeOK'
<1>1. lock' \in [Case -> Importer \cup {None}]
      /\ control' \in [Case -> Acceptor \cup Excluder \cup {None}]
  BY DEF Stop, FreedLocks, TypeOK
<1> QED BY <1>1, GoType DEF Stop, TypeOK, Pc

LEMMA TypeStep == TypeOK /\ [Next]_vars => TypeOK'
<1> SUFFICES ASSUME TypeOK, [Next]_vars PROVE TypeOK'
  OBVIOUS
<1>1. CASE Next
  BY <1>1, TypeImport, TypeDecision, TypeReport, TypeStop DEF Next
<1>2. CASE UNCHANGED vars
  BY <1>2 DEF vars, TypeOK
<1> QED BY <1>1, <1>2

\* The tables, locks, calls and reports keep the shape the code and migration 0005
\* give them.
THEOREM TypeCorrectness == Spec => []TypeOK
BY TypeInit, TypeStep, PTL DEF Spec

--------------------------------------------------------------------------------
(* Locks *)

Locked == {"select", "reject", "replay", "insert", "record", "unlock"}

\* A step of call p leaves the other calls where they are.
LEMMA OneCall ==
  ASSUME TypeOK, NEW p \in Caller,
         \/ \E pc \in Pc : Go(p, pc)
         \/ \E answer \in Answer : End(p, answer)
         \/ \E pc \in Pc, answer \in Answer :
              call' = [call EXCEPT ![p].pc = pc, ![p].answer = answer]
         \/ call' = [call EXCEPT ![p].pc = "locking", ![p].at = @ + 1]
         \/ \E seen : call' = [call EXCEPT ![p].pc = "commit", ![p].seen = seen]
  PROVE  \A q \in Caller \ {p} : call'[q] = call[q]
BY DEF TypeOK, Go, End

LEMMA ImportKeeps ==
  ASSUME TypeOK, NEW p \in Importer, BeginImport(p) \/ ImportStep(p)
  PROVE  /\ \A q \in Caller \ {p} : call'[q] = call[q]
         /\ UNCHANGED <<control, report>>
<1>1. p \in Caller
  BY DEF Caller
<1>2. UNCHANGED <<control, report>>
  BY DEF BeginImport, ImportStep, TakeLock, Select, Reject, Replay, Insert, RecordImport, Unlock
<1>3. \/ \E pc \in Pc : Go(p, pc)
      \/ \E answer \in Answer : End(p, answer)
      \/ \E pc \in Pc, answer \in Answer :
           call' = [call EXCEPT ![p].pc = pc, ![p].answer = answer]
      \/ call' = [call EXCEPT ![p].pc = "locking", ![p].at = @ + 1]
  BY DEF BeginImport, ImportStep, TakeLock, Select, Reject, Replay, Insert, RecordImport, Unlock,
         Pc, Answer
<1> QED BY <1>1, <1>2, <1>3, OneCall

LEMMA DecisionKeeps ==
  ASSUME TypeOK, NEW p \in Acceptor \cup Excluder,
         \/ Lookup(p) \/ Control(p)
         \/ p \in Acceptor /\ Accept(p)
         \/ p \in Excluder /\ Exclude(p)
  PROVE  /\ \A q \in Caller \ {p} : call'[q] = call[q]
         /\ UNCHANGED <<intake, lock, report>>
<1>1. p \in Caller
  BY DEF Caller
<1>2. UNCHANGED <<intake, lock, report>>
  BY DEF Lookup, Control, Accept, Exclude
<1>3. \/ \E pc \in Pc : Go(p, pc)
      \/ \E answer \in Answer : End(p, answer)
      \/ \E seen : call' = [call EXCEPT ![p].pc = "commit", ![p].seen = seen]
  BY DEF Lookup, Control, Accept, Exclude, Pc, Answer
<1> QED BY <1>1, <1>2, <1>3, OneCall

LEMMA ReportKeeps ==
  ASSUME TypeOK, NEW r \in Reporter, ReadRecords(r) \/ ReadAccepted(r) \/ ReadExcluded(r)
  PROVE  /\ r \in Caller /\ r \notin Importer \cup Acceptor \cup Excluder
         /\ \A q \in Caller \ {r} : call'[q] = call[q]
         /\ UNCHANGED <<intake, events, lock, control>>
<1>1. r \in Caller /\ r \notin Importer \cup Acceptor \cup Excluder
  BY CallerAssumption DEF Caller
<1>2. UNCHANGED <<intake, events, lock, control>>
  BY DEF ReadRecords, ReadAccepted, ReadExcluded
<1>3. (\E pc \in Pc : Go(r, pc)) \/ (\E answer \in Answer : End(r, answer))
  BY DEF ReadRecords, ReadAccepted, ReadExcluded, Pc, Answer
<1> QED BY <1>1, <1>2, <1>3, OneCall

\* What a stop changes: the call that stops, and the locks it held.
LEMMA StopKeeps ==
  ASSUME TypeOK, NEW p \in Caller, Stop(p)
  PROVE  /\ call'[p] = [call[p] EXCEPT !.pc = "stopped"]
         /\ call[p].pc \notin {"idle", "done", "stopped"}
         /\ \A q \in Caller \ {p} : call'[q] = call[q]
         /\ UNCHANGED <<intake, events, report>>
BY DEF Stop, Go, TypeOK

LEMMA LocksInit == Init => LocksFollowTheWork
BY TargetType, NoneAssumption DEF Init, NewCall, LocksFollowTheWork, Caller

\* One import and its lock.
LockOf(p) ==
  \A c \in Case : lock[c] = p <=> call[p].pc \in Locked /\ c = CaseOf(p)

LEMMA LocksImport ==
  ASSUME TypeOK, LocksFollowTheWork, NEW p \in Importer, BeginImport(p) \/ ImportStep(p)
  PROVE  LocksFollowTheWork'
<1>1. p \in Caller /\ CaseOf(p) \in Case /\ call[p] \in Call
  BY CaseOfType, DocumentType DEF TypeOK
<1>2. \A q \in Caller \ {p} : call'[q] = call[q]
  BY ImportKeeps
<1>3. \A q \in Acceptor \cup Excluder, c \in Case :
        control'[c] = q <=> call'[q].pc = "commit" /\ c = Target[q]
  BY <1>2, ImportKeeps, CallerAssumption DEF LocksFollowTheWork, Caller
<1>4. \A q \in Importer : LockOf(q)
  BY DEF LocksFollowTheWork, LockOf, Locked
<1>5. ASSUME NEW q \in Importer, q # p, UNCHANGED lock PROVE LockOf(q)'
  BY <1>2, <1>4, <1>5 DEF LockOf, CaseOf, Caller
<1>6. SUFFICES \A q \in Importer : LockOf(q)'
  BY <1>3 DEF LocksFollowTheWork, LockOf, Locked
<1>7. CASE BeginImport(p)
  <2>1. call'[p] = [call[p] EXCEPT !.pc = "locking"] /\ UNCHANGED lock
    BY <1>1, <1>7 DEF BeginImport, Go, TypeOK
  <2>2. CaseOf(p)' = CaseOf(p) /\ call'[p].pc = "locking"
    BY <1>1, <2>1 DEF CaseOf, Call
  <2>3. LockOf(p)'
    BY <1>4, <1>7, <2>1, <2>2 DEF LockOf, Locked, BeginImport
  <2> QED BY <1>5, <2>1, <2>3
<1>8. CASE TakeLock(p)
  <2>1. call'[p] = [call[p] EXCEPT !.pc = "select"] /\ lock' = [lock EXCEPT ![CaseOf(p)] = p]
        /\ lock[CaseOf(p)] = None /\ call[p].pc = "locking"
    BY <1>1, <1>8 DEF TakeLock, Granted, Go, TypeOK
  <2>2. CaseOf(p)' = CaseOf(p) /\ call'[p].pc = "select"
    BY <1>1, <2>1 DEF CaseOf, Call
  <2>3. LockOf(p)'
    BY <1>1, <1>4, <2>1, <2>2 DEF LockOf, Locked, TypeOK
  <2>4. ASSUME NEW q \in Importer, q # p PROVE LockOf(q)'
    <3>1. CaseOf(q)' = CaseOf(q) /\ call'[q] = call[q] /\ q # None
      BY <1>2, <2>4, NoneAssumption DEF CaseOf, Caller
    <3> QED BY <1>1, <1>4, <2>1, <2>4, <3>1 DEF LockOf, TypeOK
  <2> QED BY <2>3, <2>4
<1>9. CASE Select(p) \/ Reject(p) \/ Replay(p) \/ Insert(p) \/ RecordImport(p)
  <2>1. call'[p].at = call[p].at /\ call[p].pc \in Locked /\ call'[p].pc \in Locked
        /\ UNCHANGED lock
    BY <1>1, <1>9 DEF Select, Reject, Replay, Insert, RecordImport, Go, TypeOK, Call, Locked
  <2>2. LockOf(p)'
    BY <1>4, <2>1 DEF LockOf, CaseOf
  <2> QED BY <1>5, <2>1, <2>2
<1>10. CASE Unlock(p)
  <2>1. call'[p].pc \in {"done", "locking"} /\ lock' = [lock EXCEPT ![CaseOf(p)] = None]
        /\ lock[CaseOf(p)] = p
    <3>1. lock' = [lock EXCEPT ![CaseOf(p)] = None] /\ lock[CaseOf(p)] = p
      BY <1>1, <1>4, <1>10 DEF Unlock, LockOf, Locked
    <3>2. call'[p].pc \in {"done", "locking"}
      BY <1>1, <1>10 DEF Unlock, Go, End, TypeOK, Call
    <3> QED BY <3>1, <3>2
  <2>2. LockOf(p)'
    BY <1>1, <1>4, <2>1, NoneAssumption DEF LockOf, Locked, TypeOK
  <2>3. ASSUME NEW q \in Importer, q # p PROVE LockOf(q)'
    <3>1. CaseOf(q)' = CaseOf(q) /\ call'[q] = call[q] /\ q # None
      BY <1>2, <2>3, NoneAssumption DEF CaseOf, Caller
    <3> QED BY <1>1, <1>4, <2>1, <2>3, <3>1 DEF LockOf, TypeOK
  <2> QED BY <2>2, <2>3
<1> QED BY <1>7, <1>8, <1>9, <1>10 DEF ImportStep

LEMMA LocksDecision ==
  ASSUME TypeOK, LocksFollowTheWork, NEW p \in Acceptor \cup Excluder,
         \/ Lookup(p) \/ Control(p)
         \/ p \in Acceptor /\ Accept(p)
         \/ p \in Excluder /\ Exclude(p)
  PROVE  LocksFollowTheWork'
<1>1. p \in Caller /\ p \notin Importer /\ Target[p] \in Case /\ call[p] \in Call
  BY TargetType, CallerAssumption DEF TypeOK
<1>2. \A q \in Caller \ {p} : call'[q] = call[q]
  BY DecisionKeeps
<1>3. ASSUME NEW q \in Importer, NEW c \in Case
      PROVE  lock'[c] = q <=>
               /\ call'[q].pc \in {"select", "reject", "replay", "insert", "record", "unlock"}
               /\ c = CaseOf(q)'
  BY <1>1, <1>2, DecisionKeeps DEF LocksFollowTheWork, CaseOf, Caller
<1>4. ASSUME NEW q \in Acceptor \cup Excluder, NEW c \in Case
      PROVE  control'[c] = q <=> call'[q].pc = "commit" /\ c = Target[q]
  <2>1. q \in Caller /\ q # None /\ p # None
    BY NoneAssumption DEF Caller
  <2>2. control[c] = q <=> call[q].pc = "commit" /\ c = Target[q]
    BY DEF LocksFollowTheWork
  <2>3. CASE Lookup(p)
    <3>1. UNCHANGED control /\ call[p].pc = "idle" /\ call'[p].pc \in {"control", "done"}
      BY <1>1, <2>3 DEF Lookup, Go, End, TypeOK, Call
    <3> QED BY <1>2, <2>1, <2>2, <3>1
  <2>4. CASE Control(p)
    <3>1. control' = [control EXCEPT ![Target[p]] = p] /\ control[Target[p]] = None
          /\ call[p].pc = "control"
      BY <2>4 DEF Control, Uncontrolled
    <3>2. call'[p].pc = "commit"
      BY <1>1, <2>4 DEF Control, Go, TypeOK, Call
    <3>3. \A d \in Case : control[d] # p
      BY <3>1 DEF LocksFollowTheWork
    <3> QED BY <1>1, <1>2, <2>1, <2>2, <3>1, <3>2, <3>3 DEF TypeOK
  <2>5. CASE (p \in Acceptor /\ Accept(p)) \/ (p \in Excluder /\ Exclude(p))
    <3>1. control' = [control EXCEPT ![Target[p]] = None] /\ call[p].pc = "commit"
          /\ call'[p].pc = "done"
      BY <1>1, <2>5 DEF Accept, Exclude, End, TypeOK, Call
    <3>2. \A d \in Case : control[d] = p <=> d = Target[p]
      BY <3>1 DEF LocksFollowTheWork
    <3> QED BY <1>1, <1>2, <2>1, <2>2, <3>1, <3>2 DEF TypeOK
  <2> QED BY <2>3, <2>4, <2>5
<1> QED BY <1>3, <1>4 DEF LocksFollowTheWork

LEMMA LocksReport ==
  ASSUME TypeOK, LocksFollowTheWork, NEW r \in Reporter,
         ReadRecords(r) \/ ReadAccepted(r) \/ ReadExcluded(r)
  PROVE  LocksFollowTheWork'
<1>1. \A q \in Importer \cup Acceptor \cup Excluder : call'[q] = call[q]
  BY ReportKeeps DEF Caller
<1> QED BY <1>1, ReportKeeps DEF LocksFollowTheWork, CaseOf

LEMMA LocksStop ==
  ASSUME TypeOK, LocksFollowTheWork, NEW p \in Caller, Stop(p)
  PROVE  LocksFollowTheWork'
<1>1. call'[p].pc = "stopped" /\ call'[p].at = call[p].at
      /\ \A q \in Caller \ {p} : call'[q] = call[q]
  <2>1. /\ call'[p] = [call[p] EXCEPT !.pc = "stopped"]
        /\ \A q \in Caller \ {p} : call'[q] = call[q]
    BY StopKeeps
  <2>2. call[p] \in Call
    BY DEF TypeOK
  <2>3. \A d \in Call : /\ [d EXCEPT !.pc = "stopped"].pc = "stopped"
                       /\ [d EXCEPT !.pc = "stopped"].at = d.at
    BY DEF Call
  <2> QED BY <2>1, <2>2, <2>3
<1>2. /\ lock' = [c \in Case |-> IF lock[c] = p THEN None ELSE lock[c]]
      /\ control' = [c \in Case |-> IF control[c] = p THEN None ELSE control[c]]
  BY DEF Stop, FreedLocks
<1>3. None \notin Caller
  BY NoneAssumption
<1>4. ASSUME NEW q \in Importer, NEW c \in Case
      PROVE  lock'[c] = q <=>
               /\ call'[q].pc \in {"select", "reject", "replay", "insert", "record", "unlock"}
               /\ c = CaseOf(q)'
  BY <1>1, <1>2, <1>3 DEF LocksFollowTheWork, CaseOf, Caller
<1>5. ASSUME NEW q \in Acceptor \cup Excluder, NEW c \in Case
      PROVE  control'[c] = q <=> call'[q].pc = "commit" /\ c = Target[q]
  BY <1>1, <1>2, <1>3 DEF LocksFollowTheWork, Caller
<1> QED BY <1>4, <1>5 DEF LocksFollowTheWork

LEMMA LocksStep == TypeOK /\ LocksFollowTheWork /\ [Next]_vars => LocksFollowTheWork'
<1> SUFFICES ASSUME TypeOK, LocksFollowTheWork, [Next]_vars PROVE LocksFollowTheWork'
  OBVIOUS
<1>1. CASE Next
  BY <1>1, LocksImport, LocksDecision, LocksReport, LocksStop DEF Next
<1>2. CASE UNCHANGED vars
  BY <1>2 DEF vars, LocksFollowTheWork, CaseOf
<1> QED BY <1>1, <1>2

\* Nobody waits for the dead, nor holds a lock while waiting for another.
THEOREM LocksFollowWork == Spec => []LocksFollowTheWork
BY TypeInit, TypeStep, LocksInit, LocksStep, PTL DEF Spec

--------------------------------------------------------------------------------
(* Reports *)

\* Rows and events are only ever added.
LEMMA Grows ==
  ASSUME TypeOK, [Next]_vars
  PROVE  events \subseteq events' /\ \A c \in Case : Imported(c) => Imported(c)'
<1>1. CASE Next
  <2>1. ASSUME NEW p \in Importer, BeginImport(p) \/ ImportStep(p)
        PROVE  events \subseteq events' /\ \A c \in Case : Imported(c) => Imported(c)'
    <3>1. CASE Insert(p)
      BY <3>1, CaseOfType DEF Insert, Imported, TypeOK
    <3>2. CASE BeginImport(p) \/ TakeLock(p) \/ Select(p) \/ Reject(p) \/ Replay(p)
               \/ RecordImport(p) \/ Unlock(p)
      BY <3>2 DEF BeginImport, TakeLock, Select, Reject, Replay, RecordImport, Unlock, Write,
                  Imported
    <3> QED BY <2>1, <3>1, <3>2 DEF ImportStep
  <2>2. ASSUME NEW p \in Acceptor \cup Excluder,
               \/ Lookup(p) \/ Control(p)
               \/ p \in Acceptor /\ Accept(p)
               \/ p \in Excluder /\ Exclude(p)
        PROVE  events \subseteq events' /\ \A c \in Case : Imported(c) => Imported(c)'
    BY <2>2 DEF Lookup, Control, Accept, Exclude, Write, Imported
  <2>3. ASSUME NEW r \in Reporter, ReadRecords(r) \/ ReadAccepted(r) \/ ReadExcluded(r)
        PROVE  events \subseteq events' /\ \A c \in Case : Imported(c) => Imported(c)'
    BY <2>3, ReportKeeps DEF Imported
  <2>4. ASSUME NEW p \in Caller, Stop(p)
        PROVE  events \subseteq events' /\ \A c \in Case : Imported(c) => Imported(c)'
    BY <2>4 DEF Stop, Imported
  <2> QED BY <1>1, <2>1, <2>2, <2>3, <2>4 DEF Next
<1>2. CASE UNCHANGED vars
  BY <1>2 DEF vars, Imported
<1> QED BY <1>1, <1>2

\* What a report has read still holds: only the last read can find a case withdrawn.
ReadsStand ==
  \A r \in Reporter :
    /\ \A c \in report[r].records : Imported(c)
    /\ report[r].accepted \subseteq AcceptedCases

\* The step that ends a report, and every other step for a report.
LEMMA ReportEnds ==
  ASSUME TypeOK, [Next]_vars, NEW r \in Reporter
  PROVE  \/ ReadExcluded(r)
         \/ call'[r].answer = call[r].answer
<1>0. r \in Caller /\ r \notin Importer \cup Acceptor \cup Excluder
  BY CallerAssumption DEF Caller
<1>1. ASSUME NEW p \in Importer, BeginImport(p) \/ ImportStep(p)
      PROVE  call'[r] = call[r]
  BY <1>0, <1>1, ImportKeeps
<1>2. ASSUME NEW p \in Acceptor \cup Excluder,
             \/ Lookup(p) \/ Control(p)
             \/ p \in Acceptor /\ Accept(p)
             \/ p \in Excluder /\ Exclude(p)
      PROVE  call'[r] = call[r]
  BY <1>0, <1>2, DecisionKeeps
<1>3. ASSUME NEW q \in Reporter, ReadRecords(q) \/ ReadAccepted(q) \/ ReadExcluded(q), q # r
      PROVE  call'[r] = call[r]
  BY <1>0, <1>3, ReportKeeps
<1>4. ASSUME ReadRecords(r) \/ ReadAccepted(r)
      PROVE  call'[r].answer = call[r].answer
  BY <1>0, <1>4 DEF ReadRecords, ReadAccepted, Go, TypeOK, Call
<1>5. ASSUME NEW p \in Caller, Stop(p)
      PROVE  call'[r].answer = call[r].answer
  BY <1>0, <1>5 DEF Stop, Go, TypeOK, Call
<1>6. CASE Next
  BY <1>1, <1>2, <1>3, <1>4, <1>5, <1>6 DEF Next
<1>7. CASE UNCHANGED vars
  BY <1>7 DEF vars
<1> QED BY <1>6, <1>7

LEMMA ReadsStep == TypeOK /\ ReadsStand /\ [Next]_vars => ReadsStand'
<1> SUFFICES ASSUME TypeOK, ReadsStand, [Next]_vars, NEW r \in Reporter
             PROVE  /\ \A c \in report'[r].records : Imported(c)'
                    /\ report'[r].accepted \subseteq AcceptedCases'
  BY DEF ReadsStand
<1>1. AcceptedCases \subseteq AcceptedCases' /\ \A c \in Case : Imported(c) => Imported(c)'
  BY Grows DEF AcceptedCases, Of
<1>2. report[r] \in Report
  BY DEF TypeOK
<1>3. CASE UNCHANGED report
  BY <1>1, <1>2, <1>3 DEF ReadsStand, Report
<1>4. ASSUME NEW q \in Reporter, ReadRecords(q) \/ ReadAccepted(q) \/ ReadExcluded(q)
      PROVE  /\ report'[r].records \subseteq report[r].records \cup {c \in Case : Imported(c)}
             /\ report'[r].accepted \subseteq report[r].accepted \cup AcceptedCases
  BY <1>2, <1>4 DEF ReadRecords, ReadAccepted, ReadExcluded, TypeOK, Report
<1>5. CASE \E q \in Reporter : ReadRecords(q) \/ ReadAccepted(q) \/ ReadExcluded(q)
  BY <1>1, <1>2, <1>4, <1>5 DEF ReadsStand, Report
<1>6. UNCHANGED report \/ \E q \in Reporter : ReadRecords(q) \/ ReadAccepted(q) \/ ReadExcluded(q)
  BY ImportKeeps, DecisionKeeps, StopKeeps DEF Next, vars
<1> QED BY <1>3, <1>5, <1>6

LEMMA ReadsInit == Init => ReadsStand
BY DEF Init, ReadsStand, NewReport

LEMMA SoundStep ==
  TypeOK /\ ReadsStand /\ [Next]_vars =>
    \A r \in Reporter :
      /\ call[r].answer # "report" /\ call'[r].answer = "report" =>
           report'[r].counted = {c \in report[r].records \cap report[r].accepted : Eligible(c)}
      /\ call[r].answer # "overlap" /\ call'[r].answer = "overlap" =>
           \E c \in Synthetic : Eligible(c)
<1> SUFFICES ASSUME TypeOK, ReadsStand, [Next]_vars, NEW r \in Reporter, ReadExcluded(r)
             PROVE  /\ call'[r].answer = "report" =>
                         report'[r].counted =
                           {c \in report[r].records \cap report[r].accepted : Eligible(c)}
                    /\ call'[r].answer = "overlap" => \E c \in Synthetic : Eligible(c)
  BY ReportEnds
<1> DEFINE official == (report[r].records \cap report[r].accepted) \ ExcludedCases
<1>1. r \in Caller /\ call[r] \in Call /\ report[r] \in Report
  BY DEF TypeOK, Caller
<1>2. official = {c \in report[r].records \cap report[r].accepted : Eligible(c)}
  <2>1. \A c \in report[r].records : Imported(c)
    BY DEF ReadsStand
  <2>2. \A c \in report[r].accepted : Decisions("accepted", c) # {}
    BY DEF ReadsStand, AcceptedCases, Decisions
  <2>3. \A c : c \in ExcludedCases <=> Decisions("excluded", c) # {}
    BY DEF ExcludedCases, Decisions
  <2> QED BY <2>1, <2>2, <2>3 DEF Eligible
<1>3. CASE official \cap Synthetic # {}
  <2>1. call'[r].answer = "overlap"
    BY <1>1, <1>3 DEF ReadExcluded, End, TypeOK, Call
  <2> QED BY <1>2, <1>3, <2>1
<1>4. CASE official \cap Synthetic = {}
  <2>1. call'[r].answer = "report"
    BY <1>1, <1>4 DEF ReadExcluded, End, TypeOK, Call
  <2>2. report'[r].counted = official
    BY <1>1, <1>4 DEF ReadExcluded, TypeOK, Report
  <2> QED BY <1>2, <2>1, <2>2
<1> QED BY <1>3, <1>4

\* Three separate reads make a sound report: it counts what is eligible at its last
\* read among what it saw, and fails only over an eligible synthetic identity.
THEOREM SoundReports == Spec => ReportsAreSound
<1>1. TypeOK /\ ReadsStand /\ [Next]_vars =>
        [\A r \in Reporter :
           /\ call[r].answer # "report" /\ call'[r].answer = "report" =>
                report'[r].counted =
                  {c \in report[r].records \cap report[r].accepted : Eligible(c)}
           /\ call[r].answer # "overlap" /\ call'[r].answer = "overlap" =>
                \E c \in Synthetic : Eligible(c)]_vars
  BY SoundStep
<1> QED BY <1>1, TypeInit, TypeStep, ReadsInit, ReadsStep, PTL DEF Spec, ReportsAreSound

--------------------------------------------------------------------------------
(* Decisions *)

Own(p) == IF p \in Acceptor THEN "accepted" ELSE "excluded"

\* The decisions of the kind call p makes on its case.
Mine(p) == Decisions(Own(p), Target[p])

\* A call with the lock knows whether its decision was made already, and a call that
\* was told so finds it made.
CallStands(p) ==
  /\ call[p].pc \in {"idle", "control"} => call[p].seen = None
  /\ call[p].pc \in {"control", "commit"} => Imported(Target[p])
  /\ call[p].pc = "commit" /\ call[p].seen = None => Mine(p) = {}
  /\ call[p].pc = "commit" /\ call[p].seen # None =>
       \E e \in Mine(p) : p \in Excluder => ReasonOf[e.by] = call[p].seen
  /\ p \in Acceptor /\ call[p].answer = "accepted" => Mine(p) # {}
  /\ p \in Excluder /\ call[p].answer \in {"excluded", "conflict"} =>
       \E e \in Mine(p) : (ReasonOf[e.by] = ReasonOf[p]) = (call[p].answer = "excluded")

EventsStand ==
  /\ \A e \in Of("accepted") \cup Of("excluded") : Imported(e.case)
  /\ \A e, f \in Of("accepted") : e.case = f.case => e = f
  /\ \A e, f \in Of("excluded") : e.case = f.case => e = f

DecisionInv == EventsStand /\ \A p \in Acceptor \cup Excluder : CallStands(p)

LEMMA DecisionInit == Init => DecisionInv
<1> SUFFICES ASSUME Init PROVE DecisionInv
  OBVIOUS
<1>1. EventsStand
  BY DEF Init, EventsStand, Of
<1>2. ASSUME NEW p \in Acceptor \cup Excluder PROVE CallStands(p)
  <2>1. call[p].pc = "idle" /\ call[p].answer = None /\ call[p].seen = None
    BY TargetType DEF Init, NewCall
  <2>2. None \notin {"accepted", "excluded", "conflict"}
    BY NoneAssumption DEF Answer
  <2> QED BY <2>1, <2>2 DEF CallStands
<1> QED BY <1>1, <1>2 DEF DecisionInv

\* A call that does not move still stands when rows and events are added, unless a
\* decision it has found missing is made behind its back.
LEMMA CallKeepsStanding ==
  ASSUME TypeOK, [Next]_vars, NEW q \in Acceptor \cup Excluder, CallStands(q),
         call'[q] = call[q],
         call[q].pc = "commit" => Mine(q)' \subseteq Mine(q)
  PROVE  CallStands(q)'
<1>1. Imported(Target[q]) => Imported(Target[q])'
  BY Grows, TargetType
<1>2. Mine(q) \subseteq Mine(q)'
  BY Grows DEF Mine, Decisions, Of
<1> QED BY <1>1, <1>2 DEF CallStands

\* A step that makes no decision and leaves the calls that make one alone.
LEMMA NoDecision ==
  ASSUME TypeOK, [Next]_vars, DecisionInv,
         Of("accepted")' = Of("accepted"), Of("excluded")' = Of("excluded"),
         \A q \in Acceptor \cup Excluder : call'[q] = call[q]
  PROVE  DecisionInv'
<1>1. EventsStand'
  BY Grows, EventType DEF EventsStand, DecisionInv, Of
<1>2. \A q \in Acceptor \cup Excluder : Mine(q)' = Mine(q)
  BY DEF Mine, Decisions, Own
<1>3. \A q \in Acceptor \cup Excluder : CallStands(q)'
  BY <1>2, CallKeepsStanding DEF DecisionInv
<1> QED BY <1>1, <1>3 DEF DecisionInv

LEMMA DecisionImport ==
  ASSUME TypeOK, [Next]_vars, DecisionInv, NEW p \in Importer, BeginImport(p) \/ ImportStep(p)
  PROVE  DecisionInv'
<1>1. Of("accepted")' = Of("accepted") /\ Of("excluded")' = Of("excluded")
  <2>1. CASE UNCHANGED events
    BY <2>1 DEF Of
  <2>2. CASE \E type \in {"imported", "replayed", "rejected"} : Write(type, CaseOf(p), p)
    BY <2>2 DEF Write, Of
  <2> QED BY <2>1, <2>2 DEF BeginImport, ImportStep, TakeLock, Select, Reject, Replay, Insert,
               RecordImport, Unlock
<1>2. \A q \in Acceptor \cup Excluder : call'[q] = call[q]
  BY ImportKeeps, CallerAssumption, TargetType DEF Caller
<1> QED BY <1>1, <1>2, NoDecision

LEMMA DecisionReport ==
  ASSUME TypeOK, [Next]_vars, DecisionInv, NEW r \in Reporter,
         ReadRecords(r) \/ ReadAccepted(r) \/ ReadExcluded(r)
  PROVE  DecisionInv'
<1>1. Of("accepted")' = Of("accepted") /\ Of("excluded")' = Of("excluded")
  BY ReportKeeps DEF Of
<1>2. \A q \in Acceptor \cup Excluder : call'[q] = call[q]
  BY ReportKeeps, TargetType
<1> QED BY <1>1, <1>2, NoDecision

LEMMA DecisionStop ==
  ASSUME TypeOK, [Next]_vars, DecisionInv, NEW p \in Caller, Stop(p)
  PROVE  DecisionInv'
<1>1. Of("accepted")' = Of("accepted") /\ Of("excluded")' = Of("excluded")
  BY StopKeeps DEF Of
<1>2. EventsStand'
  BY <1>1, Grows, EventType DEF EventsStand, DecisionInv, Of
<1>3. ASSUME NEW q \in Acceptor \cup Excluder PROVE CallStands(q)'
  <2>1. Mine(q)' = Mine(q)
    BY <1>1 DEF Mine, Decisions, Own
  <2>2. CASE q # p
    BY <2>1, <2>2, StopKeeps, CallKeepsStanding, TargetType DEF DecisionInv
  <2>3. CASE q = p
    <3>1. call[p] \in Call /\ call'[p] = [call[p] EXCEPT !.pc = "stopped"]
      BY StopKeeps DEF TypeOK
    <3>2. call'[q].pc = "stopped" /\ call'[q].answer = call[q].answer
      BY <2>3, <3>1 DEF Call
    <3> QED BY <2>1, <3>2 DEF CallStands, DecisionInv
  <2> QED BY <2>2, <2>3
<1> QED BY <1>2, <1>3 DEF DecisionInv

LEMMA DecisionLookup ==
  ASSUME TypeOK, [Next]_vars, DecisionInv, NEW p \in Acceptor \cup Excluder, Lookup(p)
  PROVE  DecisionInv'
<1>1. Of("accepted")' = Of("accepted") /\ Of("excluded")' = Of("excluded") /\ UNCHANGED intake
  BY DEF Lookup, Of
<1>2. EventsStand'
  BY <1>1, EventType DEF EventsStand, DecisionInv, Of, Imported
<1>3. ASSUME NEW q \in Acceptor \cup Excluder PROVE CallStands(q)'
  <2>1. Mine(q)' = Mine(q)
    BY <1>1 DEF Mine, Decisions, Own
  <2>2. CASE q # p
    BY <2>1, <2>2, DecisionKeeps, CallKeepsStanding, TargetType DEF DecisionInv
  <2>3. CASE q = p
    <3>1. call[q] \in Call /\ q \in Caller
      BY TargetType DEF TypeOK
    <3>2. CASE Imported(Target[p])
      <4>1. call'[q].pc = "control" /\ call'[q].answer = call[q].answer
            /\ call'[q].seen = call[q].seen /\ call[q].pc = "idle"
        BY <2>3, <3>1, <3>2 DEF Lookup, Go, TypeOK, Call
      <4> QED BY <1>1, <2>1, <2>3, <3>2, <4>1 DEF CallStands, DecisionInv, Imported
    <3>3. CASE ~Imported(Target[p])
      <4>1. call'[q].pc = "done" /\ call'[q].answer = "not_found"
        BY <2>3, <3>1, <3>3 DEF Lookup, End, TypeOK, Call
      <4> QED BY <4>1 DEF CallStands
    <3> QED BY <3>2, <3>3
  <2> QED BY <2>2, <2>3
<1> QED BY <1>2, <1>3 DEF DecisionInv

LEMMA DecisionControl ==
  ASSUME TypeOK, [Next]_vars, DecisionInv, NEW p \in Acceptor \cup Excluder, Control(p)
  PROVE  DecisionInv'
<1>1. Of("accepted")' = Of("accepted") /\ Of("excluded")' = Of("excluded") /\ UNCHANGED intake
  BY DEF Control, Of
<1>2. EventsStand'
  BY <1>1, EventType DEF EventsStand, DecisionInv, Of, Imported
<1>3. ASSUME NEW q \in Acceptor \cup Excluder PROVE CallStands(q)'
  <2>1. Mine(q)' = Mine(q)
    BY <1>1 DEF Mine, Decisions, Own
  <2>2. CASE q # p
    BY <2>1, <2>2, DecisionKeeps, CallKeepsStanding, TargetType DEF DecisionInv
  <2>3. CASE q = p
    <3>1. call[q] \in Call /\ q \in Caller /\ Imported(Target[q]) /\ CallStands(q)
          /\ call[q].pc = "control"
      BY <2>3, TargetType DEF TypeOK, DecisionInv, CallStands, Control
    <3>2. CASE Mine(p) = {}
      <4>1. Go(p, "commit")
        BY <3>2 DEF Control, Mine, Own, Decisions
      <4>2. call'[q].pc = "commit" /\ call'[q].answer = call[q].answer
            /\ call'[q].seen = call[q].seen
        BY <2>3, <3>1, <4>1 DEF Go, TypeOK, Call
      <4>3. call[q].seen = None
        BY <3>1 DEF CallStands
      <4> QED BY <1>1, <2>1, <2>3, <3>1, <3>2, <4>2, <4>3 DEF CallStands, Imported
    <3>3. CASE Mine(p) # {}
      <4>1. PICK e \in Mine(p) :
              call' = [call EXCEPT ![p].pc = "commit",
                         ![p].seen = IF p \in Acceptor THEN "accepted" ELSE ReasonOf[e.by]]
        BY <3>3 DEF Control, Mine, Own, Decisions
      <4>2. call'[q].pc = "commit" /\ call'[q].answer = call[q].answer
            /\ call'[q].seen = IF p \in Acceptor THEN "accepted" ELSE ReasonOf[e.by]
        BY <2>3, <3>1, <4>1 DEF TypeOK, Call
      <4>3. call'[q].seen # None
        BY <2>3, <4>1, <4>2, EventType, TargetType, NoneAssumption
           DEF Mine, Own, Decisions, Answer
      <4>4. q \in Excluder => ReasonOf[e.by] = call'[q].seen
        BY <2>3, <4>2, CallerAssumption
      <4> QED BY <1>1, <2>1, <2>3, <3>1, <4>1, <4>2, <4>3, <4>4 DEF CallStands, Imported
    <3> QED BY <3>2, <3>3
  <2> QED BY <2>2, <2>3
<1> QED BY <1>2, <1>3 DEF DecisionInv

\* Whoever makes the decision has the lock: nobody else of its kind has looked for it.
LEMMA DecisionMade ==
  ASSUME TypeOK, LocksFollowTheWork, [Next]_vars, DecisionInv, NEW p \in Acceptor \cup Excluder,
         \/ p \in Acceptor /\ Accept(p)
         \/ p \in Excluder /\ Exclude(p)
  PROVE  DecisionInv'
<1> DEFINE new == [type |-> Own(p), case |-> Target[p], by |-> p]
<1>1. p \in Caller /\ Target[p] \in Case /\ call[p] \in Call /\ call[p].pc = "commit"
      /\ CallStands(p) /\ UNCHANGED intake /\ (p \in Excluder => p \notin Acceptor)
  BY TargetType, CallerAssumption DEF TypeOK, DecisionInv, Accept, Exclude
<1>2. events' = IF call[p].seen = None THEN events \cup {new} ELSE events
  BY <1>1 DEF Accept, Exclude, Write, Own
<1>3. EventsStand'
  <2>1. CASE call[p].seen = None
    <3>1. Mine(p) = {} /\ Imported(Target[p])
      BY <1>1, <2>1 DEF CallStands
    <3>2. \A e \in Of(Own(p)) : e.case # Target[p]
      BY <3>1 DEF Mine, Decisions
    <3>3. \A e \in Of("accepted")' \cup Of("excluded")' : Imported(e.case)'
      BY <1>1, <1>2, <3>1 DEF EventsStand, DecisionInv, Of, Imported
    <3>4. CASE p \in Acceptor
      <4>1. Of("accepted")' = Of("accepted") \cup {new} /\ Of("excluded")' = Of("excluded")
        BY <1>2, <2>1, <3>4 DEF Of, Own
      <4> QED BY <3>2, <3>3, <3>4, <4>1 DEF EventsStand, DecisionInv, Own
    <3>5. CASE p \notin Acceptor
      <4>1. Of("excluded")' = Of("excluded") \cup {new} /\ Of("accepted")' = Of("accepted")
        BY <1>2, <2>1, <3>5 DEF Of, Own
      <4> QED BY <3>2, <3>3, <3>5, <4>1 DEF EventsStand, DecisionInv, Own
    <3> QED BY <3>4, <3>5
  <2>2. CASE call[p].seen # None
    BY <1>1, <1>2, <2>2 DEF EventsStand, DecisionInv, Of, Imported
  <2> QED BY <2>1, <2>2
<1>4. ASSUME NEW q \in Acceptor \cup Excluder, q # p PROVE CallStands(q)'
  <2>1. call[q].pc = "commit" => Target[q] # Target[p]
    BY <1>1, <1>4 DEF LocksFollowTheWork
  <2>2. call[q].pc = "commit" => Mine(q)' \subseteq Mine(q)
    BY <1>2, <2>1 DEF Mine, Decisions, Of, Own
  <2>3. call'[q] = call[q]
    BY <1>4, DecisionKeeps, TargetType
  <2> QED BY <2>2, <2>3, CallKeepsStanding DEF DecisionInv
<1>5. CallStands(p)'
  <2>1. call'[p].pc = "done"
        /\ call'[p].answer = IF p \in Acceptor THEN "accepted"
                             ELSE IF call[p].seen \in {None, ReasonOf[p]} THEN "excluded"
                             ELSE "conflict"
    BY <1>1 DEF Accept, Exclude, End, TypeOK, Call
  <2>2. CASE call[p].seen = None
    <3>1. new \in Mine(p)'
      BY <1>2, <2>2 DEF Mine, Decisions, Of, Own
    <3>2. new.by = p
      OBVIOUS
    <3> QED BY <1>1, <2>1, <2>2, <3>1, <3>2 DEF CallStands
  <2>3. CASE call[p].seen # None
    <3>1. PICK e \in Mine(p) : p \in Excluder => ReasonOf[e.by] = call[p].seen
      BY <1>1, <2>3 DEF CallStands
    <3>2. e \in Mine(p)'
      BY <1>2, <2>3, <3>1 DEF Mine, Decisions, Of, Own
    <3> QED BY <1>1, <2>1, <2>3, <3>1, <3>2 DEF CallStands
  <2> QED BY <2>2, <2>3
<1> QED BY <1>3, <1>4, <1>5 DEF DecisionInv

LEMMA DecisionStep == TypeOK /\ LocksFollowTheWork /\ DecisionInv /\ [Next]_vars => DecisionInv'
<1> SUFFICES ASSUME TypeOK, LocksFollowTheWork, DecisionInv, [Next]_vars PROVE DecisionInv'
  OBVIOUS
<1>1. CASE Next
  BY <1>1, DecisionImport, DecisionLookup, DecisionControl, DecisionMade, DecisionReport,
     DecisionStop DEF Next
<1>2. CASE UNCHANGED vars
  BY <1>2, NoDecision DEF vars, Of
<1> QED BY <1>1, <1>2

LEMMA DecisionsFollow == TypeOK /\ DecisionInv => DecisionsStand
<1> SUFFICES ASSUME TypeOK, DecisionInv PROVE DecisionsStand
  OBVIOUS
<1>1. ASSUME NEW c \in Case, NEW type \in {"accepted", "excluded"}
      PROVE  Cardinality(Decisions(type, c)) <= 1
  <2>1. \A e, f \in Decisions(type, c) : e = f
    BY DEF Decisions, DecisionInv, EventsStand
  <2>2. CASE Decisions(type, c) = {}
    BY <2>2, FS_EmptySet
  <2>3. CASE Decisions(type, c) # {}
    <3>1. PICK e \in Decisions(type, c) : TRUE
      BY <2>3
    <3>2. Decisions(type, c) = {e}
      BY <2>1, <3>1
    <3>3. Cardinality(Decisions(type, c)) = 1
      BY <3>2, FS_Singleton
    <3> QED BY <3>3
  <2> QED BY <2>2, <2>3
<1>2. ASSUME NEW p \in Acceptor, call[p].answer = "accepted"
      PROVE  Decisions("accepted", Target[p]) # {}
  BY <1>2 DEF DecisionInv, CallStands, Mine, Own
<1>3. ASSUME NEW p \in Excluder, call[p].answer \in {"excluded", "conflict"}
      PROVE  \E e \in Decisions("excluded", Target[p]) :
               (ReasonOf[e.by] = ReasonOf[p]) = (call[p].answer = "excluded")
  BY <1>3, CallerAssumption DEF DecisionInv, CallStands, Mine, Own
<1>4. \A e \in Of("accepted") \cup Of("excluded") : Imported(e.case)
  BY DEF DecisionInv, EventsStand
<1> QED BY <1>1, <1>2, <1>3, <1>4 DEF DecisionsStand

\* However acceptances and exclusions race, one of each stands and every call was
\* told which.
THEOREM StandingDecisions == Spec => []DecisionsStand
BY TypeInit, TypeStep, LocksInit, LocksStep, DecisionInit, DecisionStep, DecisionsFollow, PTL
   DEF Spec

--------------------------------------------------------------------------------
(* Imports *)

\* Import p has not brought in the i-th case of its document.
NotStored(p, i) ==
  LET c == Document[p][i].case
  IN Traces(p, i) = {} /\ (Imported(c) => intake[c].by # p)

\* What an import that stands at its case has done with it: nothing before it
\* writes, a row without an event between the two statements of the import, and
\* all of it, or a refusal, before it lets go of the lock.
CaseStands(p) ==
  LET at == call[p].at
      row == intake[CaseOf(p)]
  IN /\ call[p].pc \in {"idle", "locking", "select", "reject", "replay", "insert"} =>
          NotStored(p, at)
     /\ call[p].pc = "insert" => ~Imported(CaseOf(p))
     /\ call[p].pc = "replay" => Imported(CaseOf(p)) /\ row.content = ContentOf(p)
     /\ call[p].pc = "reject" => Imported(CaseOf(p)) /\ row.content # ContentOf(p)
     /\ call[p].pc = "record" =>
          Traces(p, at) = {} /\ row = [content |-> ContentOf(p), by |-> p]
     /\ call[p].pc = "unlock" /\ call[p].answer = None => IsImported(p, at)

AnswerStands(p) ==
  LET at == call[p].at
  IN /\ call[p].answer \in {None, "imported", "conflict"}
     /\ call[p].answer # None => call[p].pc \in {"unlock", "done", "stopped"}
     /\ call[p].answer = "imported" => at = Len(Document[p]) /\ IsImported(p, at)
     /\ call[p].answer = "conflict" =>
          /\ Imported(CaseOf(p)) /\ intake[CaseOf(p)].content # ContentOf(p)
          /\ Traces(p, at) = {[type |-> "rejected", case |-> CaseOf(p), by |-> p]}

DocumentStands(p) ==
  \A i \in DOMAIN Document[p] :
    /\ i < call[p].at => IsImported(p, i)
    /\ i > call[p].at => NotStored(p, i)

ImportStands(p) == CaseStands(p) /\ AnswerStands(p) /\ DocumentStands(p)

\* Every row has its event, but for an import that is about to write it or has
\* stopped right there.
RowsAreRecorded ==
  \A c \in Case, p \in Importer :
    Imported(c) /\ intake[c].by = p =>
      \/ [type |-> "imported", case |-> c, by |-> p] \in events
      \/ CaseOf(p) = c /\ call[p].pc \in {"record", "stopped"}

ImportInv == RowsAreRecorded /\ \A p \in Importer : ImportStands(p)

LEMMA ImportInit == Init => ImportInv
<1> SUFFICES ASSUME Init PROVE ImportInv
  OBVIOUS
<1>1. \A c \in Case : ~Imported(c)
  BY DEF Init, Imported
<1>2. ASSUME NEW p \in Importer PROVE ImportStands(p)
  <2>1. call[p].pc = "idle" /\ call[p].answer = None /\ call[p].at = 1
    BY DocumentType DEF Init, NewCall
  <2>2. \A i \in DOMAIN Document[p] : NotStored(p, i)
    BY <1>1, DocumentType DEF Init, NotStored, Traces
  <2>3. \A i \in DOMAIN Document[p] : ~(i < 1)
    BY DocumentType
  <2>4. None \notin {"imported", "conflict"}
    BY NoneAssumption DEF Answer
  <2> QED BY <2>1, <2>2, <2>3, <2>4, DocumentType
       DEF ImportStands, CaseStands, AnswerStands, DocumentStands
<1> QED BY <1>1, <1>2 DEF ImportInv, RowsAreRecorded

\* What a step of call p adds: events of p alone, and, if p is an import, a row of
\* p for the case it has locked and found missing.
Adds(p) ==
  /\ events \subseteq events' /\ \A e \in events' : e \in events \/ e.by = p
  /\ \A c \in Case :
       \/ intake'[c] = intake[c]
       \/ ~Imported(c) /\ lock[c] = p /\ intake'[c] \in Intake /\ intake'[c].by = p

\* The other imports stand as before.
LEMMA OthersStand ==
  ASSUME TypeOK, LocksFollowTheWork, NEW p \in Caller, Adds(p),
         NEW q \in Importer, q # p, call'[q] = call[q], ImportStands(q)
  PROVE  ImportStands(q)'
<1>1. \A i \in DOMAIN Document[q] : Document[q][i].case \in Case
  BY DocumentType
<1>2. \A i \in DOMAIN Document[q] : Traces(q, i)' = Traces(q, i)
  BY DEF Adds, Traces
<1>3. \A c \in Case : Imported(c) => intake'[c] = intake[c] /\ Imported(c)'
  BY DEF Adds, Imported
<1>4. \A i \in DOMAIN Document[q] : IsImported(q, i) => IsImported(q, i)'
  BY <1>1, <1>2, <1>3 DEF IsImported
<1>5. \A i \in DOMAIN Document[q] : NotStored(q, i) => NotStored(q, i)'
  BY <1>1, <1>2 DEF Adds, NotStored, Imported
<1>6. CaseOf(q)' = CaseOf(q) /\ ContentOf(q)' = ContentOf(q) /\ CaseOf(q) \in Case
      /\ call[q].at \in DOMAIN Document[q]
  BY CaseOfType DEF CaseOf, ContentOf
<1>7. call[q].pc = "insert" => intake'[CaseOf(q)] = intake[CaseOf(q)]
  BY <1>6 DEF Adds, LocksFollowTheWork
<1>8. CaseStands(q)'
  <2>1. [content |-> ContentOf(q), by |-> q] # None
    BY CaseOfType, NoneAssumption DEF Intake
  <2>2. call[q].pc = "record" => Imported(CaseOf(q))
    BY <2>1 DEF ImportStands, CaseStands, Imported
  <2> QED BY <1>2, <1>3, <1>4, <1>5, <1>6, <1>7, <2>2 DEF ImportStands, CaseStands, Imported
<1>9. AnswerStands(q)'
  BY <1>2, <1>3, <1>4, <1>6 DEF ImportStands, AnswerStands
<1>10. DocumentStands(q)'
  BY <1>4, <1>5 DEF ImportStands, DocumentStands
<1> QED BY <1>8, <1>9, <1>10 DEF ImportStands

\* The other cases of an import stand as before: none of them is the one it is at.
LEMMA OtherCasesStand ==
  ASSUME TypeOK, NEW p \in Importer, events \subseteq events',
         \A e \in events' : e \in events \/ e.case = CaseOf(p),
         \A c \in Case : c # CaseOf(p) => intake'[c] = intake[c],
         NEW i \in DOMAIN Document[p], i # call[p].at
  PROVE  /\ IsImported(p, i) => IsImported(p, i)'
         /\ NotStored(p, i) => NotStored(p, i)'
<1>1. Document[p][i].case # CaseOf(p) /\ Document[p][i].case \in Case
  BY CaseOfType, DocumentType, DocumentAssumption DEF CaseOf
<1>2. Traces(p, i)' = Traces(p, i)
  BY <1>1 DEF Traces
<1>3. intake'[Document[p][i].case] = intake[Document[p][i].case]
  BY <1>1
<1> QED BY <1>2, <1>3 DEF IsImported, NotStored, Imported

LEMMA ImportAdds ==
  ASSUME TypeOK, LocksFollowTheWork, ImportInv, NEW p \in Importer, BeginImport(p) \/ ImportStep(p)
  PROVE  /\ Adds(p)
         /\ \A e \in events' : e \in events \/ e.case = CaseOf(p)
         /\ \A c \in Case : c # CaseOf(p) => intake'[c] = intake[c]
<1>1. CaseOf(p) \in Case /\ ContentOf(p) \in Content
  BY CaseOfType
<1>2. CASE Insert(p)
  <2>1. lock[CaseOf(p)] = p /\ ~Imported(CaseOf(p))
    BY <1>1, <1>2 DEF Insert, LocksFollowTheWork, ImportInv, ImportStands, CaseStands
  <2>2. intake' = [intake EXCEPT ![CaseOf(p)] = [content |-> ContentOf(p), by |-> p]]
        /\ UNCHANGED events
    BY <1>2, <2>1 DEF Insert
  <2> QED BY <1>1, <2>1, <2>2 DEF Adds, TypeOK, Intake
<1>3. CASE BeginImport(p) \/ TakeLock(p) \/ Select(p) \/ Reject(p) \/ Replay(p)
           \/ RecordImport(p) \/ Unlock(p)
  <2>1. UNCHANGED intake
        /\ (UNCHANGED events \/ \E type \in {"imported", "replayed", "rejected"} :
                                  Write(type, CaseOf(p), p))
    BY <1>3 DEF BeginImport, TakeLock, Select, Reject, Replay, RecordImport, Unlock
  <2> QED BY <2>1 DEF Adds, Write
<1> QED BY <1>2, <1>3 DEF ImportStep

\* A step of an import on its own case: the cases before and after it stand as before.
LEMMA DocumentKept ==
  ASSUME TypeOK, LocksFollowTheWork, ImportInv, NEW p \in Importer,
         BeginImport(p) \/ ImportStep(p), call'[p].at = call[p].at
  PROVE  DocumentStands(p)'
<1>1. call[p].at \in DOMAIN Document[p] /\ DOMAIN Document[p] = 1..Len(Document[p])
  BY CaseOfType, DocumentType
<1>2. \A i \in DOMAIN Document[p] : i # call[p].at =>
        /\ IsImported(p, i) => IsImported(p, i)'
        /\ NotStored(p, i) => NotStored(p, i)'
  BY ImportAdds, OtherCasesStand DEF Adds
<1>3. \A i \in DOMAIN Document[p] :
        (i < call[p].at => i # call[p].at) /\ (i > call[p].at => i # call[p].at)
  BY <1>1
<1> QED BY <1>2, <1>3 DEF DocumentStands, ImportInv, ImportStands

\* The steps that move a call and write nothing.
LEMMA ImportMoves ==
  ASSUME TypeOK, LocksFollowTheWork, ImportInv, NEW p \in Importer,
         BeginImport(p) \/ TakeLock(p) \/ Select(p)
  PROVE  ImportStands(p)'
<1>1. p \in Caller /\ call[p] \in Call /\ UNCHANGED <<intake, events>> /\ ImportStands(p)
  BY DocumentType DEF BeginImport, TakeLock, Select, TypeOK, ImportInv
<1>2. PICK pc \in Pc : Go(p, pc)
  BY DEF BeginImport, TakeLock, Select, Pc
<1>3. call'[p].pc = pc /\ call'[p].at = call[p].at /\ call'[p].answer = call[p].answer
  BY <1>1, <1>2 DEF Go, TypeOK, Call
<1>4. CaseOf(p)' = CaseOf(p) /\ ContentOf(p)' = ContentOf(p)
  BY <1>3 DEF CaseOf, ContentOf
<1>5. \A i : (NotStored(p, i)' <=> NotStored(p, i)) /\ (IsImported(p, i)' <=> IsImported(p, i))
  BY <1>1 DEF NotStored, IsImported, Traces, Imported
<1>6. NotStored(p, call[p].at) /\ call[p].answer = None
  BY <1>1 DEF BeginImport, TakeLock, Select, ImportStands, CaseStands, AnswerStands
<1>7. CaseStands(p)'
  <2>1. \/ call'[p].pc \in {"locking", "select"}
        \/ call'[p].pc = "insert" /\ ~Imported(CaseOf(p))
        \/ call'[p].pc = "replay" /\ Imported(CaseOf(p))
           /\ intake[CaseOf(p)].content = ContentOf(p)
        \/ call'[p].pc = "reject" /\ Imported(CaseOf(p))
           /\ intake[CaseOf(p)].content # ContentOf(p)
    BY <1>1 DEF BeginImport, TakeLock, Select, Go, TypeOK, Call
  <2> QED BY <1>1, <1>3, <1>4, <1>5, <1>6, <2>1 DEF CaseStands, Imported
<1>8. AnswerStands(p)'
  BY <1>3, <1>6, NoneAssumption DEF AnswerStands, Answer
<1>9. DocumentStands(p)'
  BY <1>3, DocumentKept DEF ImportStep
<1> QED BY <1>7, <1>8, <1>9 DEF ImportStands

\* The steps that write the event of the case the import is at.
LEMMA ImportWrites ==
  ASSUME TypeOK, LocksFollowTheWork, ImportInv, NEW p \in Importer,
         Reject(p) \/ Replay(p) \/ RecordImport(p)
  PROVE  ImportStands(p)'
<1> DEFINE type == IF Reject(p) THEN "rejected" ELSE IF Replay(p) THEN "replayed" ELSE "imported"
           event == [type |-> type, case |-> CaseOf(p), by |-> p]
<1>1. p \in Caller /\ call[p] \in Call /\ UNCHANGED intake /\ ImportStands(p)
      /\ events' = events \cup {event} /\ type \in {"imported", "replayed", "rejected"}
  BY DocumentType DEF Reject, Replay, RecordImport, TypeOK, ImportInv, Write
<1>2. call'[p].pc = "unlock" /\ call'[p].at = call[p].at
      /\ call'[p].answer = IF Reject(p) THEN "conflict" ELSE call[p].answer
  BY <1>1 DEF Reject, Replay, RecordImport, Go, TypeOK, Call
<1>3. CaseOf(p)' = CaseOf(p) /\ ContentOf(p)' = ContentOf(p)
      /\ CaseOf(p) = Document[p][call[p].at].case
      /\ ContentOf(p) = Document[p][call[p].at].content
  BY <1>2 DEF CaseOf, ContentOf
<1>4. call[p].answer = None
  BY <1>1 DEF Reject, Replay, RecordImport, ImportStands, AnswerStands
<1>5. Traces(p, call[p].at) = {}
  BY <1>1 DEF Reject, Replay, RecordImport, ImportStands, CaseStands, NotStored
<1>6. Traces(p, call[p].at)' = {event}
  <2> HIDE DEF type
  <2> QED BY <1>1, <1>2, <1>3, <1>5 DEF Traces
<1>7. CASE Reject(p)
  <2>1. type = "rejected" /\ Imported(CaseOf(p)) /\ intake[CaseOf(p)].content # ContentOf(p)
    BY <1>1, <1>7 DEF Reject, ImportStands, CaseStands
  <2>2. call'[p].answer = "conflict" /\ "conflict" # None
    BY <1>2, <1>7, NoneAssumption DEF Answer
  <2>3. CaseStands(p)'
    BY <1>2, <2>2 DEF CaseStands
  <2>4. AnswerStands(p)'
    BY <1>1, <1>2, <1>3, <1>6, <2>1, <2>2 DEF AnswerStands, Imported
  <2> QED BY <1>2, <1>7, <2>3, <2>4, DocumentKept DEF ImportStands, ImportStep
<1>8. CASE ~Reject(p)
  <2>1. Imported(CaseOf(p)) /\ intake[CaseOf(p)].content = ContentOf(p)
        /\ type = IF intake[CaseOf(p)].by = p THEN "imported" ELSE "replayed"
    <3>1. CASE Replay(p)
      BY <1>1, <1>3, <1>8, <3>1 DEF Replay, ImportStands, CaseStands, NotStored
    <3>2. CASE ~Replay(p)
      <4>1. intake[CaseOf(p)] = [content |-> ContentOf(p), by |-> p] /\ type = "imported"
        BY <1>1, <1>8, <3>2 DEF RecordImport, ImportStands, CaseStands
      <4>2. [content |-> ContentOf(p), by |-> p] # None
        BY CaseOfType, NoneAssumption DEF Intake
      <4> QED BY <4>1, <4>2 DEF Imported
    <3> QED BY <3>1, <3>2
  <2>2. IsImported(p, call[p].at)'
    <3> HIDE DEF type
    <3> QED BY <1>1, <1>2, <1>3, <1>6, <2>1 DEF IsImported, Imported
  <2>3. CaseStands(p)'
    BY <1>2, <2>2 DEF CaseStands
  <2>4. AnswerStands(p)'
    BY <1>2, <1>4, <1>8, NoneAssumption DEF AnswerStands, Answer
  <2> QED BY <1>2, <2>3, <2>4, DocumentKept DEF ImportStands, ImportStep
<1> QED BY <1>7, <1>8

LEMMA ImportInserts ==
  ASSUME TypeOK, LocksFollowTheWork, ImportInv, NEW p \in Importer, Insert(p)
  PROVE  ImportStands(p)'
<1>1. p \in Caller /\ call[p] \in Call /\ ImportStands(p) /\ call[p].pc = "insert"
  BY DocumentType DEF Insert, TypeOK, ImportInv
<1>2. ~Imported(CaseOf(p)) /\ NotStored(p, call[p].at) /\ call[p].answer = None
  BY <1>1 DEF ImportStands, CaseStands, AnswerStands
<1>3. /\ intake' = [intake EXCEPT ![CaseOf(p)] = [content |-> ContentOf(p), by |-> p]]
      /\ Go(p, "record") /\ UNCHANGED events
  BY <1>2 DEF Insert
<1>4. call'[p].pc = "record" /\ call'[p].at = call[p].at /\ call'[p].answer = None
  BY <1>1, <1>2, <1>3 DEF Go, TypeOK, Call
<1>5. CaseOf(p)' = CaseOf(p) /\ ContentOf(p)' = ContentOf(p)
  BY <1>4 DEF CaseOf, ContentOf
<1>6. intake'[CaseOf(p)] = [content |-> ContentOf(p), by |-> p]
  BY <1>3, CaseOfType DEF TypeOK
<1>7. Traces(p, call[p].at)' = {}
  BY <1>2, <1>3, <1>4 DEF NotStored, Traces
<1>8. CaseStands(p)'
  BY <1>4, <1>5, <1>6, <1>7 DEF CaseStands
<1>9. AnswerStands(p)'
  BY <1>4, NoneAssumption DEF AnswerStands, Answer
<1> QED BY <1>4, <1>8, <1>9, DocumentKept DEF ImportStands, ImportStep

\* What was brought in lies behind the import when it goes on to the next case.
LEMMA ImportUnlocks ==
  ASSUME TypeOK, LocksFollowTheWork, ImportInv, NEW p \in Importer, Unlock(p)
  PROVE  ImportStands(p)'
<1>1. p \in Caller /\ call[p] \in Call /\ ImportStands(p) /\ call[p].pc = "unlock"
      /\ UNCHANGED <<intake, events>>
  BY DocumentType DEF Unlock, TypeOK, ImportInv
<1>2. \A i : (NotStored(p, i)' <=> NotStored(p, i)) /\ (IsImported(p, i)' <=> IsImported(p, i))
  BY <1>1 DEF NotStored, IsImported, Traces, Imported
<1>3. call[p].at \in DOMAIN Document[p]
      /\ DOMAIN Document[p] = 1..Len(Document[p]) /\ Len(Document[p]) \in Nat
  BY CaseOfType, DocumentType
<1>4. CASE call[p].answer # None
  <2>1. call'[p].pc = "done" /\ call'[p].at = call[p].at /\ call'[p].answer = call[p].answer
    BY <1>1, <1>4 DEF Unlock, Go, TypeOK, Call
  <2>2. CaseOf(p)' = CaseOf(p) /\ ContentOf(p)' = ContentOf(p)
        /\ Traces(p, call[p].at)' = Traces(p, call[p].at)
    BY <1>1, <2>1 DEF CaseOf, ContentOf, Traces
  <2>3. AnswerStands(p)'
    BY <1>1, <1>2, <2>1, <2>2 DEF ImportStands, AnswerStands, Imported
  <2>4. CaseStands(p)'
    BY <2>1 DEF CaseStands
  <2> QED BY <2>1, <2>3, <2>4, DocumentKept DEF ImportStands, ImportStep
<1>5. CASE call[p].answer = None /\ IsLast(p)
  <2>1. call'[p].pc = "done" /\ call'[p].at = call[p].at /\ call'[p].answer = "imported"
    BY <1>1, <1>5 DEF Unlock, End, TypeOK, Call
  <2>2. IsImported(p, call[p].at) /\ call[p].at = Len(Document[p])
    BY <1>1, <1>5 DEF ImportStands, CaseStands, IsLast
  <2>3. AnswerStands(p)'
    BY <1>2, <2>1, <2>2 DEF AnswerStands
  <2>4. CaseStands(p)'
    BY <2>1 DEF CaseStands
  <2> QED BY <2>1, <2>3, <2>4, DocumentKept DEF ImportStands, ImportStep
<1>6. CASE call[p].answer = None /\ ~IsLast(p)
  <2>1. call' = [call EXCEPT ![p].pc = "locking", ![p].at = @ + 1]
    BY <1>1, <1>6 DEF Unlock
  <2>2. call'[p].pc = "locking" /\ call'[p].at = call[p].at + 1 /\ call'[p].answer = None
    BY <1>1, <1>6, <2>1 DEF TypeOK, Call
  <2>3. IsImported(p, call[p].at) /\ DocumentStands(p)
    BY <1>1, <1>6 DEF ImportStands, CaseStands
  <2>4. call[p].at + 1 \in DOMAIN Document[p]
    BY <1>3, <1>6 DEF IsLast
  <2>5. DocumentStands(p)'
    <3>1. ASSUME NEW i \in DOMAIN Document[p], i < call[p].at + 1 PROVE IsImported(p, i)
      <4>1. i < call[p].at \/ i = call[p].at
        BY <1>3, <3>1
      <4> QED BY <2>3, <4>1 DEF DocumentStands
    <3>2. ASSUME NEW i \in DOMAIN Document[p], i > call[p].at + 1 PROVE NotStored(p, i)
      <4>1. i > call[p].at
        BY <1>3, <3>2
      <4> QED BY <2>3, <4>1 DEF DocumentStands
    <3> QED BY <1>2, <2>2, <3>1, <3>2 DEF DocumentStands
  <2>6. NotStored(p, call[p].at + 1)
    <3>1. call[p].at + 1 > call[p].at
      BY <1>3
    <3> QED BY <2>3, <2>4, <3>1 DEF DocumentStands
  <2>7. CaseStands(p)'
    BY <1>2, <2>2, <2>6 DEF CaseStands
  <2>8. AnswerStands(p)'
    BY <2>2, NoneAssumption DEF AnswerStands, Answer
  <2> QED BY <2>5, <2>7, <2>8 DEF ImportStands
<1> QED BY <1>4, <1>5, <1>6

LEMMA ImportStops ==
  ASSUME TypeOK, ImportInv, NEW p \in Importer, Stop(p)
  PROVE  ImportStands(p)'
<1>1. p \in Caller /\ call[p] \in Call /\ ImportStands(p) /\ UNCHANGED <<intake, events>>
  BY DocumentType DEF Stop, TypeOK, ImportInv
<1>2. call'[p].pc = "stopped" /\ call'[p].at = call[p].at /\ call'[p].answer = call[p].answer
  BY <1>1 DEF Stop, Go, TypeOK, Call
<1>3. CaseOf(p)' = CaseOf(p) /\ ContentOf(p)' = ContentOf(p)
      /\ Traces(p, call[p].at)' = Traces(p, call[p].at)
  BY <1>1, <1>2 DEF CaseOf, ContentOf, Traces
<1>4. \A i : (NotStored(p, i)' <=> NotStored(p, i)) /\ (IsImported(p, i)' <=> IsImported(p, i))
  BY <1>1 DEF NotStored, IsImported, Traces, Imported
<1>5. AnswerStands(p)'
  BY <1>1, <1>2, <1>3, <1>4 DEF ImportStands, AnswerStands, Imported
<1>6. DocumentStands(p)'
  BY <1>1, <1>2, <1>4 DEF ImportStands, DocumentStands
<1> QED BY <1>2, <1>5, <1>6 DEF ImportStands, CaseStands

\* Rows and their events, over any step in which only one call moves.
LEMMA RowsKept ==
  ASSUME TypeOK, RowsAreRecorded, NEW p \in Caller, Adds(p),
         \A q \in Caller \ {p} : call'[q] = call[q],
         \A c \in Case : intake'[c] # intake[c] =>
           p \in Importer /\ CaseOf(p)' = c /\ call'[p].pc = "record",
         p \in Importer /\ call[p].pc \in {"record", "stopped"} =>
           \/ CaseOf(p)' = CaseOf(p) /\ call'[p].pc \in {"record", "stopped"}
           \/ [type |-> "imported", case |-> CaseOf(p), by |-> p] \in events'
  PROVE  RowsAreRecorded'
<1> SUFFICES ASSUME NEW c \in Case, NEW q \in Importer, Imported(c)', intake'[c].by = q
             PROVE  \/ [type |-> "imported", case |-> c, by |-> q] \in events'
                    \/ CaseOf(q)' = c /\ call'[q].pc \in {"record", "stopped"}
  BY DEF RowsAreRecorded
<1>1. CASE intake'[c] # intake[c]
  BY <1>1 DEF Adds
<1>2. CASE intake'[c] = intake[c]
  <2>1. Imported(c) /\ intake[c].by = q
    BY <1>2 DEF Imported
  <2>2. CASE [type |-> "imported", case |-> c, by |-> q] \in events
    BY <2>2 DEF Adds
  <2>3. CASE CaseOf(q) = c /\ call[q].pc \in {"record", "stopped"}
    <3>1. CASE q = p
      BY <2>3, <3>1
    <3>2. CASE q # p
      <4>1. call'[q] = call[q] /\ CaseOf(q)' = CaseOf(q)
        BY <3>2 DEF Caller, CaseOf
      <4> QED BY <2>3, <4>1
    <3> QED BY <3>1, <3>2
  <2> QED BY <2>1, <2>2, <2>3 DEF RowsAreRecorded
<1> QED BY <1>1, <1>2

LEMMA ImportStepStands ==
  ASSUME TypeOK, LocksFollowTheWork, ImportInv, NEW p \in Importer, BeginImport(p) \/ ImportStep(p)
  PROVE  ImportInv'
<1>1. p \in Caller /\ call[p] \in Call /\ Adds(p) /\ \A q \in Caller \ {p} : call'[q] = call[q]
  BY DocumentType, ImportAdds, ImportKeeps DEF TypeOK
<1>2. ImportStands(p)'
  BY ImportMoves, ImportWrites, ImportInserts, ImportUnlocks DEF ImportStep
<1>3. \A q \in Importer : q # p => ImportStands(q)'
  BY <1>1, OthersStand DEF ImportInv, Caller
<1>4. \A c \in Case : intake'[c] # intake[c] => CaseOf(p)' = c /\ call'[p].pc = "record"
  <2>1. CASE Insert(p) /\ ~Imported(CaseOf(p))
    <3>1. intake' = [intake EXCEPT ![CaseOf(p)] = [content |-> ContentOf(p), by |-> p]]
          /\ Go(p, "record")
      BY <2>1 DEF Insert
    <3>2. call'[p].pc = "record" /\ call'[p].at = call[p].at
      BY <1>1, <3>1 DEF Go, TypeOK, Call
    <3> QED BY <3>1, <3>2 DEF CaseOf, TypeOK
  <2>2. CASE ~(Insert(p) /\ ~Imported(CaseOf(p)))
    <3>1. UNCHANGED intake
      BY <2>2 DEF BeginImport, ImportStep, TakeLock, Select, Reject, Replay, Insert, RecordImport,
                  Unlock
    <3> QED BY <3>1
  <2> QED BY <2>1, <2>2
<1>5. call[p].pc \in {"record", "stopped"} =>
        [type |-> "imported", case |-> CaseOf(p), by |-> p] \in events'
  BY DEF BeginImport, ImportStep, TakeLock, Select, Reject, Replay, Insert, RecordImport, Unlock,
         Write
<1>6. RowsAreRecorded'
  BY <1>1, <1>4, <1>5, RowsKept DEF ImportInv
<1> QED BY <1>2, <1>3, <1>6 DEF ImportInv

LEMMA OtherStepStands ==
  ASSUME TypeOK, LocksFollowTheWork, ImportInv, NEW p \in Caller,
         p \in Importer => ImportStands(p)' /\ CaseOf(p)' = CaseOf(p)
                           /\ (call[p].pc \in {"record", "stopped"} => call'[p].pc = "stopped"),
         \A q \in Caller \ {p} : call'[q] = call[q],
         UNCHANGED intake, events \subseteq events', \A e \in events' : e \in events \/ e.by = p
  PROVE  ImportInv'
<1>1. Adds(p)
  BY DEF Adds
<1>2. \A q \in Importer : ImportStands(q)'
  BY <1>1, OthersStand DEF ImportInv, Caller
<1>3. RowsAreRecorded'
  BY <1>1, RowsKept DEF ImportInv
<1> QED BY <1>2, <1>3 DEF ImportInv

LEMMA ImportInvStep == TypeOK /\ LocksFollowTheWork /\ ImportInv /\ [Next]_vars => ImportInv'
<1> SUFFICES ASSUME TypeOK, LocksFollowTheWork, ImportInv, [Next]_vars PROVE ImportInv'
  OBVIOUS
<1>1. ASSUME NEW p \in Acceptor \cup Excluder,
             \/ Lookup(p) \/ Control(p)
             \/ p \in Acceptor /\ Accept(p)
             \/ p \in Excluder /\ Exclude(p)
      PROVE  ImportInv'
  <2>1. p \in Caller /\ p \notin Importer
    BY CallerAssumption, TargetType
  <2>2. events \subseteq events' /\ \A e \in events' : e \in events \/ e.by = p
    BY <1>1 DEF Lookup, Control, Accept, Exclude, Write
  <2> QED BY <1>1, <2>1, <2>2, DecisionKeeps, OtherStepStands
<1>2. ASSUME NEW r \in Reporter, ReadRecords(r) \/ ReadAccepted(r) \/ ReadExcluded(r)
      PROVE  ImportInv'
  BY <1>2, ReportKeeps, OtherStepStands
<1>3. ASSUME NEW p \in Caller, Stop(p)
      PROVE  ImportInv'
  <2>1. call[p] \in Call /\ call'[p] = [call[p] EXCEPT !.pc = "stopped"]
        /\ \A q \in Caller \ {p} : call'[q] = call[q]
    BY <1>3, StopKeeps DEF TypeOK
  <2>2. call'[p].pc = "stopped" /\ CaseOf(p)' = CaseOf(p)
    BY <2>1 DEF Call, CaseOf
  <2> QED BY <1>3, <2>1, <2>2, StopKeeps, ImportStops, OtherStepStands
<1>4. CASE UNCHANGED vars
  <2>1. \A q : call'[q] = call[q] /\ CaseOf(q)' = CaseOf(q) /\ ContentOf(q)' = ContentOf(q)
    BY <1>4 DEF vars, CaseOf, ContentOf
  <2>2. \A q, i : Traces(q, i)' = Traces(q, i)
    BY <1>4 DEF vars, Traces
  <2>3. \A q, i : (IsImported(q, i)' <=> IsImported(q, i)) /\ (NotStored(q, i)' <=> NotStored(q, i))
    BY <1>4, <2>2 DEF vars, IsImported, NotStored, Imported
  <2>4. ASSUME NEW q \in Importer PROVE ImportStands(q)'
    <3>1. CaseStands(q)'
      BY <1>4, <2>1, <2>2, <2>3 DEF vars, ImportInv, ImportStands, CaseStands, Imported
    <3>2. AnswerStands(q)'
      BY <1>4, <2>1, <2>2, <2>3 DEF vars, ImportInv, ImportStands, AnswerStands, Imported
    <3>3. DocumentStands(q)'
      BY <2>1, <2>3 DEF ImportInv, ImportStands, DocumentStands
    <3> QED BY <3>1, <3>2, <3>3 DEF ImportStands
  <2>5. RowsAreRecorded'
    BY <1>4, <2>1 DEF vars, ImportInv, RowsAreRecorded, Imported
  <2> QED BY <2>4, <2>5 DEF ImportInv
<1> QED BY <1>1, <1>2, <1>3, <1>4, ImportStepStands DEF Next

LEMMA ImportsFollow == TypeOK /\ ImportInv => ImportsAreTraced
<1> SUFFICES ASSUME TypeOK, ImportInv PROVE ImportsAreTraced
  OBVIOUS
<1>1. ASSUME NEW p \in Importer
      PROVE  /\ \A i \in DOMAIN Document[p] :
                  /\ i < call[p].at \/ call[p].answer = "imported" => IsImported(p, i)
                  /\ i > call[p].at => Traces(p, i) = {}
             /\ call[p].answer = "conflict" =>
                  /\ intake[CaseOf(p)].content # ContentOf(p)
                  /\ Traces(p, call[p].at) =
                       {[type |-> "rejected", case |-> CaseOf(p), by |-> p]}
             /\ call[p].answer # "unique_violation"
  <2>1. ImportStands(p) /\ call[p].at \in DOMAIN Document[p]
    BY CaseOfType DEF ImportInv
  <2>2. ASSUME NEW i \in DOMAIN Document[p], call[p].answer = "imported" PROVE IsImported(p, i)
    <3>1. call[p].at = Len(Document[p]) /\ IsImported(p, call[p].at)
      BY <2>1, <2>2 DEF ImportStands, AnswerStands
    <3>2. i < call[p].at \/ i = call[p].at
      BY <3>1, DocumentType
    <3> QED BY <2>1, <3>1, <3>2 DEF ImportStands, DocumentStands
  <2>3. call[p].answer # "unique_violation"
    BY <2>1, NoneAssumption DEF ImportStands, AnswerStands, Answer
  <2> QED BY <2>1, <2>2, <2>3 DEF ImportStands, AnswerStands, DocumentStands, NotStored
<1>2. \A c \in Case : Imported(c) =>
        LET p == intake[c].by
        IN \/ [type |-> "imported", case |-> c, by |-> p] \in events
           \/ CaseOf(p) = c /\ call[p].pc \in {"record", "stopped"}
  BY DEF ImportInv, RowsAreRecorded, Imported, TypeOK, Intake
<1> QED BY <1>1, <1>2 DEF ImportsAreTraced

\* However imports of overlapping documents interleave and die, what they have
\* stored, recorded and answered agrees, and the constraint stops no INSERT.
THEOREM TracedImports == Spec => []ImportsAreTraced
BY TypeInit, TypeStep, LocksInit, LocksStep, ImportInit, ImportInvStep, ImportsFollow, PTL
   DEF Spec

================================================================================
