------------------------ MODULE InvestigationRaceProofs ------------------------
(***************************************************************************)
(* Proofs about the races of Investigation, for any number of requests and *)
(* review calls: waiting for a lock, reading a run that others move, and   *)
(* replaying a log that is older than the run.  They are the safety part   *)
(* of what the runs check as liveness.                                     *)
(***************************************************************************)
EXTENDS InvestigationAuditProofs

--------------------------------------------------------------------------------
(* Locks *)

\* A lock is held by a request in the middle of that very call.
LocksOK ==
  \A at \in Caller \X Tool : \A p \in Caller :
    lock[at] = p => call[p].pc = "holding" /\ At(p) = at

LEMMA LocksOfActor ==
  ASSUME IInv, LocksOK, NEW p \in Caller, Acts(p), NEW at \in Caller \X Tool, lock'[at] = p
  PROVE  call'[p].pc = "holding" /\ At(p)' = at
<1>0. /\ lock \in [Caller \X Tool -> Caller \cup {None}] /\ p # None
      /\ call \in [Caller -> Call] /\ call[p] \in Call
  BY NoneIsNothingElse DEF IInv, TypeOK
<1>1. lock[at] # p
  <2> SUFFICES ASSUME lock[at] = p PROVE FALSE
    OBVIOUS
  <2>1. call[p].pc = "holding" /\ At(p) = at
    BY DEF LocksOK
  <2>2. ToolReturns(p) \/ Die(p) \/ LoseLock(p)
    BY <2>1, HoldersAct
  <2>3. CASE ToolReturns(p)
    <3>1. lock' = [lock EXCEPT ![at] = None]
      BY <2>1, <2>3 DEF ToolReturns
    <3> QED BY <1>0, <3>1
  <2>4. CASE Die(p) \/ LoseLock(p)
    BY <1>0, <2>4 DEF Die, LoseLock, FreedLocks
  <2> QED BY <2>2, <2>3, <2>4
<1>2. CASE ClaimTool(p)
  <2>1. /\ lock' = [lock EXCEPT ![At(p)] = p] /\ call' = [call EXCEPT ![p].pc = "holding"]
    BY <1>2 DEF ClaimTool
  <2>2. At(p) = at
    BY <1>0, <1>1, <2>1
  <2>3. call'[p] = [call[p] EXCEPT !.pc = "holding"]
    BY <1>0, <2>1
  <2>4. /\ call'[p].pc = "holding" /\ call'[p].run = call[p].run
        /\ call'[p].state = call[p].state /\ call'[p].next = call[p].next
    BY <1>0, <2>3 DEF Call
  <2> QED BY <2>2, <2>4 DEF At
<1>3. CASE ToolReturns(p)
  <2>1. lock' = lock \/ lock' = [lock EXCEPT ![At(p)] = None]
    BY <1>3 DEF ToolReturns
  <2> QED BY <1>0, <1>1, <2>1
<1>4. CASE Die(p) \/ LoseLock(p)
  BY <1>0, <1>1, <1>4 DEF Die, LoseLock, FreedLocks
<1>5. CASE Intake(p)
  BY <1>1, <1>5 DEF Intake, Find, Claim, Observe, RejectIntake
<1>6. CASE Transition(p)
  BY <1>1, <1>6 DEF Transition, Advance, Conflict, ReadForRejection, RejectControl, Reload
<1>7. CASE ReuseResult(p) \/ RefuseRetry(p)
  BY <1>1, <1>7 DEF ReuseResult, RefuseRetry
<1> QED BY <1>2, <1>3, <1>4, <1>5, <1>6, <1>7 DEF Acts, Step, UseTool

LEMMA LocksStep ==
  ASSUME IInv, LocksOK, [Next]_vars
  PROVE  LocksOK'
<1> SUFFICES ASSUME NEW at \in Caller \X Tool, NEW p \in Caller, lock'[at] = p
             PROVE  call'[p].pc = "holding" /\ At(p)' = at
  BY DEF LocksOK
<1>1. CASE call' = call /\ lock' = lock
  BY <1>1 DEF LocksOK, At
<1>2. CASE Acts(p)
  BY <1>2, LocksOfActor
<1>3. ASSUME NEW q \in Caller, q # p, Acts(q) PROVE call'[p].pc = "holding" /\ At(p)' = at
  <2>1. lock[at] = p
    BY <1>3, LocksStay
  <2>2. call'[p] = call[p]
    BY <1>3, OthersStay DEF IInv
  <2> QED BY <2>1, <2>2 DEF LocksOK, At
<1> QED BY <1>1, <1>2, <1>3, WhoActs

\* WaitsForTheOwner: pg_advisory_lock makes a request wait only for one that is in
\* the middle of the tool call it waits for and that holds no other request up, so
\* there is no deadlock, and a dead request is not waited for.
THEOREM LocksAreHeldByOwners == Spec => []WaitsForTheOwner
<1>1. Init => LocksOK
  BY NoneIsNothingElse DEF Init, LocksOK
<1>2. IInv /\ LocksOK => WaitsForTheOwner
  <2> SUFFICES ASSUME IInv, LocksOK, NEW p \in Caller,
                      call[p].pc = "resume", ToolsLeft(p), ~LockFree(At(p))
               PROVE  \E q \in Caller \ {p} :
                        /\ lock[At(p)] = q /\ call[q].pc = "holding" /\ At(q) = At(p)
                        /\ tool[At(p)].status = "started"
    BY DEF WaitsForTheOwner
  <2>1. At(p) \in Caller \X Tool
    BY PlaceOfCall DEF IInv, CallsOK, CallOK
  <2>2. lock[At(p)] \in Caller
    BY <2>1 DEF LockFree, IInv, TypeOK
  <2>3. PICK q \in Caller : lock[At(p)] = q
    BY <2>2
  <2>4. call[q].pc = "holding" /\ At(q) = At(p)
    BY <2>1, <2>3 DEF LocksOK
  <2>5. tool[At(p)].status = "started"
    BY <2>4 DEF IInv, HoldersOK
  <2> QED BY <2>3, <2>4, <2>5
<1> QED BY <1>1, <1>2, LocksStep, Inductive, PTL DEF Spec

--------------------------------------------------------------------------------
(* Stages and versions *)

LEMMA StageIs == ASSUME NEW state PROVE Stage(state) \in 0..8
BY DEF Stage

\* A transition raises the stage.
LEMMA StageRises ==
  ASSUME NEW c \in Call, c.state \in Working
  PROVE  Stage(c.state) < Stage(Target(c)) /\ Target(c) # c.state
<1>1. Target(c) \in {Forward[c.state], "escalated"}
  BY DEF Target
<1>2. CASE Target(c) = "escalated"
  BY <1>2 DEF Working, Stage
<1>3. CASE Target(c) = Forward[c.state]
  <2>1. /\ c.state = "created" => Target(c) = "validating"
        /\ c.state = "validating" => Target(c) = "gathering_evidence"
        /\ c.state = "gathering_evidence" => Target(c) = "quality_checks"
        /\ c.state = "quality_checks" => Target(c) = "reasoning"
        /\ c.state = "reasoning" => Target(c) = "drafting_recommendation"
        /\ c.state = "drafting_recommendation" => Target(c) = "awaiting_human"
    BY <1>3 DEF Forward
  <2> QED BY <2>1 DEF Working, Stage
<1> QED BY <1>1, <1>2, <1>3

\* A run has no more versions than stages.
StagedRun(r) == run[r].version <= Stage(run[r].state)

\* What a step does to the version of a run.
LEMMA VersionStep ==
  ASSUME IInv, ReviewsRead, [Next]_vars, NEW r \in Caller
  PROVE  /\ StagedRun(r) => StagedRun(r)'
         /\ Exists(r) => \/ run'[r].version = run[r].version /\ run'[r].state = run[r].state
                         \/ run[r].version < run'[r].version
<1>0. run[r].version \in Nat
  BY RunFields DEF IInv
<1>1. CASE Keeps(r) \/ Rejects(r)
  BY <1>1 DEF Keeps, Rejects, StagedRun
<1>2. CASE Begins(r)
  BY <1>2 DEF Begins, StagedRun, Stage
<1>3. CASE Decides(r)
  <2>1. Stage("awaiting_human") = 6 /\ Stage("closed") = 8
    BY DEF Stage
  <2> QED BY <1>0, <1>3, <2>1 DEF Decides, StagedRun
<1>4. ASSUME NEW p \in Caller, Advances(r, call[p])
      PROVE  /\ StagedRun(r) => StagedRun(r)'
             /\ run[r].version < run'[r].version
  <2>1. /\ call[p].state \in Working /\ run[r].state = call[p].state
        /\ run'[r].state = Target(call[p]) /\ run'[r].version = run[r].version + 1
    BY <1>4 DEF Advances
  <2>2. Stage(call[p].state) < Stage(Target(call[p]))
    BY <2>1, StageRises DEF IInv, TypeOK
  <2> QED BY <1>0, <2>1, <2>2, StageIs DEF StagedRun
<1> QED BY <1>1, <1>2, <1>3, <1>4, LogStep DEF LogWrite

\* What a request has read of its run.
ReadIs(p, r, version, state) ==
  call[p].run = r /\ call[p].version = version /\ call[p].state = state

\* A step of p leaves what it has read, or reads its run anew.
LEMMA ReadStep ==
  ASSUME IInv, [Next]_vars, NEW p \in Caller, call'[p].run # None
  PROVE  \/ /\ call'[p].run = call[p].run /\ call'[p].version = call[p].version
            /\ call'[p].state = call[p].state
            /\ call'[p].pc = "conflict" => call[p].pc = "conflict" \/ Conflict(p)
         \/ /\ call'[p].version = run'[call'[p].run].version
            /\ call'[p].state = run'[call'[p].run].state /\ call'[p].pc # "conflict"
<1>0. call \in [Caller -> Call] /\ call[p] \in Call /\ CallOK(p, call[p]) /\ TypeOK
  BY DEF IInv, TypeOK, CallsOK
<1> DEFINE Left == /\ call'[p].run = call[p].run /\ call'[p].version = call[p].version
                   /\ call'[p].state = call[p].state
                   /\ call'[p].pc = "conflict" => call[p].pc = "conflict" \/ Conflict(p)
           Anew == /\ call'[p].version = run'[call'[p].run].version
                   /\ call'[p].state = run'[call'[p].run].state /\ call'[p].pc # "conflict"
<1>1. CASE call'[p] = call[p]
  BY <1>1
\* Actions that change where the request stands, but not what it has read.
<1>2. ASSUME NEW pc, call' = [call EXCEPT ![p].pc = pc], pc = "conflict" => Conflict(p)
      PROVE  Left
  <2>1. call'[p] = [call[p] EXCEPT !.pc = pc]
    BY <1>0, <1>2
  <2>2. /\ call'[p].pc = pc /\ call'[p].run = call[p].run
        /\ call'[p].version = call[p].version /\ call'[p].state = call[p].state
    BY <1>0, <2>1 DEF Call
  <2> QED BY <1>2, <2>2
<1>3. ASSUME NEW pc, NEW r, pc # "conflict", NEW version, NEW state,
             run'[r].version = version, run'[r].state = state,
             call' = [call EXCEPT ![p] = [pc |-> pc, run |-> r, state |-> state,
                                          version |-> version, next |-> 1, code |-> None]]
      PROVE  Anew
  <2>1. call'[p] = [pc |-> pc, run |-> r, state |-> state,
                    version |-> version, next |-> 1, code |-> None]
    BY <1>0, <1>3
  <2> QED BY <1>3, <2>1
<1>4. CASE Find(p) \/ RejectIntake(p) \/ ClaimTool(p) \/ Conflict(p) \/ RejectControl(p) \/ Die(p)
  <2>1. PICK pc : call' = [call EXCEPT ![p].pc = pc] /\ (pc = "conflict" => Conflict(p))
    BY <1>4 DEF Find, RejectIntake, ClaimTool, Conflict, RejectControl, Die
  <2> QED BY <1>2, <2>1
<1>5. CASE ReuseResult(p) \/ RefuseRetry(p) \/ ToolReturns(p)
  <2>1. CASE ReuseResult(p)
    <3>1. call'[p] = [call[p] EXCEPT !.next = call[p].next + 1]
      BY <1>0, <2>1 DEF ReuseResult
    <3> QED BY <1>0, <3>1 DEF Call
  <2>2. CASE RefuseRetry(p)
    <3>1. PICK code : call'[p] = [call[p] EXCEPT !.code = code]
      BY <1>0, <2>2 DEF RefuseRetry
    <3> QED BY <1>0, <3>1 DEF Call
  <2>3. CASE ToolReturns(p)
    <3>1. \/ call'[p] = [call[p] EXCEPT !.pc = "resume", !.code = "TOOL_FAILED"]
          \/ call'[p] = [call[p] EXCEPT !.pc = "resume", !.next = call[p].next + 1]
          \/ call'[p] = [call[p] EXCEPT !.pc = "failed"]
      BY <1>0, <2>3 DEF ToolReturns
    <3> QED BY <1>0, <3>1 DEF Call
  <2> QED BY <1>5, <2>1, <2>2, <2>3
<1>6. CASE Observe(p)
  <2> DEFINE r == idem[KeyOf[p]]
  <2>1. PICK pc \in {"resume", "done", "mismatch"} :
          call' = [call EXCEPT ![p] = [pc |-> pc, run |-> r, state |-> run[r].state,
                                       version |-> run[r].version, next |-> 1, code |-> None]]
    BY <1>6 DEF Observe, View, Resumed
  <2>2. run' = run
    BY <1>6 DEF Observe
  <2> QED BY <1>3, <2>1, <2>2
<1>7. CASE ReadForRejection(p) \/ Reload(p)
  <2> DEFINE r == call[p].run
  <2>1. PICK pc \in {"rejecting", "resume", "done"} :
          call' = [call EXCEPT ![p] = [pc |-> pc, run |-> r, state |-> run[r].state,
                                       version |-> run[r].version, next |-> 1, code |-> None]]
    BY <1>7 DEF ReadForRejection, Reload, View, Resumed
  <2>2. run' = run
    BY <1>7 DEF ReadForRejection, Reload
  <2> QED BY <1>3, <2>1, <2>2
<1>8. CASE Claim(p)
  <2>1. PICK mode \in Mode :
          LET row == [NoRun EXCEPT !.state = "created", !.mode = mode]
          IN run' = [run EXCEPT ![p] = row] /\ call' = View(p, p, row, "resume")
    BY <1>8 DEF Claim
  <2> DEFINE row == [NoRun EXCEPT !.state = "created", !.mode = mode]
  <2>2. run' = [run EXCEPT ![p] = row] /\ call' = View(p, p, row, "resume")
    BY <2>1
  <2> HIDE DEF row
  <2>3. run'[p] = row
    BY <1>0, <2>2 DEF TypeOK
  <2> QED BY <1>3, <2>2, <2>3 DEF View
<1>9. CASE Advance(p)
  <2> DEFINE r == call[p].run
             row == Moved(run[r], call[p])
  <2>1. run' = [run EXCEPT ![r] = row] /\ call' = View(p, r, row, Resumed(row.state))
    BY <1>9 DEF Advance
  <2>2. r \in Caller
    BY <1>0, <1>9, CallFields DEF CallOK, Advance, Ready
  <2> HIDE DEF row
  <2>3. run'[r] = row
    BY <1>0, <2>1, <2>2 DEF TypeOK
  <2>4. PICK pc \in {"resume", "done"} : pc = Resumed(row.state)
    BY DEF Resumed
  <2> QED BY <1>3, <2>1, <2>3, <2>4 DEF View
<1>10. CASE LoseLock(p)
  BY <1>1, <1>10 DEF LoseLock
<1>11. CASE ~Acts(p)
  BY <1>0, <1>1, <1>11, WhoActs, OthersStay
<1> QED BY <1>4, <1>5, <1>6, <1>7, <1>8, <1>9, <1>10, <1>11
        DEF Acts, Step, Intake, UseTool, Transition

\* A request never knows more of its run than there is to know, and what it knows
\* of the current version is right.
ReadOK(p) ==
  call[p].run # None =>
    LET row == run[call[p].run]
    IN /\ call[p].version <= row.version
       /\ call[p].version = row.version => call[p].state = row.state
       /\ call[p].pc = "conflict" => call[p].version < row.version

CInv == \A p \in Caller : StagedRun(p) /\ ReadOK(p)

LEMMA ReadOKStep ==
  ASSUME IInv, ReviewsRead, CInv, [Next]_vars, NEW p \in Caller
  PROVE  ReadOK(p)'
<1> SUFFICES ASSUME call'[p].run # None PROVE ReadOK(p)'
  BY DEF ReadOK
<1>0. IInv'
  BY NextKeeps
<1>1. PICK r \in Caller : call'[p].run = r
  BY <1>0 DEF IInv, TypeOK, Call
<1>2. run'[r].version \in Nat
  BY <1>0 DEF IInv, TypeOK, RunRow
<1>3. CASE /\ call'[p].run = call[p].run /\ call'[p].version = call[p].version
           /\ call'[p].state = call[p].state
           /\ call'[p].pc = "conflict" => call[p].pc = "conflict" \/ Conflict(p)
  <2>1. /\ call[p].run = r /\ Exists(r) /\ r # None
        /\ call[p].version \in Nat /\ run[r].version \in Nat
    BY <1>1, <1>3, CallFields, RunFields DEF IInv, CallsOK, CallOK
  <2>2. /\ call[p].version <= run[r].version
        /\ call[p].version = run[r].version => call[p].state = run[r].state
        /\ call[p].pc = "conflict" => call[p].version < run[r].version
    BY <2>1 DEF CInv, ReadOK
  <2>3. Conflict(p) => call[p].version < run[r].version
    <3>1. Conflict(p) => run[r].state # call[p].state \/ run[r].version # call[p].version
      BY <2>1 DEF Conflict, UnchangedSince
    <3> QED BY <2>1, <2>2, <3>1
  <2>4. \/ run'[r].version = run[r].version /\ run'[r].state = run[r].state
        \/ run[r].version < run'[r].version
    BY <2>1, VersionStep
  <2>5. /\ call'[p].version <= run'[r].version
        /\ call'[p].version = run'[r].version => call'[p].state = run'[r].state
        /\ call'[p].pc = "conflict" => call'[p].version < run'[r].version
    BY <1>2, <1>3, <2>1, <2>2, <2>3, <2>4
  <2> QED BY <1>1, <2>5 DEF ReadOK
<1>4. CASE /\ call'[p].version = run'[call'[p].run].version
           /\ call'[p].state = run'[call'[p].run].state /\ call'[p].pc # "conflict"
  BY <1>1, <1>2, <1>4 DEF ReadOK
<1> QED BY <1>3, <1>4, ReadStep

LEMMA CInvHolds == Spec => [](IInv /\ HInv /\ CInv)
<1>1. Init => CInv
  <2> SUFFICES ASSUME Init, NEW p \in Caller PROVE StagedRun(p) /\ ReadOK(p)
    BY DEF CInv
  <2>1. run[p].version = 0
    BY DEF Init, NoRun
  <2>2. call[p].run = None
    BY DEF Init, NewCall
  <2> QED BY <2>1, <2>2, StageIs DEF StagedRun, ReadOK
<1>2. IInv /\ HInv /\ CInv /\ [Next]_vars => CInv'
  BY VersionStep, ReadOKStep DEF HInv, CInv
<1> QED BY <1>1, <1>2, SecondInductive, PTL DEF Spec

\* ConflictsArePassing: the compare-and-set of transition fails only because the run
\* has moved since it was read, and the run can move no more often than it has
\* stages: the loop of conflicts and reloads in _resume_step is bounded.
THEOREM ConflictsPass == Spec => []ConflictsArePassing
<1>1. IInv /\ CInv => ConflictsArePassing
  <2> SUFFICES ASSUME IInv, CInv, NEW p \in Caller, call[p].run # None
               PROVE  LET row == run[call[p].run]
                      IN /\ call[p].version <= row.version /\ row.version <= Stage(row.state)
                         /\ call[p].version = row.version => call[p].state = row.state
                         /\ call[p].pc = "conflict" => call[p].version < row.version
    BY DEF ConflictsArePassing
  <2>1. call[p].run \in Caller
    BY CallFields DEF IInv
  <2> QED BY <2>1 DEF CInv, ReadOK, StagedRun
<1> QED BY <1>1, CInvHolds, PTL

--------------------------------------------------------------------------------
(* Old logs *)

Behind(h, state) ==
  \A i \in CountedIn(h) : h[i].to = state \/ Stage(h[i].to) < Stage(state)

\* What an appended transition leaves behind.
LEMMA BehindAppended ==
  ASSUME NEW h \in Seq(Event), NEW e \in Event, NEW state, Behind(h, state),
         Stage(state) < Stage(e.to)
  PROVE  Behind(Append(h, e), e.to)
<1> DEFINE g == Append(h, e)
           n == Len(h) + 1
<1>1. /\ CountedIn(h) \subseteq 1..Len(h) /\ CountedIn(g) \subseteq CountedIn(h) \cup {n}
      /\ \A k \in 1..Len(h) : g[k] = h[k]
      /\ g[n] = e
  BY CountedAppended
<1> HIDE DEF g, n
<1>2. ASSUME NEW i \in CountedIn(g) PROVE g[i].to = e.to \/ Stage(g[i].to) < Stage(e.to)
  <2>1. CASE i = n
    BY <1>1, <2>1
  <2>2. CASE i \in CountedIn(h)
    <3>1. g[i] = h[i] /\ (h[i].to = state \/ Stage(h[i].to) < Stage(state))
      BY <1>1, <2>2 DEF Behind
    <3>2. /\ Stage(h[i].to) \in 0..8 /\ Stage(state) \in 0..8 /\ Stage(e.to) \in 0..8
      BY StageIs
    <3> QED BY <3>1, <3>2
  <2> QED BY <1>1, <2>1, <2>2
<1> QED BY <1>2 DEF Behind, g

LEMMA BehindStep ==
  ASSUME IInv, HInv, PInv, [Next]_vars, NEW r \in Caller, Behind(log[r], run[r].state)
  PROVE  Behind(log'[r], run'[r].state)
<1>0. log[r] \in Seq(Event) /\ PathOf(r) /\ TypeOK
  BY DEF IInv, TypeOK, PInv
<1>1. CASE Keeps(r)
  BY <1>1 DEF Keeps
<1>2. CASE Rejects(r)
  <2>1. PICK e \in Event : /\ e.from = e.to /\ log'[r] = Append(log[r], e) /\ run'[r] = run[r]
    <3>1. PICK s \in RunState : log'[r] = Append(log[r], [from |-> s, to |-> s, code |-> None])
      BY <1>2 DEF Rejects
    <3>2. [from |-> s, to |-> s, code |-> None] \in Event
      BY DEF Event
    <3> QED BY <1>2, <3>1, <3>2 DEF Rejects
  <2>2. /\ CountedIn(log[r]) \subseteq 1..Len(log[r])
        /\ CountedIn(Append(log[r], e)) = CountedIn(log[r])
        /\ \A k \in 1..Len(log[r]) : Append(log[r], e)[k] = log[r][k]
    <3>1. /\ CountedIn(log[r]) \subseteq 1..Len(log[r])
          /\ CountedIn(Append(log[r], e)) =
               CountedIn(log[r]) \cup {i \in {Len(log[r]) + 1} : CountsInReplay(e)}
          /\ \A k \in 1..Len(log[r]) : Append(log[r], e)[k] = log[r][k]
      BY <1>0, CountedAppended
    <3>2. ~CountsInReplay(e)
      BY <2>1 DEF CountsInReplay
    <3> QED BY <3>1, <3>2
  <2> QED BY <2>1, <2>2 DEF Behind
<1>3. CASE Begins(r)
  <2> DEFINE e == [from |-> None, to |-> "created", code |-> None]
  <2>1. log'[r] = Append(<<>>, e) /\ run'[r].state = "created"
    BY <1>0, <1>3 DEF Begins, PathOf
  <2>2. e \in Event /\ e.to = "created"
    BY DEF Event, RunState
  <2> HIDE DEF e
  <2>3. DOMAIN Append(<<>>, e) = {1} /\ Append(<<>>, e)[1] = e
    OBVIOUS
  <2> QED BY <2>1, <2>2, <2>3 DEF Behind, CountedIn
<1>4. ASSUME NEW p \in Caller, Advances(r, call[p]) PROVE Behind(log'[r], run'[r].state)
  <2> DEFINE c == call[p]
             e == [from |-> c.state, to |-> Target(c), code |-> Stop(c)]
  <2>1. /\ c.run = r /\ c.state \in Working /\ run[r].state = c.state
        /\ run'[r].state = Target(c) /\ log'[r] = Append(log[r], e)
    BY <1>4 DEF Advances
  <2>2. c \in Call /\ Target(c) \in RunState /\ Stop(c) \in Code \cup {None}
    BY <1>0, <2>1, CallFields, TargetOfTransition
  <2>3. e \in Event /\ e.to = Target(c)
    BY <2>1, <2>2 DEF Event, Working, RunState
  <2>4. Stage(c.state) < Stage(Target(c))
    BY <2>1, <2>2, StageRises
  <2> HIDE DEF c, e
  <2> QED BY <1>0, <2>1, <2>3, <2>4, BehindAppended
<1>5. CASE Decides(r)
  <2>1. PICK s \in {"approved", "edited_and_approved", "rejected", "escalated"} :
          log'[r] = Append(Append(log[r], [from |-> "awaiting_human", to |-> s, code |-> None]),
                           [from |-> s, to |-> "closed", code |-> None])
    BY <1>5 DEF Decides
  <2> DEFINE e1 == [from |-> "awaiting_human", to |-> s, code |-> None]
             e2 == [from |-> s, to |-> "closed", code |-> None]
  <2>2. e1 \in Event /\ e2 \in Event /\ e1.to = s /\ e2.to = "closed"
    BY DEF Event, RunState
  <2>3. Stage("awaiting_human") = 6 /\ Stage(s) = 7 /\ Stage("closed") = 8
    BY DEF Stage
  <2>4. /\ log'[r] = Append(Append(log[r], e1), e2)
        /\ run[r].state = "awaiting_human" /\ run'[r].state = "closed"
    BY <1>5, <2>1 DEF Decides
  <2> HIDE DEF e1, e2
  <2>5. Behind(Append(log[r], e1), s)
    BY <1>0, <2>2, <2>3, <2>4, BehindAppended
  <2>6. PICK h \in Seq(Event) : h = Append(log[r], e1)
    <3>1. Append(log[r], e1) \in Seq(Event)
      BY <1>0, <2>2
    <3> QED BY <3>1
  <2>7. Behind(Append(h, e2), e2.to)
    <3>1. Behind(h, s) /\ Stage(s) < Stage(e2.to)
      BY <2>2, <2>3, <2>5, <2>6
    <3> QED BY <2>2, <2>6, <3>1, BehindAppended
  <2> QED BY <2>2, <2>4, <2>6, <2>7
<1> QED BY <1>1, <1>2, <1>3, <1>4, <1>5, LogStep DEF LogWrite, HInv

\* ReportsNeverRunAhead: every state the append-only log can replay to is the state
\* of the run or one it has left for good, so the report of audit(), which lists the
\* events before it reads the run, may lag behind the run but never contradicts it.
THEOREM ReportsLag == Spec => []ReportsNeverRunAhead
<1> DEFINE BInv == \A r \in Caller : Behind(log[r], run[r].state)
<1>1. Init => PInv /\ BInv
  BY DEF Init, NoRun, PInv, PathOf, Exists, Behind, CountedIn
<1>2. IInv /\ HInv /\ PInv /\ BInv /\ [Next]_vars => PInv' /\ BInv'
  BY PathStep, BehindStep DEF PInv
<1>3. BInv => ReportsNeverRunAhead
  BY DEF ReportsNeverRunAhead, Counted, CountedIn, Behind
<1> QED BY <1>1, <1>2, <1>3, SecondInductive, PTL DEF Spec

\* However requests and reviews move a run, what _resume and audit() have read of it
\* is its present or its past.
THEOREM ReadersLag == Spec => []NobodyReadsAhead
<1>1. ConflictsArePassing /\ ReportsNeverRunAhead => NobodyReadsAhead
  BY DEF NobodyReadsAhead
<1> QED BY <1>1, ConflictsPass, ReportsLag, PTL

--------------------------------------------------------------------------------
(* How far a request is *)

\* How far the request with the record c has come: first along the versions of its
\* run, then, at one version, from a rejection and a reload through the tools to the
\* transition or the conflict.
Progress(c) ==
  LET at(place) == 2 + 12 * c.version + place
  IN CASE c.pc = "idle" -> 0
       [] c.pc = "claim" -> 1
       [] c.pc = "mismatch" -> 2
       [] c.pc = "rejecting" -> at(0)
       [] c.pc = "reload" -> at(1)
       [] c.pc = "resume" /\ c.code = None -> at(2 * c.next)
       [] c.pc = "holding" -> at(2 * c.next + 1)
       [] c.pc = "resume" /\ c.code # None -> at(10)
       [] c.pc = "conflict" -> at(11)
       [] OTHER -> 110

\* A request that works on a run.
AtWork(c) == c.pc \in {"rejecting", "reload", "resume", "holding", "conflict"}

LEMMA ProgressIs ==
  ASSUME NEW c \in Call
  PROVE  /\ c.pc = "idle" => Progress(c) = 0
         /\ c.pc = "claim" => Progress(c) = 1
         /\ c.pc = "mismatch" => Progress(c) = 2
         /\ c.pc \in Ended => Progress(c) = 110
         /\ c.pc = "rejecting" => Progress(c) = 2 + 12 * c.version
         /\ c.pc = "reload" => Progress(c) = 3 + 12 * c.version
         /\ c.pc = "resume" /\ c.code = None => Progress(c) = 2 + 12 * c.version + 2 * c.next
         /\ c.pc = "holding" => Progress(c) = 3 + 12 * c.version + 2 * c.next
         /\ c.pc = "resume" /\ c.code # None => Progress(c) = 12 + 12 * c.version
         /\ c.pc = "conflict" => Progress(c) = 13 + 12 * c.version
<1>1. c.version \in Nat /\ c.next \in 1..4
  BY DEF Call
<1> QED BY <1>1 DEF Progress, Ended

LEMMA ProgressWithin ==
  ASSUME NEW c \in Call, AtWork(c) => c.version <= 8
  PROVE  /\ Progress(c) \in 0..110
         /\ c.pc \notin Ended => Progress(c) < 110
         /\ AtWork(c) => 2 + 12 * c.version <= Progress(c) /\ Progress(c) < 14 + 12 * c.version
                         /\ 2 < Progress(c) + 1
<1>1. c.version \in Nat /\ c.next \in 1..4
  BY DEF Call
<1>2. AtWork(c) => Progress(c) \in (2 + 12 * c.version)..(13 + 12 * c.version)
  BY <1>1, ProgressIs DEF AtWork
<1>3. c.pc \in Ended \cup {"idle", "claim", "mismatch"} => Progress(c) \in {0, 1, 2, 110}
  BY ProgressIs
<1>4. ~AtWork(c) => c.pc \in Ended \cup {"idle", "claim", "mismatch"}
  BY DEF AtWork, Ended, Call
<1>5. c.pc \notin Ended => Progress(c) < 110 /\ Progress(c) \in Nat
  <2>1. CASE AtWork(c)
    BY <1>1, <1>2, <2>1
  <2>2. CASE c.pc \in {"idle", "claim", "mismatch"}
    BY <2>2, ProgressIs
  <2> QED BY <1>4, <2>1, <2>2
<1> QED BY <1>1, <1>2, <1>5, ProgressIs

\* Nobody has read a version beyond the eighth.
FewVersions == \A p \in Caller : AtWork(call[p]) => call[p].version <= 8

LEMMA VersionsEnd == IInv /\ CInv => FewVersions
<1> SUFFICES ASSUME IInv, CInv, NEW p \in Caller, AtWork(call[p]) PROVE call[p].version <= 8
  BY DEF FewVersions
<1>1. call[p].run \in Caller /\ call[p].run # None /\ call[p].version \in Nat
  BY CallFields DEF IInv, CallsOK, CallOK, AtWork
<1> DEFINE r == call[p].run
<1>2. /\ call[p].version <= run[r].version /\ run[r].version <= Stage(run[r].state)
      /\ run[r].version \in Nat /\ Stage(run[r].state) \in 0..8
  BY <1>1, RunFields, StageIs DEF CInv, ReadOK, StagedRun, IInv
<1> QED BY <1>1, <1>2

\* What the assignments to one call leave of its record.
LEMMA OnlyPc ==
  ASSUME TypeOK, NEW p \in Caller, NEW pc, call' = [call EXCEPT ![p].pc = pc]
  PROVE  /\ call'[p].pc = pc /\ call'[p].version = call[p].version
         /\ call'[p].next = call[p].next /\ call'[p].code = call[p].code
<1>1. call'[p] = [call[p] EXCEPT !.pc = pc] /\ call[p] \in Call
  BY DEF TypeOK
<1>2. \A c \in Call : LET d == [c EXCEPT !.pc = pc]
                      IN d.pc = pc /\ d.version = c.version /\ d.next = c.next /\ d.code = c.code
  BY DEF Call
<1> QED BY <1>1, <1>2

LEMMA Viewed ==
  ASSUME TypeOK, NEW p \in Caller, NEW pc, NEW r, NEW row, call' = View(p, r, row, pc)
  PROVE  /\ call'[p].pc = pc /\ call'[p].version = row.version
         /\ call'[p].next = 1 /\ call'[p].code = None
BY DEF TypeOK, View

\* A transition raises the version its request has read by one.
LEMMA AdvancedRow ==
  ASSUME IInv, NEW p \in Caller, Advance(p)
  PROVE  \E r, row : \E pc \in {"resume", "done"} :
           call' = View(p, r, row, pc) /\ row.version = call[p].version + 1
<1> DEFINE r == call[p].run
           row == Moved(run[r], call[p])
<1>1. /\ call' = View(p, r, row, Resumed(row.state)) /\ call[p].pc = "resume"
      /\ run[r].version = call[p].version
  BY DEF Advance, Ready, UnchangedSince
<1>2. r \in Caller /\ run[r] \in RunRow
  BY <1>1, CallFields, RunFields DEF IInv, CallsOK, CallOK
<1>3. row.version = run[r].version + 1
  BY <1>2 DEF Moved, RunRow
<1>4. Resumed(row.state) \in {"resume", "done"}
  BY DEF Resumed
<1> HIDE DEF r, row
<1> QED BY <1>1, <1>3, <1>4

\* What a request has read is behind its row, and truly so once it met a conflict.
LEMMA ReadBehind ==
  ASSUME IInv, CInv, NEW p \in Caller, call[p].pc \in {"conflict", "reload"}
  PROVE  /\ call[p].version <= run[call[p].run].version
         /\ call[p].pc = "conflict" => call[p].version < run[call[p].run].version
<1>1. call[p].run # None
  BY DEF IInv, CallsOK, CallOK
<1>2. ReadOK(p)
  BY DEF CInv
<1> QED BY <1>1, <1>2 DEF ReadOK

\* A step of a request brings it forward.
LEMMA StepAdvances ==
  ASSUME IInv, CInv, FewVersions, IInv', FewVersions', NEW p \in Caller, Step(p)
  PROVE  Progress(call[p]) < Progress(call'[p])
<1> DEFINE c == call[p]
           d == call'[p]
<1>0. c \in Call /\ d \in Call /\ TypeOK
  BY DEF IInv, TypeOK
<1>1. /\ c.version \in Nat /\ d.version \in Nat /\ c.next \in 1..4 /\ d.next \in 1..4
  BY <1>0 DEF Call
<1>2. AtWork(c) => c.version <= 8
  BY DEF FewVersions
<1>3. AtWork(d) => d.version <= 8
  BY DEF FewVersions
<1>4. c.pc \notin Ended /\ d.pc \in Ended => Progress(c) < Progress(d)
  BY <1>0, <1>2, ProgressIs, ProgressWithin
<1>5. CASE Find(p)
  <2>1. c.pc = "idle" /\ d.pc = "claim"
    BY <1>0, <1>5, OnlyPc DEF Find
  <2> QED BY <1>0, <2>1, ProgressIs
<1>6. CASE Claim(p)
  <2>1. PICK row : call' = View(p, p, row, "resume")
    BY <1>6 DEF Claim
  <2>2. c.pc = "claim" /\ d.pc = "resume" /\ d.next = 1 /\ d.code = None
    BY <1>0, <1>6, <2>1, Viewed DEF Claim
  <2>3. Progress(c) = 1 /\ Progress(d) = 2 + 12 * d.version + 2 * d.next
    BY <1>0, <2>2, ProgressIs
  <2> QED BY <1>1, <2>2, <2>3
<1>7. CASE Observe(p)
  <2>1. PICK r, row, pc : pc \in {"resume", "done", "mismatch"} /\ call' = View(p, r, row, pc)
    BY <1>7 DEF Observe, Resumed
  <2>2. c.pc \in {"idle", "claim"} /\ d.pc \in {"resume", "done", "mismatch"}
        /\ d.next = 1 /\ d.code = None
    <3>1. c.pc \in {"idle", "claim"}
      BY <1>7 DEF Observe
    <3>2. d.pc = pc /\ d.next = 1 /\ d.code = None
      BY <1>0, <2>1, Viewed
    <3> QED BY <2>1, <3>1, <3>2
  <2>3. Progress(c) \in {0, 1}
    BY <1>0, <2>2, ProgressIs
  <2>4. Progress(d) = 2 \/ Progress(d) = 110 \/ Progress(d) = 2 + 12 * d.version + 2 * d.next
    BY <1>0, <2>2, ProgressIs DEF Ended
  <2> QED BY <1>1, <2>2, <2>3, <2>4
<1>8. CASE RejectIntake(p)
  <2>1. c.pc = "mismatch" /\ d.pc = "rejected"
    BY <1>0, <1>8, OnlyPc DEF RejectIntake
  <2> QED BY <1>4, <2>1 DEF Ended
<1>9. CASE ClaimTool(p)
  <2>1. /\ c.pc = "resume" /\ c.code = None
        /\ d.pc = "holding" /\ d.version = c.version /\ d.next = c.next
    BY <1>0, <1>9, OnlyPc DEF ClaimTool, ToolsLeft
  <2>2. Progress(c) = 2 + 12 * c.version + 2 * c.next /\ Progress(d) = 3 + 12 * d.version + 2 * d.next
    BY <1>0, <2>1, ProgressIs
  <2> QED BY <1>1, <2>1, <2>2
<1>10. CASE ReuseResult(p)
  <2>1. d = [c EXCEPT !.next = c.next + 1] /\ c.pc = "resume" /\ c.code = None
    BY <1>0, <1>10 DEF ReuseResult, TypeOK, ToolsLeft
  <2>2. d.pc = "resume" /\ d.code = None /\ d.version = c.version /\ d.next = c.next + 1
    BY <1>0, <2>1 DEF Call
  <2>3. Progress(c) = 2 + 12 * c.version + 2 * c.next /\ Progress(d) = 2 + 12 * d.version + 2 * d.next
    BY <1>0, <2>1, <2>2, ProgressIs
  <2> QED BY <1>1, <2>2, <2>3
<1>11. CASE RefuseRetry(p)
  <2>1. PICK code \in Code : d = [c EXCEPT !.code = code] /\ c.pc = "resume" /\ c.code = None
    BY <1>0, <1>11 DEF RefuseRetry, TypeOK, ToolsLeft, Code
  <2>2. d.pc = "resume" /\ d.code # None /\ d.version = c.version
    BY <1>0, <2>1, NoneIsNothingElse DEF Call
  <2>3. Progress(c) = 2 + 12 * c.version + 2 * c.next /\ Progress(d) = 12 + 12 * d.version
    BY <1>0, <2>1, <2>2, ProgressIs
  <2> QED BY <1>1, <2>2, <2>3
<1>12. CASE ToolReturns(p)
  <2>1. /\ c.pc = "holding"
        /\ \/ d = [c EXCEPT !.pc = "resume", !.code = "TOOL_FAILED"]
           \/ d = [c EXCEPT !.pc = "resume", !.next = c.next + 1]
           \/ d = [c EXCEPT !.pc = "failed"]
    BY <1>0, <1>12 DEF ToolReturns, TypeOK
  <2>2. \/ d.pc = "resume" /\ d.code = "TOOL_FAILED" /\ d.version = c.version
        \/ d.pc = "resume" /\ d.code = c.code /\ d.version = c.version /\ d.next = c.next + 1
        \/ d.pc = "failed"
    BY <1>0, <2>1 DEF Call
  <2>3. Progress(c) = 3 + 12 * c.version + 2 * c.next
    BY <1>0, <2>1, ProgressIs
  <2>4. CASE d.pc = "failed"
    BY <1>4, <2>1, <2>4 DEF Ended
  <2>5. CASE d.pc = "resume" /\ d.code # None /\ d.version = c.version
    <3>1. Progress(d) = 12 + 12 * d.version
      BY <1>0, <2>5, ProgressIs
    <3> QED BY <1>1, <2>3, <2>5, <3>1
  <2>6. CASE d.pc = "resume" /\ d.code = None /\ d.version = c.version /\ d.next = c.next + 1
    <3>1. Progress(d) = 2 + 12 * d.version + 2 * d.next
      BY <1>0, <2>6, ProgressIs
    <3> QED BY <1>1, <2>3, <2>6, <3>1
  <2>7. "TOOL_FAILED" # None
    BY NoneIsNothingElse DEF Code
  <2> QED BY <2>2, <2>4, <2>5, <2>6, <2>7
<1>13. CASE Advance(p)
  <2>1. PICK r, row, pc : /\ pc \in {"resume", "done"}
                          /\ call' = View(p, r, row, pc) /\ row.version = c.version + 1
    BY <1>0, <1>13, AdvancedRow
  <2>2. c.pc = "resume" /\ d.pc \in {"resume", "done"}
        /\ d.next = 1 /\ d.code = None /\ d.version = c.version + 1
    BY <1>0, <1>13, <2>1, Viewed DEF Advance, Ready
  <2>3. CASE d.pc = "done"
    BY <1>4, <2>2, <2>3 DEF Ended
  <2>4. CASE d.pc = "resume"
    <3>1. Progress(d) = 2 + 12 * d.version + 2 * d.next
      BY <1>0, <2>2, <2>4, ProgressIs
    <3>2. Progress(c) = 2 + 12 * c.version + 2 * c.next \/ Progress(c) = 12 + 12 * c.version
      BY <1>0, <2>2, ProgressIs
    <3> QED BY <1>1, <2>2, <3>1, <3>2
  <2> QED BY <2>2, <2>3, <2>4
<1>14. CASE Conflict(p)
  <2>1. c.pc = "resume" /\ d.pc = "conflict" /\ d.version = c.version
    BY <1>0, <1>14, OnlyPc DEF Conflict, Ready
  <2>2. Progress(c) = 2 + 12 * c.version + 2 * c.next \/ Progress(c) = 12 + 12 * c.version
    BY <1>0, <2>1, ProgressIs
  <2>3. Progress(d) = 13 + 12 * d.version
    BY <1>0, <2>1, ProgressIs
  <2> QED BY <1>1, <2>1, <2>2, <2>3
<1>15. CASE ReadForRejection(p)
  <2>1. c.pc = "conflict" /\ d.pc = "rejecting" /\ d.version = run[c.run].version
    BY <1>0, <1>15, Viewed DEF ReadForRejection
  <2>2. c.version < d.version
    BY <2>1, ReadBehind
  <2>3. Progress(c) = 13 + 12 * c.version /\ Progress(d) = 2 + 12 * d.version
    BY <1>0, <2>1, ProgressIs
  <2> QED BY <1>1, <2>2, <2>3
<1>16. CASE RejectControl(p)
  <2>1. c.pc = "rejecting" /\ d.pc = "reload" /\ d.version = c.version
    BY <1>0, <1>16, OnlyPc DEF RejectControl
  <2>2. Progress(c) = 2 + 12 * c.version /\ Progress(d) = 3 + 12 * d.version
    BY <1>0, <2>1, ProgressIs
  <2> QED BY <1>1, <2>1, <2>2
<1>17. CASE Reload(p)
  <2>1. PICK r, row, pc : /\ pc \in {"resume", "done"} /\ row.version = run[c.run].version
                          /\ call' = View(p, r, row, pc)
    BY <1>17 DEF Reload, Resumed
  <2>2. /\ c.pc = "reload" /\ d.pc \in {"resume", "done"} /\ d.version = run[c.run].version
        /\ d.next = 1 /\ d.code = None
    <3>1. c.pc = "reload"
      BY <1>17 DEF Reload
    <3>2. d.pc = pc /\ d.version = row.version /\ d.next = 1 /\ d.code = None
      BY <1>0, <2>1, Viewed
    <3> QED BY <2>1, <3>1, <3>2
  <2>3. c.version <= d.version
    BY <2>2, ReadBehind
  <2>4. CASE d.pc = "done"
    BY <1>4, <2>2, <2>4 DEF Ended
  <2>5. CASE d.pc = "resume"
    <3>1. Progress(c) = 3 + 12 * c.version /\ Progress(d) = 2 + 12 * d.version + 2 * d.next
      BY <1>0, <2>2, <2>5, ProgressIs
    <3> QED BY <1>1, <2>2, <2>3, <3>1
  <2> QED BY <2>2, <2>4, <2>5
<1> QED BY <1>5, <1>6, <1>7, <1>8, <1>9, <1>10, <1>11, <1>12, <1>13, <1>14, <1>15, <1>16, <1>17
        DEF Step, Intake, UseTool, Transition

\* What ends a request without a step of its own, and what never touches it.
LEMMA OthersKeepProgress ==
  ASSUME IInv, CInv, [Next]_vars, NEW p \in Caller, ~Step(p)
  PROVE  call'[p] = call[p] \/ (call[p].pc \notin Ended /\ call'[p].pc = "dead")
<1>1. CASE Die(p)
  BY <1>1, OnlyPc DEF Die, IInv
<1>2. CASE LoseLock(p)
  BY <1>2 DEF LoseLock
<1>3. CASE ~Acts(p)
  BY <1>3, WhoActs, OthersStay DEF IInv
<1> QED BY <1>1, <1>2, <1>3 DEF Acts

\* No request is sent back or goes round for ever, whoever races with it: each of its
\* own steps brings it forward, no step of others takes it back, and it has at most
\* 110 to go.  In particular the unbounded loop of conflicts and reloads in
\* _resume_step ends: with the locks that are never waited for in a circle
\* (LocksAreHeldByOwners), fairness only has to supply the steps.
RequestsRunDown ==
  [][\A p \in Caller :
       /\ Progress(call[p]) <= Progress(call'[p]) /\ Progress(call'[p]) \in 0..110
       /\ Step(p) => Progress(call[p]) < Progress(call'[p])]_vars

THEOREM RequestsEnd == Spec => RequestsRunDown
<1>1. ASSUME IInv, CInv, FewVersions, IInv', FewVersions', [Next]_vars, NEW p \in Caller
      PROVE  /\ Progress(call[p]) <= Progress(call'[p]) /\ Progress(call'[p]) \in 0..110
             /\ Step(p) => Progress(call[p]) < Progress(call'[p])
  <2>1. call[p] \in Call /\ call'[p] \in Call
    BY <1>1 DEF IInv, TypeOK
  <2>2. Progress(call[p]) \in 0..110 /\ (call[p].pc \notin Ended => Progress(call[p]) < 110)
    BY <1>1, <2>1, ProgressWithin DEF FewVersions
  <2>3. Progress(call'[p]) \in 0..110
    <3>1. AtWork(call'[p]) => call'[p].version <= 8
      BY <1>1 DEF FewVersions
    <3> QED BY <2>1, <3>1, ProgressWithin
  <2>4. CASE Step(p)
    <3>1. Progress(call[p]) < Progress(call'[p])
      BY <1>1, <2>4, StepAdvances
    <3> QED BY <2>2, <2>3, <3>1
  <2>5. CASE ~Step(p)
    <3>1. CASE call'[p] = call[p]
      BY <2>2, <2>5, <3>1
    <3>2. CASE call[p].pc \notin Ended /\ call'[p].pc = "dead"
      <4>1. Progress(call'[p]) = 110
        BY <2>1, <3>2, ProgressIs DEF Ended
      <4> QED BY <2>2, <2>5, <3>2, <4>1
    <3> QED BY <1>1, <2>5, <3>1, <3>2, OthersKeepProgress
  <2> QED BY <2>4, <2>5
<1>2. IInv /\ CInv /\ FewVersions /\ IInv' /\ FewVersions' /\ [Next]_vars =>
        \A p \in Caller :
          /\ Progress(call[p]) <= Progress(call'[p]) /\ Progress(call'[p]) \in 0..110
          /\ Step(p) => Progress(call[p]) < Progress(call'[p])
  BY <1>1
<1> QED BY <1>2, VersionsEnd, CInvHolds, PTL DEF Spec, RequestsRunDown

================================================================================
