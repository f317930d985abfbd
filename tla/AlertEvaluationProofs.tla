------------------------- MODULE AlertEvaluationProofs -------------------------
(***************************************************************************)
(* Proofs about AlertEvaluation for any number of requests, policies and   *)
(* snapshots, and whoever dies: type correctness, one event for an input,  *)
(* transitions that follow the measurements, answers that are backed, and  *)
(* the refinement of AlertLifecycle.                                       *)
(***************************************************************************)
EXTENDS AlertEvaluation, TLAPS

--------------------------------------------------------------------------------
(* Histories *)

MeasuredBefore(h, n) == {i \in 1..(n - 1) : IsMeasured(h[i])}

IsLatest(h, n, i) == i \in MeasuredBefore(h, n) /\ \A j \in MeasuredBefore(h, n) : j <= i

\* The latest measured state before the n-th event.
LatestIn(M) == CHOOSE i \in M : \A j \in M : j <= i

LatestBefore(h, n) ==
  IF MeasuredBefore(h, n) = {} THEN None ELSE h[LatestIn(MeasuredBefore(h, n))].state

HasLatest(h, n) == MeasuredBefore(h, n) = {} \/ \E i : IsLatest(h, n, i)

LEMMA LatestIsBefore ==
  ASSUME NEW S, NEW h \in Seq(S)
  PROVE  Latest(h) = LatestBefore(h, Len(h) + 1)
<1> DEFINE M == {i \in DOMAIN h : IsMeasured(h[i])}
<1>1. M = MeasuredBefore(h, Len(h) + 1)
  BY DEF MeasuredBefore
<1>2. Latest(h) = IF M = {} THEN None ELSE h[LatestIn(M)].state
  BY DEF Latest, LatestIn
<1> HIDE DEF M
<1> QED BY <1>1, <1>2 DEF LatestBefore

LEMMA LatestIs ==
  ASSUME NEW h, NEW n, HasLatest(h, n)
  PROVE  \/ MeasuredBefore(h, n) = {} /\ LatestBefore(h, n) = None
         \/ \E i : IsLatest(h, n, i) /\ LatestBefore(h, n) = h[i].state
<1>1. CASE MeasuredBefore(h, n) = {}
  BY <1>1 DEF LatestBefore
<1>2. CASE MeasuredBefore(h, n) # {}
  <2>1. IsLatest(h, n, LatestIn(MeasuredBefore(h, n)))
    BY <1>2 DEF HasLatest, IsLatest, LatestIn
  <2> QED BY <1>2, <2>1 DEF LatestBefore
<1> QED BY <1>1, <1>2

\* An event more changes nothing that came before it.
LEMMA BeforeAppend ==
  ASSUME NEW S, NEW h \in Seq(S), NEW e \in S, NEW n \in 1..(Len(h) + 1), HasLatest(h, n)
  PROVE  /\ MeasuredBefore(Append(h, e), n) = MeasuredBefore(h, n)
         /\ HasLatest(Append(h, e), n)
         /\ LatestBefore(Append(h, e), n) = LatestBefore(h, n)
<1> DEFINE g == Append(h, e)
<1>1. \A i \in 1..(n - 1) : g[i] = h[i]
  OBVIOUS
<1> HIDE DEF g
<1>2. MeasuredBefore(g, n) = MeasuredBefore(h, n)
  BY <1>1 DEF MeasuredBefore
<1>3. \A i : IsLatest(g, n, i) <=> IsLatest(h, n, i)
  BY <1>2 DEF IsLatest
<1>4. LatestIn(MeasuredBefore(g, n)) = LatestIn(MeasuredBefore(h, n))
  BY <1>2
<1>5. CASE MeasuredBefore(h, n) = {}
  BY <1>2, <1>5 DEF HasLatest, LatestBefore, g
<1>6. CASE MeasuredBefore(h, n) # {}
  <2> DEFINE m == LatestIn(MeasuredBefore(h, n))
  <2>1. IsLatest(h, n, m)
    BY <1>6 DEF HasLatest, IsLatest, LatestIn
  <2> HIDE DEF m
  <2>2. g[m] = h[m]
    BY <1>1, <2>1 DEF IsLatest, MeasuredBefore
  <2>3. LatestBefore(g, n) = h[m].state /\ LatestBefore(h, n) = h[m].state
    BY <1>2, <1>4, <1>6, <2>2 DEF LatestBefore, m
  <2>4. HasLatest(g, n)
    BY <1>3, <2>1 DEF HasLatest
  <2> QED BY <1>2, <2>3, <2>4 DEF g
<1> QED BY <1>5, <1>6

LEMMA LatestAppended ==
  ASSUME NEW S, NEW h \in Seq(S), NEW e \in S, HasLatest(h, Len(h) + 1)
  PROVE  HasLatest(Append(h, e), Len(h) + 2)
<1> DEFINE g == Append(h, e)
           L == Len(h) + 1
<1>1. L \in Nat /\ g[L] = e /\ \A i \in 1..(L - 1) : g[i] = h[i]
  OBVIOUS
<1> HIDE DEF g, L
<1>2. MeasuredBefore(g, L + 1) = MeasuredBefore(h, L) \cup {i \in {L} : IsMeasured(e)}
  <2>1. (1..(L + 1 - 1)) = (1..(L - 1)) \cup {L}
    BY <1>1 DEF L
  <2> QED BY <1>1, <2>1 DEF MeasuredBefore
<1>3. \A i \in MeasuredBefore(h, L) : i \in Int /\ i <= L
  BY <1>1 DEF MeasuredBefore
<1>4. CASE IsMeasured(e)
  <2>1. IsLatest(g, L + 1, L)
    BY <1>1, <1>2, <1>3, <1>4 DEF IsLatest
  <2> QED BY <1>1, <2>1 DEF HasLatest, g, L
<1>5. CASE ~IsMeasured(e)
  <2>1. MeasuredBefore(g, L + 1) = MeasuredBefore(h, L)
    BY <1>2, <1>5
  <2>2. HasLatest(g, L + 1)
    <3>1. HasLatest(h, L)
      BY DEF L
    <3> QED BY <2>1, <3>1 DEF HasLatest, IsLatest
  <2> QED BY <1>1, <2>2 DEF g, L
<1> QED BY <1>4, <1>5

--------------------------------------------------------------------------------
(* The lifecycle of one alert *)

State == AlertState \cup {None}
Transition ==
  LIFECYCLE_TRANSITIONS \cup {"INITIAL_OK", "STILL_OK", "STILL_FIRING", "UNMEASURED"}

LEMMA NextStateIs ==
  ASSUME NEW previous \in State, NEW measure \in Measurement
  PROVE  LET next == NextState(previous, measure)
         IN /\ next.state \in State /\ next.transition \in Transition
            /\ next.state = None <=> measure = "unmeasured"
            /\ next.state = "FIRING" <=> measure = "breached"
            /\ next.transition = "RESOLVED" <=> measure = "within" /\ previous = "FIRING"
            /\ next.transition = "FIRED" <=> measure = "breached" /\ previous # "FIRING"
<1>1. CASE measure = "unmeasured"
  BY <1>1, NoneAssumption DEF NextState, State, AlertState, Transition, LIFECYCLE_TRANSITIONS
<1>2. CASE measure = "breached"
  BY <1>2, NoneAssumption DEF NextState, State, AlertState, Transition, LIFECYCLE_TRANSITIONS
<1>3. CASE measure = "within"
  BY <1>3, NoneAssumption DEF NextState, State, AlertState, Transition, LIFECYCLE_TRANSITIONS
<1> QED BY <1>1, <1>2, <1>3 DEF Measurement

--------------------------------------------------------------------------------
(* How a step moves its request *)

Pc == {"ready", "locked", "done", "refused", "failed_closed", "dead"}

Moved(p, pc, next, found, previous) ==
  call' = [call EXCEPT ![p] =
             [pc |-> pc, next |-> next, found |-> found, previous |-> previous]]

LEMMA CallFields ==
  ASSUME TypeOK, NEW p \in Request
  PROVE  /\ call[p].pc \in Pc /\ call[p].next \in Nat \ {0} /\ call[p].found \in Nat
         /\ call[p].previous \in State
<1>1. call[p] \in Call
  BY DEF TypeOK
<1> QED BY <1>1 DEF Call, Pc, State

LEMMA MovedTo ==
  ASSUME TypeOK, NEW p \in Request, NEW pc, NEW next, NEW found, NEW previous,
         Moved(p, pc, next, found, previous)
  PROVE  /\ call'[p].pc = pc /\ call'[p].next = next /\ call'[p].found = found
         /\ call'[p].previous = previous
         /\ \A q \in Request : q # p => call'[q] = call[q]
<1> DEFINE c == [pc |-> pc, next |-> next, found |-> found, previous |-> previous]
<1>1. c.pc = pc /\ c.next = next /\ c.found = found /\ c.previous = previous
  OBVIOUS
<1>2. call' = [call EXCEPT ![p] = c]
  BY DEF Moved
<1> HIDE DEF c
<1>3. call'[p] = c /\ \A q \in Request : q # p => call'[q] = call[q]
  BY <1>2 DEF TypeOK
<1> QED BY <1>1, <1>3

LEMMA MovedType ==
  ASSUME TypeOK, NEW p \in Request, NEW pc \in Pc, NEW next \in Nat \ {0}, NEW found \in Nat,
         NEW previous \in State, Moved(p, pc, next, found, previous)
  PROVE  call' \in [Request -> Call]
<1> DEFINE c == [pc |-> pc, next |-> next, found |-> found, previous |-> previous]
<1>1. c \in Call
  BY DEF Call, Pc, State
<1>2. call' = [call EXCEPT ![p] = c]
  BY DEF Moved
<1> HIDE DEF c
<1> QED BY <1>1, <1>2 DEF TypeOK

PcAfter(p, event) ==
  IF FailsClosed(PolicyOf(p), event) THEN "failed_closed"
  ELSE IF call[p].next = Len(Policies) THEN "done" ELSE "ready"

NextAfter(p, event) ==
  IF FailsClosed(PolicyOf(p), event) \/ call[p].next = Len(Policies) THEN call[p].next
  ELSE call[p].next + 1

\* A record of a request, field by field.
LEMMA Updated ==
  ASSUME TypeOK, NEW p \in Request, NEW pc, NEW next, NEW found, NEW previous
  PROVE  /\ call' = [call EXCEPT ![p].pc = pc] =>
              Moved(p, pc, call[p].next, call[p].found, call[p].previous)
         /\ call' = [call EXCEPT ![p].pc = pc, ![p].next = next] =>
              Moved(p, pc, next, call[p].found, call[p].previous)
         /\ call' = [call EXCEPT ![p].pc = pc, ![p].found = found, ![p].previous = previous] =>
              Moved(p, pc, call[p].next, found, previous)
<1> DEFINE c == call[p]
<1>1. c \in Call
  BY DEF TypeOK
<1>2. [c EXCEPT !.pc = pc] =
        [pc |-> pc, next |-> c.next, found |-> c.found, previous |-> c.previous]
  <2> HIDE DEF c
  <2> QED BY <1>1 DEF Call
<1>3. [c EXCEPT !.pc = pc, !.next = next] =
        [pc |-> pc, next |-> next, found |-> c.found, previous |-> c.previous]
  <2>1. [c EXCEPT !.pc = pc, !.next = next] = [[c EXCEPT !.pc = pc] EXCEPT !.next = next]
    OBVIOUS
  <2>2. [[pc |-> pc, next |-> c.next, found |-> c.found, previous |-> c.previous]
           EXCEPT !.next = next] =
        [pc |-> pc, next |-> next, found |-> c.found, previous |-> c.previous]
    OBVIOUS
  <2> HIDE DEF c
  <2> QED BY <1>2, <2>1, <2>2
<1>4. [c EXCEPT !.pc = pc, !.found = found, !.previous = previous] =
        [pc |-> pc, next |-> c.next, found |-> found, previous |-> previous]
  <2>1. [c EXCEPT !.pc = pc, !.found = found, !.previous = previous] =
          [[[c EXCEPT !.pc = pc] EXCEPT !.found = found] EXCEPT !.previous = previous]
    OBVIOUS
  <2>2. [[pc |-> pc, next |-> c.next, found |-> c.found, previous |-> c.previous]
           EXCEPT !.found = found] =
        [pc |-> pc, next |-> c.next, found |-> found, previous |-> c.previous]
    OBVIOUS
  <2>3. [[pc |-> pc, next |-> c.next, found |-> found, previous |-> c.previous]
           EXCEPT !.previous = previous] =
        [pc |-> pc, next |-> c.next, found |-> found, previous |-> previous]
    OBVIOUS
  <2> HIDE DEF c
  <2> QED BY <1>2, <2>1, <2>2, <2>3
<1>5. [call EXCEPT ![p].pc = pc] = [call EXCEPT ![p] = [c EXCEPT !.pc = pc]]
  BY DEF TypeOK
<1>6. [call EXCEPT ![p].pc = pc, ![p].next = next] =
        [call EXCEPT ![p] = [c EXCEPT !.pc = pc, !.next = next]]
  BY DEF TypeOK
<1>7. [call EXCEPT ![p].pc = pc, ![p].found = found, ![p].previous = previous] =
        [call EXCEPT ![p] = [c EXCEPT !.pc = pc, !.found = found, !.previous = previous]]
  BY DEF TypeOK
<1> QED BY <1>2, <1>3, <1>4, <1>5, <1>6, <1>7 DEF Moved

LEMMA MoveOf ==
  ASSUME TypeOK, NEW p \in Request
  PROVE  /\ Read(p) => Moved(p, "locked", call[p].next, Found(events[PolicyOf(p)], p),
                             Latest(events[PolicyOf(p)]))
         /\ Refuse(p) => Moved(p, "refused", call[p].next, call[p].found, call[p].previous)
         /\ Die(p) => Moved(p, "dead", call[p].next, call[p].found, call[p].previous)
         /\ \A event : GoOn(p, event) =>
              Moved(p, PcAfter(p, event), NextAfter(p, event), call[p].found, call[p].previous)
<1>1. Read(p) => Moved(p, "locked", call[p].next, Found(events[PolicyOf(p)], p),
                       Latest(events[PolicyOf(p)]))
  BY Updated DEF Read
<1>2. Refuse(p) => Moved(p, "refused", call[p].next, call[p].found, call[p].previous)
  BY Updated DEF Refuse
<1>3. Die(p) => Moved(p, "dead", call[p].next, call[p].found, call[p].previous)
  BY Updated DEF Die
<1>4. ASSUME NEW event, GoOn(p, event)
      PROVE  Moved(p, PcAfter(p, event), NextAfter(p, event), call[p].found, call[p].previous)
  <2>1. call' = [call EXCEPT ![p].pc = PcAfter(p, event), ![p].next = NextAfter(p, event)]
    BY <1>4 DEF GoOn, PcAfter, NextAfter
  <2> QED BY <2>1, Updated
<1> QED BY <1>1, <1>2, <1>3, <1>4

--------------------------------------------------------------------------------
(* The inductive invariant *)

\* A request stands at a policy, and works under its lock and no other.
CallsOK ==
  /\ \A p \in Request : call[p].next \in DOMAIN Policies
  /\ \A p \in Request, f \in Policy :
       lock[f] = p <=> call[p].pc = "locked" /\ f = PolicyOf(p)

\* What a request has read still holds: nobody else writes under its lock.
ReadOK(p) ==
  call[p].pc = "locked" =>
    LET history == events[PolicyOf(p)]
    IN /\ call[p].previous = LatestBefore(history, Len(history) + 1)
       /\ call[p].found = 0 => \A i \in DOMAIN history : ~Repeats(history[i], p)
       /\ call[p].found > 0 =>
            call[p].found \in DOMAIN history /\ Repeats(history[call[p].found], p)

\* An event follows from the latest state before it and from its snapshot.
Follows(f, h, i) ==
  /\ h[i].previous = LatestBefore(h, i)
  /\ LET next == NextState(h[i].previous, Measure[h[i].snapshot][f])
     IN h[i].state = next.state /\ h[i].transition = next.transition

HistoryOK(f, h) ==
  /\ \A n \in 1..(Len(h) + 1) : HasLatest(h, n)
  /\ \A i \in DOMAIN h : Follows(f, h, i)

DistinctOK(h) ==
  \A i, j \in DOMAIN h : h[i].key = h[j].key \/ h[i].snapshot = h[j].snapshot => i = j

\* A firing event has the notice of the alert at or before it.
NoticedOK(h, notices) ==
  /\ \A j \in DOMAIN notices : notices[j] \in DOMAIN h
  /\ \A i \in DOMAIN h : h[i].state = "FIRING" =>
       \E j \in DOMAIN notices : notices[j] <= i /\ h[notices[j]].transition = "FIRED"

\* What the requests that went past a policy, or failed closed on it, have left.
Backed(f, h, p) ==
  \E i \in DOMAIN h : h[i].snapshot = SnapshotOf[p] /\ (f = Safety => h[i].state # "FIRING")

Alarmed(h, p) == \E i \in DOMAIN h : h[i].snapshot = SnapshotOf[p] /\ h[i].state = "FIRING"

ProgressOK(p) ==
  /\ \A k \in DOMAIN Policies : k < call[p].next \/ call[p].pc = "done" =>
       Backed(Policies[k], events[Policies[k]], p)
  /\ call[p].pc = "failed_closed" => PolicyOf(p) = Safety /\ Alarmed(events[Safety], p)

IInv ==
  /\ TypeOK
  /\ CallsOK
  /\ \A p \in Request : ReadOK(p) /\ ProgressOK(p)
  /\ \A f \in Policy :
       HistoryOK(f, events[f]) /\ DistinctOK(events[f]) /\ NoticedOK(events[f], intents[f])

LEMMA PolicyIs ==
  ASSUME CallsOK, NEW p \in Request
  PROVE  PolicyOf(p) \in Policy
BY DEF CallsOK, PolicyOf, Policy

LEMMA PoliciesAre ==
  Len(Policies) \in Nat \ {0} /\ DOMAIN Policies = 1..Len(Policies)
BY PoliciesAssumption

LEMMA InvInit == Init => IInv
<1> SUFFICES ASSUME Init PROVE IInv
  OBVIOUS
<1>1. /\ \A f \in Policy : events[f] = <<>> /\ intents[f] = <<>> /\ lock[f] = None
      /\ \A p \in Request : call[p] = NewCall
  BY DEF Init
<1>2. NewCall.pc = "ready" /\ NewCall.next = 1 /\ NewCall \in Call
  BY DEF NewCall, Call
<1>3. TypeOK
  BY <1>2 DEF Init, TypeOK
<1>4. CallsOK
  BY <1>1, <1>2, PoliciesAre, NoneAssumption DEF CallsOK
<1>5. ASSUME NEW p \in Request PROVE ReadOK(p) /\ ProgressOK(p)
  BY <1>1, <1>2, PoliciesAre DEF ReadOK, ProgressOK
<1>6. ASSUME NEW f \in Policy
      PROVE  HistoryOK(f, events[f]) /\ DistinctOK(events[f]) /\ NoticedOK(events[f], intents[f])
  <2>1. HasLatest(<<>>, 1)
    BY DEF HasLatest, MeasuredBefore
  <2> QED BY <1>1, <2>1 DEF HistoryOK, DistinctOK, NoticedOK
<1> QED BY <1>3, <1>4, <1>5, <1>6 DEF IInv

--------------------------------------------------------------------------------
(* What a step writes *)

NewEvent(p) ==
  LET next == NextState(call[p].previous, Measure[SnapshotOf[p]][PolicyOf(p)])
  IN [key |-> PrefixOf[p], snapshot |-> SnapshotOf[p], state |-> next.state,
      previous |-> call[p].previous, transition |-> next.transition]

\* The event of a record transaction.
LEMMA RecordWrites ==
  ASSUME IInv, NEW p \in Request, Record(p)
  PROVE  LET f == PolicyOf(p)
             e == NewEvent(p)
         IN /\ f \in Policy /\ e \in Event /\ GoOn(p, e) /\ Unlock(p)
            /\ call[p].pc = "locked" /\ call[p].found = 0
            /\ e.key = PrefixOf[p] /\ e.snapshot = SnapshotOf[p]
            /\ e.previous = call[p].previous /\ e.previous \in State
            /\ Measure[e.snapshot][f] \in Measurement
            /\ e.state = NextState(e.previous, Measure[e.snapshot][f]).state
            /\ e.transition = NextState(e.previous, Measure[e.snapshot][f]).transition
            /\ events' = [events EXCEPT ![f] = Append(events[f], e)]
            /\ intents' = IF e.transition \in LIFECYCLE_TRANSITIONS
                          THEN [intents EXCEPT ![f] = Append(intents[f], Len(events[f]) + 1)]
                          ELSE intents
<1> DEFINE f == PolicyOf(p)
           next == NextState(call[p].previous, Measure[SnapshotOf[p]][f])
           e == [key |-> PrefixOf[p], snapshot |-> SnapshotOf[p], state |-> next.state,
                 previous |-> call[p].previous, transition |-> next.transition]
<1>1. f \in Policy /\ TypeOK
  BY PolicyIs DEF IInv
<1>2. call[p].previous \in State
  BY <1>1, CallFields
<1>3. SnapshotOf[p] \in Snapshot /\ PrefixOf[p] \in Prefix
      /\ Measure[SnapshotOf[p]][f] \in Measurement
  BY <1>1, RequestAssumption, MeasureAssumption
<1>4. next.state \in State /\ next.transition \in Transition
  BY <1>2, <1>3, NextStateIs
<1>5. e = NewEvent(p)
  BY DEF NewEvent
<1> HIDE DEF next
<1>6. e \in Event
  BY <1>2, <1>3, <1>4 DEF Event, State, Transition
<1>7. e.key = PrefixOf[p] /\ e.snapshot = SnapshotOf[p] /\ e.previous = call[p].previous
      /\ e.state = next.state /\ e.transition = next.transition
  OBVIOUS
<1> HIDE DEF e
<1>8. GoOn(p, e) /\ Unlock(p) /\ call[p].pc = "locked" /\ call[p].found = 0
  BY DEF Record, e, next
<1>9. events' = [events EXCEPT ![f] = Append(events[f], e)]
  BY <1>1 DEF Record, e, next, TypeOK
<1>10. intents' = IF e.transition \in LIFECYCLE_TRANSITIONS
                  THEN [intents EXCEPT ![f] = Append(intents[f], Len(events[f]) + 1)]
                  ELSE intents
  BY <1>1, <1>7 DEF Record, next, TypeOK
<1> QED BY <1>1, <1>2, <1>3, <1>5, <1>6, <1>7, <1>8, <1>9, <1>10 DEF next

\* Events and intents are appended, never changed.
LEMMA TablesGrow ==
  ASSUME IInv, NEW p \in Request, Step(p) \/ Die(p), NEW f \in Policy
  PROVE  /\ \A i \in DOMAIN events[f] : i \in DOMAIN events'[f] /\ events'[f][i] = events[f][i]
         /\ ~Record(p) => events'[f] = events[f] /\ intents'[f] = intents[f]
         /\ f # PolicyOf(p) => events'[f] = events[f] /\ intents'[f] = intents[f]
<1>0. TypeOK
  BY DEF IInv
<1>1. CASE ~Record(p)
  BY <1>1 DEF Step, Read, Refuse, Replay, Die
<1>2. CASE Record(p)
  <2> DEFINE g == PolicyOf(p)
             e == NewEvent(p)
  <2>1. /\ g \in Policy /\ events' = [events EXCEPT ![g] = Append(events[g], e)]
        /\ \/ intents' = [intents EXCEPT ![g] = Append(intents[g], Len(events[g]) + 1)]
           \/ intents' = intents
    BY <1>2, RecordWrites
  <2> HIDE DEF g, e
  <2>2. CASE f # g
    BY <1>0, <2>1, <2>2 DEF TypeOK, g
  <2>3. CASE f = g
    <3>1. events[f] \in Seq(Event) /\ events'[f] = Append(events[f], e)
      BY <1>0, <2>1, <2>3 DEF TypeOK
    <3> QED BY <1>2, <2>3, <3>1 DEF g
  <2> QED BY <2>2, <2>3
<1> QED BY <1>1, <1>2

--------------------------------------------------------------------------------
(* What a step preserves *)

LEMMA Replays ==
  ASSUME IInv, NEW p \in Request, Replay(p)
  PROVE  /\ call[p].found \in DOMAIN events[PolicyOf(p)]
         /\ FoundEvent(p) = events[PolicyOf(p)][call[p].found]
         /\ FoundEvent(p).snapshot = SnapshotOf[p] /\ GoOn(p, FoundEvent(p)) /\ Unlock(p)
         /\ call[p].pc = "locked"
BY DEF Replay, FoundEvent, IInv, ReadOK

LEMMA NextPolicy ==
  ASSUME IInv, NEW p \in Request, NEW event
  PROVE  /\ NextAfter(p, event) \in DOMAIN Policies
         /\ PcAfter(p, event) \in {"failed_closed", "done", "ready"}
<1>1. call[p].next \in 1..Len(Policies) /\ Len(Policies) \in Nat
  BY PoliciesAre DEF IInv, CallsOK
<1> QED BY <1>1, PoliciesAre DEF NextAfter, PcAfter

LEMMA FoundIs ==
  ASSUME NEW S, NEW h \in Seq(S), NEW p
  PROVE  LET found == Found(h, p)
         IN /\ found \in Nat
            /\ found = 0 => \A i \in DOMAIN h : ~Repeats(h[i], p)
            /\ found > 0 => found \in DOMAIN h /\ Repeats(h[found], p)
<1> DEFINE rows == {i \in DOMAIN h : Repeats(h[i], p)}
           keyed == {i \in rows : h[i].key = PrefixOf[p]}
<1>1. rows \subseteq DOMAIN h /\ keyed \subseteq rows /\ DOMAIN h \subseteq Nat \ {0}
  OBVIOUS
<1>2. Found(h, p) = IF keyed # {} THEN CHOOSE i \in keyed : TRUE
                    ELSE IF rows # {} THEN CHOOSE i \in rows : TRUE ELSE 0
  BY DEF Found
<1>3. CASE rows = {}
  BY <1>1, <1>2, <1>3
<1>4. CASE rows # {}
  <2>1. Found(h, p) \in rows
    <3> HIDE DEF rows, keyed
    <3> QED BY <1>1, <1>2, <1>4
  <2> QED BY <1>1, <2>1
<1> QED BY <1>3, <1>4

LEMMA TypeStepOf ==
  ASSUME IInv, NEW p \in Request, Step(p) \/ Die(p)
  PROVE  TypeOK'
<1> DEFINE f == PolicyOf(p)
<1>0. /\ TypeOK /\ f \in Policy /\ events[f] \in Seq(Event)
      /\ call[p].pc \in Pc /\ call[p].next \in Nat \ {0} /\ call[p].found \in Nat
      /\ call[p].previous \in State
  BY PolicyIs, CallFields DEF IInv, TypeOK
<1>1. CASE Read(p)
  <2>1. Found(events[f], p) \in Nat
    BY <1>0, FoundIs
  <2>2. Latest(events[f]) \in State
    <3>1. HasLatest(events[f], Len(events[f]) + 1)
      BY <1>0 DEF IInv, HistoryOK
    <3>2. Latest(events[f]) = LatestBefore(events[f], Len(events[f]) + 1)
      BY <1>0, LatestIsBefore
    <3>3. CASE LatestBefore(events[f], Len(events[f]) + 1) = None
      BY <3>2, <3>3 DEF State
    <3>4. ASSUME NEW i, IsLatest(events[f], Len(events[f]) + 1, i),
                 LatestBefore(events[f], Len(events[f]) + 1) = events[f][i].state
          PROVE  Latest(events[f]) \in State
      <4>1. i \in 1..Len(events[f])
        BY <1>0, <3>4 DEF IsLatest, MeasuredBefore
      <4>2. events[f][i] \in Event
        BY <1>0, <4>1
      <4> QED BY <3>2, <3>4, <4>2 DEF Event, State
    <3> QED BY <3>1, <3>3, <3>4, LatestIs
  <2>3. Moved(p, "locked", call[p].next, Found(events[f], p), Latest(events[f]))
    BY <1>0, <1>1, MoveOf
  <2>4. call' \in [Request -> Call]
    <3>1. "locked" \in Pc
      BY DEF Pc
    <3> QED BY <1>0, <2>1, <2>2, <2>3, <3>1, MovedType
  <2> QED BY <1>0, <1>1, <2>4 DEF Read, TypeOK
<1>2. CASE Refuse(p) \/ Die(p)
  <2>1. PICK pc \in {"refused", "dead"} :
          Moved(p, pc, call[p].next, call[p].found, call[p].previous)
    BY <1>0, <1>2, MoveOf
  <2>2. call' \in [Request -> Call]
    <3>1. pc \in Pc
      BY DEF Pc
    <3> QED BY <1>0, <2>1, <3>1, MovedType
  <2>3. UNCHANGED <<events, intents>> /\ lock' \in [Policy -> Request \cup {None}]
    BY <1>0, <1>2 DEF Refuse, Die, Unlock, FreedLocks, TypeOK
  <2> QED BY <1>0, <2>2, <2>3 DEF TypeOK
<1>3. ASSUME NEW event, GoOn(p, event) PROVE call' \in [Request -> Call]
  <2>1. Moved(p, PcAfter(p, event), NextAfter(p, event), call[p].found, call[p].previous)
    BY <1>0, <1>3, MoveOf
  <2>2. PcAfter(p, event) \in Pc /\ NextAfter(p, event) \in Nat \ {0}
    BY NextPolicy, PoliciesAre DEF Pc
  <2> QED BY <1>0, <2>1, <2>2, MovedType
<1>4. Unlock(p) => lock' \in [Policy -> Request \cup {None}]
  BY <1>0 DEF Unlock, TypeOK
<1>5. CASE Replay(p)
  BY <1>0, <1>3, <1>4, <1>5 DEF Replay, TypeOK
<1>6. CASE Record(p)
  <2> DEFINE e == NewEvent(p)
  <2>1. /\ e \in Event /\ GoOn(p, e) /\ Unlock(p)
        /\ events' = [events EXCEPT ![f] = Append(events[f], e)]
        /\ \/ intents' = [intents EXCEPT ![f] = Append(intents[f], Len(events[f]) + 1)]
           \/ intents' = intents
    BY <1>6, RecordWrites
  <2> HIDE DEF e
  <2>2. events' \in [Policy -> Seq(Event)]
    BY <1>0, <2>1 DEF TypeOK
  <2>3. intents' \in [Policy -> Seq(Nat \ {0})]
    <3>1. Len(events[f]) + 1 \in Nat \ {0} /\ intents[f] \in Seq(Nat \ {0})
      BY <1>0 DEF TypeOK
    <3>2. Append(intents[f], Len(events[f]) + 1) \in Seq(Nat \ {0})
      BY <3>1
    <3> QED BY <1>0, <2>1, <3>2 DEF TypeOK
  <2> QED BY <1>3, <1>4, <2>1, <2>2, <2>3 DEF TypeOK
<1> QED BY <1>1, <1>2, <1>5, <1>6 DEF Step

Freed(p) == \A g \in Policy : lock'[g] = IF lock[g] = p THEN None ELSE lock[g]

LEMMA CallsStepOf ==
  ASSUME IInv, NEW p \in Request, Step(p) \/ Die(p)
  PROVE  CallsOK'
<1> DEFINE f == PolicyOf(p)
           Own(q, g) == lock'[g] = q <=> call'[q].pc = "locked" /\ g = Policies[call'[q].next]
<1>0. TypeOK /\ CallsOK /\ f \in Policy /\ p # None
      /\ \A q \in Request : q # None
  BY PolicyIs, NoneAssumption DEF IInv
<1>1. ASSUME NEW pc, NEW next, NEW found, NEW previous, Moved(p, pc, next, found, previous),
             next \in DOMAIN Policies,
             \A g \in Policy : lock'[g] = p <=> pc = "locked" /\ g = Policies[next],
             \A g \in Policy, q \in Request : q # p => (lock'[g] = q <=> lock[g] = q)
      PROVE  CallsOK'
  <2>1. /\ call'[p].pc = pc /\ call'[p].next = next
        /\ \A q \in Request : q # p => call'[q] = call[q]
    BY <1>0, <1>1, MovedTo
  <2>2. \A q \in Request : call'[q].next \in DOMAIN Policies
    BY <1>0, <1>1, <2>1 DEF CallsOK
  <2>3. ASSUME NEW q \in Request, NEW g \in Policy PROVE Own(q, g)
    <3>1. CASE q = p
      BY <1>1, <2>1, <3>1
    <3>2. CASE q # p
      BY <1>0, <1>1, <2>1, <3>2 DEF CallsOK, PolicyOf
    <3> QED BY <3>1, <3>2
  <2> QED BY <2>2, <2>3 DEF CallsOK, PolicyOf
<1>2. call[p].next \in DOMAIN Policies /\ f = Policies[call[p].next]
  BY <1>0 DEF CallsOK, PolicyOf
<1>3. CASE Read(p)
  <2>1. lock[f] = None /\ lock' = [lock EXCEPT ![f] = p] /\ call[p].pc = "ready"
    BY <1>3 DEF Read, LockFree
  <2>2. \A g \in Policy : lock'[g] = IF g = f THEN p ELSE lock[g]
    BY <1>0, <2>1 DEF TypeOK
  <2>3. \A g \in Policy : lock[g] # p
    BY <1>0, <2>1 DEF CallsOK
  <2>4. Moved(p, "locked", call[p].next, Found(events[f], p), Latest(events[f]))
    BY <1>0, <1>3, MoveOf
  <2> QED BY <1>0, <1>1, <1>2, <2>1, <2>2, <2>3, <2>4
<1>4. ASSUME Unlock(p), call[p].pc = "locked"
      PROVE  Freed(p)
  <2>1. lock' = [lock EXCEPT ![f] = None]
    BY <1>4 DEF Unlock
  <2>2. \A g \in Policy : lock[g] = p <=> g = f
    BY <1>0, <1>4 DEF CallsOK
  <2> HIDE DEF f
  <2>3. \A g \in Policy : lock'[g] = IF g = f THEN None ELSE lock[g]
    BY <1>0, <2>1 DEF TypeOK
  <2> QED BY <2>2, <2>3 DEF Freed
<1>5. CASE Refuse(p) \/ Die(p)
  <2>1. PICK pc \in {"refused", "dead"} :
          Moved(p, pc, call[p].next, call[p].found, call[p].previous)
    BY <1>0, <1>5, MoveOf
  <2>2. Freed(p)
    <3>1. CASE Refuse(p)
      BY <1>4, <3>1 DEF Refuse
    <3>2. CASE Die(p)
      BY <3>2 DEF Die, FreedLocks, Freed
    <3> QED BY <1>5, <3>1, <3>2
  <2> HIDE DEF f
  <2> QED BY <1>0, <1>1, <1>2, <2>1, <2>2 DEF Freed
<1>6. CASE Replay(p) \/ Record(p)
  <2>1. PICK event : GoOn(p, event) /\ Unlock(p) /\ call[p].pc = "locked"
    BY <1>6, RecordWrites DEF Replay
  <2>2. Moved(p, PcAfter(p, event), NextAfter(p, event), call[p].found, call[p].previous)
    BY <1>0, <2>1, MoveOf
  <2>3. NextAfter(p, event) \in DOMAIN Policies /\ PcAfter(p, event) # "locked"
    BY NextPolicy
  <2>4. Freed(p)
    BY <1>4, <2>1
  <2> HIDE DEF f
  <2> QED BY <1>0, <1>1, <2>2, <2>3, <2>4 DEF Freed
<1> QED BY <1>3, <1>5, <1>6 DEF Step

\* Only its own statements move a request.
LEMMA OthersStay ==
  ASSUME IInv, NEW p \in Request, Step(p) \/ Die(p)
  PROVE  /\ \A q \in Request : q # p => call'[q] = call[q]
         /\ ~Read(p) => call'[p].pc # "locked"
<1>0. TypeOK
  BY DEF IInv
<1>1. CASE Read(p)
  BY <1>0, <1>1, MoveOf, MovedTo
<1>2. CASE Refuse(p) \/ Die(p)
  <2>1. PICK pc \in {"refused", "dead"} :
          Moved(p, pc, call[p].next, call[p].found, call[p].previous)
    BY <1>0, <1>2, MoveOf
  <2> QED BY <1>0, <2>1, MovedTo
<1>3. CASE Replay(p) \/ Record(p)
  <2>1. PICK event : GoOn(p, event)
    BY <1>3, RecordWrites DEF Replay
  <2>2. Moved(p, PcAfter(p, event), NextAfter(p, event), call[p].found, call[p].previous)
    BY <1>0, <2>1, MoveOf
  <2>3. PcAfter(p, event) # "locked"
    BY NextPolicy
  <2> QED BY <1>0, <2>2, <2>3, MovedTo
<1> QED BY <1>1, <1>2, <1>3 DEF Step

\* What a request has read of a history.
ReadIs(history, p, c) ==
  /\ c.previous = LatestBefore(history, Len(history) + 1)
  /\ c.found = 0 => \A i \in DOMAIN history : ~Repeats(history[i], p)
  /\ c.found > 0 => c.found \in DOMAIN history /\ Repeats(history[c.found], p)

LEMMA ReadStepOf ==
  ASSUME IInv, NEW p \in Request, Step(p) \/ Die(p), NEW q \in Request
  PROVE  ReadOK(q)'
<1> DEFINE f == PolicyOf(q)
<1>0. TypeOK /\ CallsOK /\ f \in Policy /\ events[f] \in Seq(Event)
  BY PolicyIs DEF IInv, TypeOK
<1>1. SUFFICES ASSUME call'[q].pc = "locked"
               PROVE  ReadIs(events'[Policies[call'[q].next]], q, call'[q])
  BY DEF ReadOK, ReadIs, PolicyOf
<1>2. CASE q = p
  <2>1. Read(p)
    BY <1>1, <1>2, OthersStay
  <2>2. Moved(p, "locked", call[p].next, Found(events[f], p), Latest(events[f]))
    BY <1>0, <1>2, <2>1, MoveOf
  <2>3. /\ call'[p].next = call[p].next /\ call'[p].found = Found(events[f], p)
        /\ call'[p].previous = Latest(events[f])
    BY <1>0, <2>2, MovedTo
  <2>4. events' = events /\ f = Policies[call'[q].next]
    BY <1>2, <2>1, <2>3 DEF Read, PolicyOf
  <2> HIDE DEF f
  <2>5. Latest(events[f]) = LatestBefore(events[f], Len(events[f]) + 1)
    BY <1>0, LatestIsBefore
  <2>6. /\ Found(events[f], p) = 0 => \A i \in DOMAIN events[f] : ~Repeats(events[f][i], p)
        /\ Found(events[f], p) > 0 => /\ Found(events[f], p) \in DOMAIN events[f]
                                      /\ Repeats(events[f][Found(events[f], p)], p)
    BY <1>0, FoundIs
  <2> QED BY <1>2, <2>3, <2>4, <2>5, <2>6 DEF ReadIs
<1>3. CASE q # p
  <2>1. call'[q] = call[q]
    BY <1>3, OthersStay
  <2>2. f = Policies[call'[q].next] /\ call[q].pc = "locked"
    BY <1>1, <2>1 DEF PolicyOf
  <2>3. ReadIs(events[f], q, call[q])
    BY <2>2 DEF IInv, ReadOK, ReadIs
  <2>4. Record(p) => f # PolicyOf(p)
    <3>1. Record(p) => call[p].pc = "locked"
      BY DEF Record
    <3>2. lock[f] = q
      BY <1>0, <2>2 DEF CallsOK
    <3>3. Record(p) => lock[PolicyOf(p)] = p
      BY <1>0, <3>1, PolicyIs DEF CallsOK
    <3> QED BY <1>3, <3>2, <3>3
  <2>5. events'[f] = events[f]
    BY <1>0, <2>4, TablesGrow
  <2> QED BY <2>1, <2>2, <2>3, <2>5
<1> QED BY <1>2, <1>3

LEMMA StaysBacked ==
  ASSUME IInv, NEW p \in Request, Step(p) \/ Die(p), NEW f \in Policy, NEW q \in Request
  PROVE  /\ Backed(f, events[f], q) => Backed(f, events'[f], q)
         /\ Alarmed(events[f], q) => Alarmed(events'[f], q)
<1>1. \A i \in DOMAIN events[f] : i \in DOMAIN events'[f] /\ events'[f][i] = events[f][i]
  BY TablesGrow
<1> QED BY <1>1 DEF Backed, Alarmed

\* A request goes on with an event about its own snapshot.
LEMMA GoesOn ==
  ASSUME IInv, NEW p \in Request, Replay(p) \/ Record(p)
  PROVE  \E i \in DOMAIN events'[PolicyOf(p)] :
           LET event == events'[PolicyOf(p)][i]
           IN /\ event.snapshot = SnapshotOf[p]
              /\ Moved(p, PcAfter(p, event), NextAfter(p, event), call[p].found,
                       call[p].previous)
<1> DEFINE f == PolicyOf(p)
<1>0. TypeOK /\ f \in Policy /\ events[f] \in Seq(Event)
  BY PolicyIs DEF IInv, TypeOK
<1>1. CASE Replay(p)
  <2> DEFINE e == FoundEvent(p)
  <2>1. /\ call[p].found \in DOMAIN events[f] /\ e = events[f][call[p].found]
        /\ e.snapshot = SnapshotOf[p] /\ GoOn(p, e)
    BY <1>1, Replays
  <2>2. events' = events
    BY <1>1 DEF Replay
  <2> HIDE DEF e
  <2>3. Moved(p, PcAfter(p, e), NextAfter(p, e), call[p].found, call[p].previous)
    BY <1>0, <2>1, MoveOf
  <2> QED BY <2>1, <2>2, <2>3
<1>2. CASE Record(p)
  <2> DEFINE e == NewEvent(p)
             n == Len(events[f]) + 1
  <2>1. /\ e \in Event /\ e.snapshot = SnapshotOf[p] /\ GoOn(p, e)
        /\ events' = [events EXCEPT ![f] = Append(events[f], e)]
    BY <1>2, RecordWrites
  <2> HIDE DEF e, f
  <2>2. events'[f] = Append(events[f], e)
    BY <1>0, <2>1 DEF TypeOK
  <2>3. n \in DOMAIN events'[f] /\ events'[f][n] = e
    BY <1>0, <2>1, <2>2
  <2>4. Moved(p, PcAfter(p, e), NextAfter(p, e), call[p].found, call[p].previous)
    BY <1>0, <2>1, MoveOf
  <2> HIDE DEF n
  <2> QED BY <2>1, <2>3, <2>4 DEF f
<1> QED BY <1>1, <1>2

LEMMA ProgressStepOf ==
  ASSUME IInv, NEW p \in Request, Step(p) \/ Die(p), NEW q \in Request
  PROVE  ProgressOK(q)'
<1> DEFINE f == PolicyOf(p)
           Past(n) == \A k \in DOMAIN Policies : k < n =>
                        Backed(Policies[k], events'[Policies[k]], q)
<1>0. /\ TypeOK /\ CallsOK /\ f \in Policy /\ f = Policies[call[p].next]
      /\ call[p].next \in DOMAIN Policies
  BY PolicyIs DEF IInv, CallsOK, PolicyOf
<1>1. \A k \in DOMAIN Policies : Policies[k] \in Policy
  BY DEF Policy
<1>2. Past(call[q].next) /\ (call[q].pc = "done" => \A k \in DOMAIN Policies :
                               Backed(Policies[k], events'[Policies[k]], q))
  BY <1>1, StaysBacked DEF IInv, ProgressOK
<1>3. call[q].pc = "failed_closed" =>
        Policies[call[q].next] = Safety /\ Alarmed(events'[Safety], q)
  <2>1. call[q].pc = "failed_closed" =>
          /\ Policies[call[q].next] = Safety /\ Alarmed(events[Safety], q)
          /\ call[q].next \in DOMAIN Policies
    BY <1>0 DEF IInv, ProgressOK, PolicyOf, CallsOK
  <2> QED BY <1>1, <2>1, StaysBacked
<1>4. CASE call'[q].next = call[q].next /\ (call'[q].pc = call[q].pc \/
             call'[q].pc \notin {"done", "failed_closed"})
  BY <1>2, <1>3, <1>4 DEF ProgressOK, PolicyOf
<1>5. CASE q # p
  BY <1>4, <1>5, OthersStay
<1>6. CASE q = p /\ (Read(p) \/ Refuse(p) \/ Die(p))
  <2>1. PICK pc \in {"locked", "refused", "dead"}, found \in Nat \cup {0, Found(events[f], p)},
             previous \in {call[p].previous, Latest(events[f])} :
          Moved(p, pc, call[p].next, found, previous)
    BY <1>0, <1>6, MoveOf, CallFields
  <2>2. call'[p].pc = pc /\ call'[p].next = call[p].next
    BY <1>0, <2>1, MovedTo
  <2> QED BY <1>4, <1>6, <2>2
<1>7. CASE q = p /\ (Replay(p) \/ Record(p))
  <2>1. PICK i \in DOMAIN events'[f] :
          LET event == events'[f][i]
          IN /\ event.snapshot = SnapshotOf[p]
             /\ Moved(p, PcAfter(p, event), NextAfter(p, event), call[p].found,
                      call[p].previous)
    BY <1>7, GoesOn
  <2> DEFINE event == events'[f][i]
  <2>2. /\ call'[p].pc = PcAfter(p, event) /\ call'[p].next = NextAfter(p, event)
        /\ event.snapshot = SnapshotOf[p]
    BY <1>0, <2>1, MovedTo
  <2>3. CASE FailsClosed(f, event)
    <3>1. f = Safety /\ event.state = "FIRING" /\ Alarmed(events'[Safety], p)
      BY <2>2, <2>3 DEF FailsClosed, Alarmed
    <3>2. call'[p].next = call[p].next /\ call'[p].pc = "failed_closed"
      BY <2>2, <2>3 DEF PcAfter, NextAfter
    <3> HIDE DEF event, f
    <3> QED BY <1>0, <1>2, <1>7, <3>1, <3>2 DEF ProgressOK, PolicyOf
  <2>4. CASE ~FailsClosed(f, event)
    <3>1. Backed(f, events'[f], p)
      BY <2>2, <2>4 DEF FailsClosed, Backed
    <3>2. /\ call'[p].next = IF call[p].next = Len(Policies) THEN call[p].next ELSE call[p].next + 1
          /\ call'[p].pc = IF call[p].next = Len(Policies) THEN "done" ELSE "ready"
      BY <2>2, <2>4 DEF PcAfter, NextAfter
    <3> HIDE DEF event, f
    <3>3. \A k \in DOMAIN Policies : k <= call[p].next => Backed(Policies[k], events'[Policies[k]], p)
      BY <1>0, <1>2, <1>7, <3>1, PoliciesAre
    <3>4. \A k \in DOMAIN Policies : k < call'[p].next \/ call'[p].pc = "done" => k <= call[p].next
      BY <1>0, <3>2, PoliciesAre
    <3>5. call'[p].pc # "failed_closed"
      BY <3>2
    <3> QED BY <1>7, <3>3, <3>4, <3>5 DEF ProgressOK
  <2> QED BY <2>3, <2>4
<1> QED BY <1>5, <1>6, <1>7 DEF Step

\* An event that follows from a history keeps the history in order.
LEMMA HistoryAppended ==
  ASSUME NEW f, NEW S, NEW h \in Seq(S), NEW e \in S, HistoryOK(f, h),
         e.previous = LatestBefore(h, Len(h) + 1),
         e.state = NextState(e.previous, Measure[e.snapshot][f]).state,
         e.transition = NextState(e.previous, Measure[e.snapshot][f]).transition
  PROVE  HistoryOK(f, Append(h, e))
<1> DEFINE g == Append(h, e)
           L == Len(h) + 1
<1>1. /\ L \in Nat \ {0} /\ DOMAIN g = 1..L /\ DOMAIN h = 1..(L - 1) /\ Len(g) = L
      /\ g[L] = e /\ \A i \in 1..(L - 1) : g[i] = h[i]
  OBVIOUS
<1>2. \A n \in 1..L : HasLatest(g, n) /\ LatestBefore(g, n) = LatestBefore(h, n)
  BY BeforeAppend DEF HistoryOK
<1>3. HasLatest(g, L + 1)
  <2>1. HasLatest(h, Len(h) + 1) /\ L + 1 = Len(h) + 2
    BY <1>1 DEF HistoryOK
  <2> QED BY <2>1, LatestAppended
<1>4. e.previous = LatestBefore(h, L)
  OBVIOUS
<1> HIDE DEF g, L
<1>5. \A n \in 1..(Len(g) + 1) : HasLatest(g, n)
  <2>1. \A n \in 1..(L + 1) : n \in 1..L \/ n = L + 1
    BY <1>1
  <2> QED BY <1>1, <1>2, <1>3, <2>1
<1>6. ASSUME NEW i \in 1..(L - 1) PROVE Follows(f, g, i)
  <2>1. Follows(f, h, i) /\ i \in 1..L
    BY <1>1 DEF HistoryOK
  <2> QED BY <1>1, <1>2, <2>1 DEF Follows
<1>7. Follows(f, g, L)
  <2>1. L \in 1..L
    BY <1>1
  <2> QED BY <1>1, <1>2, <1>4, <2>1 DEF Follows
<1>8. \A i \in DOMAIN g : i \in 1..(L - 1) \/ i = L
  BY <1>1
<1> QED BY <1>5, <1>6, <1>7, <1>8 DEF HistoryOK, g

\* Another key and another snapshot keep the inputs distinct.
LEMMA DistinctAppended ==
  ASSUME NEW S, NEW h \in Seq(S), NEW e \in S, DistinctOK(h),
         \A i \in DOMAIN h : h[i].key # e.key /\ h[i].snapshot # e.snapshot
  PROVE  DistinctOK(Append(h, e))
<1> DEFINE g == Append(h, e)
           L == Len(h) + 1
<1>1. DOMAIN g = (DOMAIN h) \cup {L} /\ g[L] = e /\ \A i \in DOMAIN h : g[i] = h[i]
  OBVIOUS
<1> HIDE DEF g, L
<1> QED BY <1>1 DEF DistinctOK, g

\* A firing event has a notice: its own, or that of the firing it continues.
LEMMA NoticedAppended ==
  ASSUME NEW f, NEW h \in Seq(Event), NEW e \in Event, NEW notices \in Seq(Nat \ {0}),
         NoticedOK(h, notices), HasLatest(h, Len(h) + 1),
         e.previous = LatestBefore(h, Len(h) + 1), Measure[e.snapshot][f] \in Measurement,
         e.state = NextState(e.previous, Measure[e.snapshot][f]).state,
         e.transition = NextState(e.previous, Measure[e.snapshot][f]).transition
  PROVE  NoticedOK(Append(h, e), IF e.transition \in LIFECYCLE_TRANSITIONS
                                 THEN Append(notices, Len(h) + 1) ELSE notices)
<1> DEFINE g == Append(h, e)
           L == Len(h) + 1
           after == IF e.transition \in LIFECYCLE_TRANSITIONS THEN Append(notices, L)
                    ELSE notices
<1>1. /\ L \in Nat \ {0} /\ DOMAIN g = (DOMAIN h) \cup {L} /\ g[L] = e
      /\ DOMAIN h = 1..(L - 1) /\ \A i \in DOMAIN h : g[i] = h[i]
  OBVIOUS
<1>2. \A j \in DOMAIN notices : j \in DOMAIN after /\ after[j] = notices[j]
  OBVIOUS
<1>3. \A j \in DOMAIN after : j \in DOMAIN notices \/ after[j] = L
  OBVIOUS
<1>4. e.transition = "FIRED" => \E j \in DOMAIN after : after[j] = L
  <2>1. Len(notices) + 1 \in DOMAIN Append(notices, L)
        /\ Append(notices, L)[Len(notices) + 1] = L
    OBVIOUS
  <2> QED BY <2>1 DEF LIFECYCLE_TRANSITIONS
<1> HIDE DEF g, L, after
<1>5. \A j \in DOMAIN after : after[j] \in DOMAIN g
  BY <1>1, <1>2, <1>3 DEF NoticedOK
<1> DEFINE Has(i) == \E j \in DOMAIN after : after[j] <= i /\ g[after[j]].transition = "FIRED"
<1>6. ASSUME NEW i \in DOMAIN h, h[i].state = "FIRING" PROVE Has(i)
  <2>1. PICK j \in DOMAIN notices : notices[j] <= i /\ h[notices[j]].transition = "FIRED"
    BY <1>6 DEF NoticedOK
  <2>2. notices[j] \in DOMAIN h
    BY DEF NoticedOK
  <2> QED BY <1>1, <1>2, <2>1, <2>2
<1>7. ASSUME e.state = "FIRING" PROVE Has(L)
  <2>1. e.previous \in State
    BY DEF Event, State
  <2>2. \/ e.transition = "FIRED"
        \/ e.previous = "FIRING"
    BY <1>7, <2>1, NextStateIs
  <2>3. CASE e.transition = "FIRED"
    BY <1>1, <1>4, <2>3
  <2>4. CASE e.previous = "FIRING"
    <3>1. PICK i : IsLatest(h, L, i) /\ h[i].state = "FIRING"
      BY <2>4, LatestIs, NoneAssumption DEF L
    <3>2. i \in DOMAIN h
      BY <1>1, <3>1 DEF IsLatest, MeasuredBefore
    <3>3. PICK j \in DOMAIN after : after[j] <= i /\ g[after[j]].transition = "FIRED"
      BY <1>6, <3>1, <3>2
    <3>4. after[j] \in Nat /\ i \in Nat /\ i <= L
      BY <1>1, <1>5, <3>2
    <3> QED BY <1>1, <3>3, <3>4
  <2> QED BY <2>2, <2>3, <2>4
<1>8. \A i \in DOMAIN g : g[i].state = "FIRING" => Has(i)
  BY <1>1, <1>6, <1>7
<1> QED BY <1>5, <1>8 DEF NoticedOK, g, L, after

LEMMA TablesStepOf ==
  ASSUME IInv, NEW p \in Request, Step(p) \/ Die(p), NEW f \in Policy
  PROVE  HistoryOK(f, events'[f]) /\ DistinctOK(events'[f]) /\ NoticedOK(events'[f], intents'[f])
<1>0. /\ TypeOK /\ events[f] \in Seq(Event) /\ intents[f] \in Seq(Nat \ {0})
      /\ HistoryOK(f, events[f]) /\ DistinctOK(events[f]) /\ NoticedOK(events[f], intents[f])
  BY DEF IInv, TypeOK
<1>1. CASE ~Record(p) \/ f # PolicyOf(p)
  BY <1>0, <1>1, TablesGrow
<1>2. CASE Record(p) /\ f = PolicyOf(p)
  <2> DEFINE e == NewEvent(p)
             n == Len(events[f]) + 1
             after == IF e.transition \in LIFECYCLE_TRANSITIONS
                      THEN Append(intents[f], n) ELSE intents[f]
  <2>1. /\ e \in Event /\ call[p].pc = "locked" /\ call[p].found = 0
        /\ e.key = PrefixOf[p] /\ e.snapshot = SnapshotOf[p] /\ e.previous = call[p].previous
        /\ Measure[e.snapshot][f] \in Measurement
        /\ e.state = NextState(e.previous, Measure[e.snapshot][f]).state
        /\ e.transition = NextState(e.previous, Measure[e.snapshot][f]).transition
        /\ events' = [events EXCEPT ![f] = Append(events[f], e)]
        /\ intents' = IF e.transition \in LIFECYCLE_TRANSITIONS
                      THEN [intents EXCEPT ![f] = Append(intents[f], n)] ELSE intents
    BY <1>2, RecordWrites
  <2> HIDE DEF e
  <2>2. /\ call[p].previous = LatestBefore(events[f], Len(events[f]) + 1)
        /\ \A i \in DOMAIN events[f] : ~Repeats(events[f][i], p)
    BY <1>2, <2>1 DEF IInv, ReadOK
  <2>3. events'[f] = Append(events[f], e) /\ intents'[f] = after
    BY <1>0, <2>1 DEF TypeOK
  <2>4. HistoryOK(f, Append(events[f], e))
    BY <1>0, <2>1, <2>2, HistoryAppended
  <2>5. DistinctOK(Append(events[f], e))
    <3>1. \A i \in DOMAIN events[f] :
            events[f][i].key # e.key /\ events[f][i].snapshot # e.snapshot
      BY <2>1, <2>2 DEF Repeats
    <3> QED BY <1>0, <2>1, <3>1, DistinctAppended
  <2>6. NoticedOK(Append(events[f], e), after)
    <3>1. HasLatest(events[f], Len(events[f]) + 1)
      BY <1>0 DEF HistoryOK
    <3> QED BY <1>0, <2>1, <2>2, <3>1, NoticedAppended
  <2> QED BY <2>3, <2>4, <2>5, <2>6
<1> QED BY <1>1, <1>2

LEMMA InvStep == IInv /\ [Next]_vars => IInv'
<1> SUFFICES ASSUME IInv, [Next]_vars PROVE IInv'
  OBVIOUS
<1>1. CASE Next
  <2>1. PICK p \in Request : Step(p) \/ Die(p)
    BY <1>1 DEF Next
  <2>2. TypeOK' /\ CallsOK'
    BY <2>1, TypeStepOf, CallsStepOf
  <2>3. \A q \in Request : ReadOK(q)' /\ ProgressOK(q)'
    BY <2>1, ReadStepOf, ProgressStepOf
  <2>4. \A f \in Policy :
          HistoryOK(f, events'[f]) /\ DistinctOK(events'[f]) /\ NoticedOK(events'[f], intents'[f])
    BY <2>1, TablesStepOf
  <2>5. (\A f \in Policy :
          HistoryOK(f, events[f]) /\ DistinctOK(events[f]) /\ NoticedOK(events[f], intents[f]))'
    BY <2>4
  <2> QED BY <2>2, <2>3, <2>5 DEF IInv
<1>2. CASE UNCHANGED vars
  <2>1. events' = events /\ intents' = intents /\ lock' = lock /\ call' = call
    BY <1>2 DEF vars
  <2>2. TypeOK' /\ CallsOK' /\ \A q \in Request : ReadOK(q)' /\ ProgressOK(q)'
    BY <2>1 DEF IInv, TypeOK, CallsOK, ReadOK, ProgressOK, PolicyOf
  <2>3. (\A f \in Policy :
          HistoryOK(f, events[f]) /\ DistinctOK(events[f]) /\ NoticedOK(events[f], intents[f]))'
    BY <2>1 DEF IInv
  <2> QED BY <2>2, <2>3 DEF IInv
<1> QED BY <1>1, <1>2

LEMMA InvHolds == Spec => []IInv
BY InvInit, InvStep, PTL DEF Spec

--------------------------------------------------------------------------------
(* The theorems *)

\* Every table, lock and request keeps its type (alerting/repository.py).
THEOREM TypeCorrectness == Spec => []TypeOK
<1>1. IInv => TypeOK
  BY DEF IInv
<1> QED BY <1>1, InvHolds, PTL

\* AlertRepository.record has at most one event for a key and for a snapshot,
\* however its transactions interleave, die and are retried.
THEOREM SingleEvents == Spec => []OneEventPerInput
<1>1. IInv => OneEventPerInput
  BY DEF IInv, DistinctOK, OneEventPerInput
<1> QED BY <1>1, InvHolds, PTL

\* _next_state resolves an alert that was firing at the last measurement and
\* fires one that was not, whatever unmeasured windows lie between.
THEOREM MeasuredTransitions == Spec => []TransitionsFollowMeasurements
<1>1. ASSUME IInv PROVE TransitionsFollowMeasurements
  <2> SUFFICES ASSUME NEW f \in Policy, NEW i \in DOMAIN events[f]
               PROVE  LET measured == {j \in 1..(i - 1) :
                            Measure[events[f][j].snapshot][f] # "unmeasured"}
                          wasFiring == \E j \in measured :
                            /\ Measure[events[f][j].snapshot][f] = "breached"
                            /\ \A k \in measured : k <= j
                          measure == Measure[events[f][i].snapshot][f]
                      IN /\ events[f][i].transition = "RESOLVED" <=>
                              wasFiring /\ measure = "within"
                         /\ events[f][i].transition = "FIRED" <=>
                              ~wasFiring /\ measure = "breached"
    BY DEF TransitionsFollowMeasurements
  <2> DEFINE h == events[f]
             measured == {j \in 1..(i - 1) : Measure[h[j].snapshot][f] # "unmeasured"}
             wasFiring == \E j \in measured : /\ Measure[h[j].snapshot][f] = "breached"
                                              /\ \A k \in measured : k <= j
             measure(j) == Measure[h[j].snapshot][f]
  <2>1. h \in Seq(Event) /\ i \in 1..Len(h) /\ HistoryOK(f, h)
    BY <1>1 DEF IInv, TypeOK
  <2>2. ASSUME NEW j \in 1..Len(h)
        PROVE  /\ Follows(f, h, j) /\ h[j].previous \in State /\ measure(j) \in Measurement
               /\ IsMeasured(h[j]) <=> measure(j) # "unmeasured"
               /\ h[j].state = "FIRING" <=> measure(j) = "breached"
    <3>1. h[j] \in Event /\ Follows(f, h, j)
      BY <2>1 DEF HistoryOK
    <3>2. h[j].previous \in State /\ h[j].snapshot \in Snapshot
      BY <3>1 DEF Event, State
    <3>3. measure(j) \in Measurement
      BY <3>2, MeasureAssumption
    <3> HIDE DEF measure
    <3>4. LET next == NextState(h[j].previous, measure(j))
          IN /\ next.state = None <=> measure(j) = "unmeasured"
             /\ next.state = "FIRING" <=> measure(j) = "breached"
      BY <3>2, <3>3, NextStateIs
    <3>5. h[j].state = NextState(h[j].previous, measure(j)).state
      BY <3>1 DEF Follows, measure
    <3> QED BY <3>1, <3>2, <3>3, <3>4, <3>5 DEF IsMeasured
  <2>3. measured = MeasuredBefore(h, i)
    BY <2>1, <2>2 DEF MeasuredBefore
  <2> HIDE DEF h
  <2>4. wasFiring <=> LatestBefore(h, i) = "FIRING"
    <3> HIDE DEF measured
    <3>1. HasLatest(h, i)
      BY <2>1 DEF HistoryOK
    <3>2. CASE measured = {} /\ LatestBefore(h, i) = None
      BY <3>2, NoneAssumption
    <3>3. ASSUME NEW l, IsLatest(h, i, l), LatestBefore(h, i) = h[l].state
          PROVE  wasFiring <=> LatestBefore(h, i) = "FIRING"
      <4>1. l \in measured /\ l \in 1..Len(h) /\ \A j \in measured : j \in Int /\ j <= l
        BY <2>1, <2>3, <3>3 DEF IsLatest, MeasuredBefore
      <4>2. h[l].state = "FIRING" <=> measure(l) = "breached"
        BY <2>2, <4>1
      <4>3. \A j \in measured : (\A k \in measured : k <= j) <=> j = l
        BY <4>1
      <4> QED BY <3>3, <4>1, <4>2, <4>3
    <3> QED BY <2>3, <3>1, <3>2, <3>3, LatestIs
  <2>5. /\ Follows(f, h, i) /\ h[i].previous \in State /\ measure(i) \in Measurement
    BY <2>1, <2>2
  <2> HIDE DEF wasFiring, measure
  <2>6. LET next == NextState(h[i].previous, measure(i))
        IN /\ next.transition = "RESOLVED" <=> measure(i) = "within" /\ h[i].previous = "FIRING"
           /\ next.transition = "FIRED" <=> measure(i) = "breached" /\ h[i].previous # "FIRING"
    BY <2>5, NextStateIs
  <2>7. /\ h[i].transition = NextState(h[i].previous, measure(i)).transition
        /\ h[i].previous = LatestBefore(h, i)
    BY <2>5 DEF Follows, measure
  <2>8. /\ h[i].transition = "RESOLVED" <=> wasFiring /\ measure(i) = "within"
        /\ h[i].transition = "FIRED" <=> ~wasFiring /\ measure(i) = "breached"
    BY <2>4, <2>6, <2>7
  <2> QED BY <2>8 DEF h, wasFiring, measure
<1> QED BY <1>1, InvHolds, PTL

\* AlertService.evaluate returns with every policy evaluated on its snapshot, or
\* fails closed with the firing event and its notice left behind.
THEOREM BackedAnswers == Spec => []AnswersAreBacked
<1>1. ASSUME IInv PROVE AnswersAreBacked
  <2>1. ASSUME NEW p \in Request, call[p].pc = "done", NEW f \in Policy
        PROVE  Backed(f, events[f], p)
    <3>1. PICK k \in DOMAIN Policies : f = Policies[k]
      BY DEF Policy
    <3> QED BY <1>1, <2>1, <3>1 DEF IInv, ProgressOK
  <2>2. ASSUME NEW p \in Request, call[p].pc = "failed_closed"
        PROVE  \E i \in DOMAIN events[Safety] :
                 /\ events[Safety][i].snapshot = SnapshotOf[p]
                 /\ events[Safety][i].state = "FIRING"
                 /\ \E j \in DOMAIN intents[Safety] :
                      /\ intents[Safety][j] <= i
                      /\ events[Safety][intents[Safety][j]].transition = "FIRED"
    <3>1. PolicyOf(p) = Safety /\ Alarmed(events[Safety], p)
      BY <1>1, <2>2 DEF IInv, ProgressOK
    <3>2. Safety \in Policy
      BY <1>1, <3>1, PolicyIs DEF IInv
    <3>3. NoticedOK(events[Safety], intents[Safety])
      BY <1>1, <3>2 DEF IInv
    <3> QED BY <3>1, <3>3 DEF Alarmed, NoticedOK
  <2> QED BY <2>1, <2>2 DEF AnswersAreBacked, Backed
<1> QED BY <1>1, InvHolds, PTL

--------------------------------------------------------------------------------
(* The evaluation implements AlertLifecycle *)

FiringOf(ev) == [f \in Policy |-> Latest(ev[f]) = "FIRING"]
NoticesIn(h, notices) == [i \in DOMAIN notices |-> h[notices[i]].transition]
NoticesOf(ev, in) == [f \in Policy |-> NoticesIn(ev[f], in[f])]

\* The latest state after one event more.
LEMMA LatestOfAppended ==
  ASSUME NEW S, NEW h \in Seq(S), NEW e \in S, HasLatest(h, Len(h) + 1)
  PROVE  Latest(Append(h, e)) = IF IsMeasured(e) THEN e.state ELSE Latest(h)
<1> DEFINE g == Append(h, e)
           L == Len(h) + 1
<1>1. L \in Nat /\ L \in 1..(Len(h) + 1) /\ g \in Seq(S) /\ Len(g) = L /\ g[L] = e
  OBVIOUS
<1>2. Latest(g) = LatestBefore(g, L + 1) /\ Latest(h) = LatestBefore(h, L)
  BY <1>1, LatestIsBefore
<1>3. LatestBefore(g, L) = LatestBefore(h, L)
  BY <1>1, BeforeAppend
<1> HIDE DEF g, L
<1>4. MeasuredBefore(g, L + 1) = MeasuredBefore(g, L) \cup {i \in {L} : IsMeasured(e)}
  <2>1. (1..(L + 1 - 1)) = (1..(L - 1)) \cup {L}
    BY <1>1 DEF L
  <2> QED BY <1>1, <2>1 DEF MeasuredBefore
<1>5. CASE IsMeasured(e)
  <2>1. L \in MeasuredBefore(g, L + 1) /\ \A i \in MeasuredBefore(g, L + 1) : i \in Int /\ i <= L
    BY <1>1, <1>4, <1>5 DEF MeasuredBefore
  <2>2. LET i == LatestIn(MeasuredBefore(g, L + 1))
        IN i \in MeasuredBefore(g, L + 1) /\ \A j \in MeasuredBefore(g, L + 1) : j <= i
    BY <2>1 DEF LatestIn
  <2>3. LatestIn(MeasuredBefore(g, L + 1)) = L
    BY <1>1, <2>1, <2>2
  <2>4. LatestBefore(g, L + 1) = e.state
    BY <1>1, <2>1, <2>3 DEF LatestBefore
  <2> QED BY <1>2, <1>5, <2>4 DEF g
<1>6. CASE ~IsMeasured(e)
  <2>1. MeasuredBefore(g, L + 1) = MeasuredBefore(g, L)
    BY <1>4, <1>6
  <2>2. LatestBefore(g, L + 1) = LatestBefore(g, L)
    BY <2>1 DEF LatestBefore
  <2> QED BY <1>2, <1>3, <1>6, <2>2 DEF g
<1> QED BY <1>5, <1>6

\* A recorded event changes the alert and leaves its notice together, or neither.
LEMMA RecordMaps ==
  ASSUME IInv, NEW p \in Request, Record(p)
  PROVE  LET f == PolicyOf(p)
             e == NewEvent(p)
             F == Latest(events[f]) = "FIRING"
             G == Latest(events'[f]) = "FIRING"
         IN /\ f \in Policy /\ events[f] \in Seq(Event) /\ e \in Event
            /\ events' = [events EXCEPT ![f] = Append(events[f], e)]
            /\ \/ e.transition = "FIRED" /\ ~F /\ G
               \/ e.transition = "RESOLVED" /\ F /\ ~G
               \/ e.transition \notin LIFECYCLE_TRANSITIONS /\ (F <=> G)
            /\ intents' = IF e.transition \in LIFECYCLE_TRANSITIONS
                          THEN [intents EXCEPT ![f] = Append(intents[f], Len(events[f]) + 1)]
                          ELSE intents
<1> DEFINE f == PolicyOf(p)
           e == NewEvent(p)
           measure == Measure[e.snapshot][f]
           next == NextState(e.previous, measure)
<1>1. /\ f \in Policy /\ e \in Event /\ call[p].pc = "locked" /\ e.previous = call[p].previous
      /\ e.previous \in State /\ measure \in Measurement
      /\ e.state = next.state /\ e.transition = next.transition
      /\ events' = [events EXCEPT ![f] = Append(events[f], e)]
      /\ intents' = IF e.transition \in LIFECYCLE_TRANSITIONS
                    THEN [intents EXCEPT ![f] = Append(intents[f], Len(events[f]) + 1)]
                    ELSE intents
  BY RecordWrites
<1> HIDE DEF e
<1>2. events[f] \in Seq(Event) /\ events'[f] = Append(events[f], e)
      /\ HasLatest(events[f], Len(events[f]) + 1)
  BY <1>1 DEF IInv, TypeOK, HistoryOK
<1>3. e.previous = Latest(events[f])
  BY <1>1, <1>2, LatestIsBefore DEF IInv, ReadOK
<1>4. Latest(events'[f]) = IF IsMeasured(e) THEN e.state ELSE Latest(events[f])
  BY <1>1, <1>2, LatestOfAppended
<1> HIDE DEF measure
<1>5. /\ next.state = None <=> measure = "unmeasured"
      /\ next.state = "FIRING" <=> measure = "breached"
      /\ next.transition = "RESOLVED" <=> measure = "within" /\ e.previous = "FIRING"
      /\ next.transition = "FIRED" <=> measure = "breached" /\ e.previous # "FIRING"
  BY <1>1, NextStateIs
<1> HIDE DEF next, f
<1>6. \/ e.transition = "FIRED" /\ Latest(events[f]) # "FIRING" /\ Latest(events'[f]) = "FIRING"
      \/ e.transition = "RESOLVED" /\ Latest(events[f]) = "FIRING" /\ Latest(events'[f]) # "FIRING"
      \/ /\ e.transition \notin LIFECYCLE_TRANSITIONS
         /\ Latest(events[f]) = "FIRING" <=> Latest(events'[f]) = "FIRING"
  <2>1. measure \in {"breached", "within", "unmeasured"}
    BY <1>1 DEF Measurement
  <2> QED BY <1>1, <1>3, <1>4, <1>5, <2>1, NoneAssumption DEF IsMeasured, LIFECYCLE_TRANSITIONS
<1> QED BY <1>1, <1>2, <1>6 DEF e, f

\* The notices of a history that grew by one event.
LEMMA NoticesGrow ==
  ASSUME NEW h \in Seq(Event), NEW e \in Event, NEW notices \in Seq(Nat \ {0}),
         \A j \in DOMAIN notices : notices[j] \in DOMAIN h
  PROVE  LET g == Append(h, e)
             after == Append(notices, Len(h) + 1)
         IN /\ NoticesIn(g, notices) = NoticesIn(h, notices)
            /\ NoticesIn(g, after) = Append(NoticesIn(h, notices), e.transition)
<1> DEFINE g == Append(h, e)
           n == Len(h) + 1
           after == Append(notices, n)
           old == [i \in DOMAIN notices |-> h[notices[i]].transition]
           L == Len(notices) + 1
<1>1. g[n] = e /\ \A i \in DOMAIN h : g[i] = h[i]
  OBVIOUS
<1>2. /\ L \in Nat /\ DOMAIN after = 1..L /\ DOMAIN notices = 1..(L - 1) /\ after[L] = n
      /\ \A i \in 1..(L - 1) : after[i] = notices[i]
  OBVIOUS
<1> HIDE DEF g, after
<1>3. [i \in DOMAIN notices |-> g[notices[i]].transition] = old
  BY <1>1
<1>4. [i \in DOMAIN after |-> g[after[i]].transition] = Append(old, e.transition)
  <2>1. old \in Seq({h[i].transition : i \in DOMAIN h}) /\ Len(old) = L - 1
    BY <1>2
  <2>2. /\ DOMAIN Append(old, e.transition) = 1..L
        /\ Append(old, e.transition)[L] = e.transition
        /\ \A i \in 1..(L - 1) : Append(old, e.transition)[i] = old[i]
    <3> HIDE DEF old
    <3> QED BY <1>2, <2>1
  <2>3. Append(old, e.transition) = [i \in 1..L |-> Append(old, e.transition)[i]]
    <3> HIDE DEF old
    <3> QED BY <2>1, <2>2
  <2>4. \A i \in 1..L : g[after[i]].transition = Append(old, e.transition)[i]
    <3>1. \A i \in 1..(L - 1) : g[after[i]].transition = old[i]
      BY <1>1, <1>2
    <3>2. \A i \in 1..L : i \in 1..(L - 1) \/ i = L
      BY <1>2
    <3>3. g[after[L]].transition = e.transition
      BY <1>1, <1>2
    <3> HIDE DEF old
    <3> QED BY <2>2, <3>1, <3>2, <3>3
  <2> HIDE DEF old
  <2> QED BY <1>2, <2>3, <2>4
<1> QED BY <1>3, <1>4 DEF g, after, NoticesIn

LEMMA LifecycleStep ==
  IInv /\ [Next]_vars =>
    \/ /\ FiringOf(events') = FiringOf(events)
       /\ NoticesOf(events', intents') = NoticesOf(events, intents)
    \/ \E f \in Policy :
         \/ /\ ~FiringOf(events)[f]
            /\ FiringOf(events') = [FiringOf(events) EXCEPT ![f] = TRUE]
            /\ NoticesOf(events', intents') = [NoticesOf(events, intents) EXCEPT
                 ![f] = Append(NoticesOf(events, intents)[f], "FIRED")]
         \/ /\ FiringOf(events)[f]
            /\ FiringOf(events') = [FiringOf(events) EXCEPT ![f] = FALSE]
            /\ NoticesOf(events', intents') = [NoticesOf(events, intents) EXCEPT
                 ![f] = Append(NoticesOf(events, intents)[f], "RESOLVED")]
<1> DEFINE F == FiringOf(events)
           G == FiringOf(events')
           M == NoticesOf(events, intents)
           N == NoticesOf(events', intents')
<1> SUFFICES ASSUME IInv, [Next]_vars
             PROVE  \/ G = F /\ N = M
                    \/ \E f \in Policy :
                         \/ ~F[f] /\ G = [F EXCEPT ![f] = TRUE]
                                  /\ N = [M EXCEPT ![f] = Append(M[f], "FIRED")]
                         \/ F[f] /\ G = [F EXCEPT ![f] = FALSE]
                                 /\ N = [M EXCEPT ![f] = Append(M[f], "RESOLVED")]
  OBVIOUS
<1>1. CASE events' = events /\ intents' = intents
  BY <1>1
<1>2. ASSUME NEW p \in Request, Record(p)
      PROVE  \/ G = F /\ N = M
             \/ \E f \in Policy :
                  \/ ~F[f] /\ G = [F EXCEPT ![f] = TRUE]
                           /\ N = [M EXCEPT ![f] = Append(M[f], "FIRED")]
                  \/ F[f] /\ G = [F EXCEPT ![f] = FALSE]
                          /\ N = [M EXCEPT ![f] = Append(M[f], "RESOLVED")]
  <2> DEFINE f == PolicyOf(p)
             e == NewEvent(p)
             n == Len(events[f]) + 1
  <2>1. /\ f \in Policy /\ events[f] \in Seq(Event) /\ e \in Event
        /\ events' = [events EXCEPT ![f] = Append(events[f], e)]
        /\ \/ e.transition = "FIRED" /\ ~(Latest(events[f]) = "FIRING")
                                     /\ Latest(events'[f]) = "FIRING"
           \/ e.transition = "RESOLVED" /\ Latest(events[f]) = "FIRING"
                                        /\ ~(Latest(events'[f]) = "FIRING")
           \/ /\ e.transition \notin LIFECYCLE_TRANSITIONS
              /\ Latest(events[f]) = "FIRING" <=> Latest(events'[f]) = "FIRING"
        /\ intents' = IF e.transition \in LIFECYCLE_TRANSITIONS
                      THEN [intents EXCEPT ![f] = Append(intents[f], n)] ELSE intents
    BY <1>2, RecordMaps
  <2> HIDE DEF e, f
  <2>2. /\ TypeOK /\ intents[f] \in Seq(Nat \ {0})
        /\ \A j \in DOMAIN intents[f] : intents[f][j] \in DOMAIN events[f]
    BY <2>1 DEF IInv, TypeOK, NoticedOK
  <2>3. /\ events'[f] = Append(events[f], e)
        /\ \A a \in Policy : a # f => events'[a] = events[a] /\ intents'[a] = intents[a]
    BY <2>1, <2>2 DEF TypeOK
  <2>4. /\ e.transition \in LIFECYCLE_TRANSITIONS => intents'[f] = Append(intents[f], n)
        /\ e.transition \notin LIFECYCLE_TRANSITIONS => intents'[f] = intents[f]
    BY <2>1, <2>2 DEF TypeOK
  <2>5. /\ F[f] <=> Latest(events[f]) = "FIRING"
        /\ G[f] <=> Latest(events'[f]) = "FIRING"
        /\ \A a \in Policy : a # f => G[a] = F[a]
    BY <2>1, <2>3 DEF FiringOf
  <2>6. /\ M[f] = NoticesIn(events[f], intents[f])
        /\ N[f] = NoticesIn(events'[f], intents'[f])
        /\ \A a \in Policy : a # f => N[a] = M[a]
    BY <2>1, <2>3 DEF NoticesOf
  <2>7. /\ e.transition \in LIFECYCLE_TRANSITIONS => N[f] = Append(M[f], e.transition)
        /\ e.transition \notin LIFECYCLE_TRANSITIONS => N[f] = M[f]
    <3> HIDE DEF M, N
    <3> QED BY <2>1, <2>2, <2>3, <2>4, <2>6, NoticesGrow
  <2>8. /\ F \in [Policy -> BOOLEAN] /\ G \in [Policy -> BOOLEAN]
        /\ M = [a \in Policy |-> M[a]] /\ N = [a \in Policy |-> N[a]]
    BY DEF FiringOf, NoticesOf
  <2> HIDE DEF F, G, M, N
  <2>9. CASE e.transition \notin LIFECYCLE_TRANSITIONS
    <3>1. N = M
      BY <2>6, <2>7, <2>8, <2>9
    <3>2. G[f] <=> F[f]
      BY <2>1, <2>5, <2>9 DEF LIFECYCLE_TRANSITIONS
    <3>3. G[f] = F[f]
      BY <2>1, <2>8, <3>2
    <3>4. G = F
      BY <2>5, <2>8, <3>3
    <3> QED BY <3>1, <3>4
  <2>10. CASE e.transition = "FIRED"
    <3>1. N = [M EXCEPT ![f] = Append(M[f], "FIRED")]
      BY <2>1, <2>6, <2>7, <2>8, <2>10 DEF LIFECYCLE_TRANSITIONS
    <3>2. ~F[f] /\ G[f]
      BY <2>1, <2>5, <2>10 DEF LIFECYCLE_TRANSITIONS
    <3>3. G[f] = TRUE
      BY <2>1, <2>8, <3>2
    <3>4. G = [F EXCEPT ![f] = TRUE]
      BY <2>1, <2>5, <2>8, <3>3
    <3> QED BY <2>1, <3>1, <3>2, <3>4
  <2>11. CASE e.transition = "RESOLVED"
    <3>1. N = [M EXCEPT ![f] = Append(M[f], "RESOLVED")]
      BY <2>1, <2>6, <2>7, <2>8, <2>11 DEF LIFECYCLE_TRANSITIONS
    <3>2. F[f] /\ ~G[f]
      BY <2>1, <2>5, <2>11 DEF LIFECYCLE_TRANSITIONS
    <3>3. G[f] = FALSE
      BY <2>1, <2>8, <3>2
    <3>4. G = [F EXCEPT ![f] = FALSE]
      BY <2>1, <2>5, <2>8, <3>3
    <3> QED BY <2>1, <3>1, <3>2, <3>4
  <2> QED BY <2>1, <2>9, <2>10, <2>11
<1>3. CASE UNCHANGED vars
  BY <1>1, <1>3 DEF vars
<1> QED BY <1>1, <1>2, <1>3 DEF Next, Step, Read, Refuse, Replay, Die

LEMMA LifecycleInit == Init => Lifecycle!Init
<1> SUFFICES ASSUME Init PROVE Lifecycle!Init
  OBVIOUS
<1>1. \A f \in Policy : events[f] = <<>> /\ intents[f] = <<>>
  BY DEF Init
<1>2. Latest(<<>>) = None
  BY DEF Latest
<1>3. \A f \in Policy : (Latest(events[f]) = "FIRING") = FALSE
  BY <1>1, <1>2, NoneAssumption
<1>4. \A f \in Policy : [i \in DOMAIN intents[f] |-> events[f][intents[f][i]].transition] = <<>>
  BY <1>1
<1> QED BY <1>3, <1>4 DEF Lifecycle!Init

\* AlertRepository.record and enqueue_alert_intent implement AlertLifecycle: one
\* intent for every change of an alert, in the order of the changes.
THEOREM LifecycleRefinement == Spec => ImplementsLifecycle
<1>1. IInv /\ [Next]_vars => [Lifecycle!Next]_Lifecycle!vars
  BY LifecycleStep DEF FiringOf, NoticesOf, NoticesIn, Lifecycle!Next, Lifecycle!Fire,
       Lifecycle!Resolve, Lifecycle!vars
<1> QED
  BY <1>1, LifecycleInit, InvHolds, PTL DEF Spec, ImplementsLifecycle, Lifecycle!Spec

\* The notices of an alert alternate and tell whether it is firing.
ByTurns(firing, notices) ==
  /\ notices \in Seq(LIFECYCLE_TRANSITIONS)
  /\ \A i \in DOMAIN notices : notices[i] = IF i % 2 = 1 THEN "FIRED" ELSE "RESOLVED"
  /\ firing <=> Len(notices) % 2 = 1

Alternate(F, M) == \A a \in Policy : ByTurns(F[a], M[a])

\* A change of an alert with its notice keeps the turn.
LEMMA TurnKept ==
  ASSUME NEW notices, NEW fires \in BOOLEAN, ByTurns(~fires, notices)
  PROVE  ByTurns(fires, Append(notices, IF fires THEN "FIRED" ELSE "RESOLVED"))
<1> DEFINE notice == IF fires THEN "FIRED" ELSE "RESOLVED"
           after == Append(notices, notice)
           n == Len(notices)
<1>1. /\ notices \in Seq(LIFECYCLE_TRANSITIONS)
      /\ \A i \in DOMAIN notices : notices[i] = IF i % 2 = 1 THEN "FIRED" ELSE "RESOLVED"
      /\ ~fires <=> n % 2 = 1
  BY DEF ByTurns
<1>2. n \in Nat /\ DOMAIN notices = 1..n /\ notice \in LIFECYCLE_TRANSITIONS
  BY <1>1 DEF LIFECYCLE_TRANSITIONS
<1>3. fires <=> (n + 1) % 2 = 1
  <2>1. (n + 1) % 2 = 1 <=> n % 2 # 1
    BY <1>2
  <2> QED BY <1>1, <2>1
<1>4. notice = IF (n + 1) % 2 = 1 THEN "FIRED" ELSE "RESOLVED"
  BY <1>3
<1> HIDE DEF notice
<1>5. /\ after \in Seq(LIFECYCLE_TRANSITIONS) /\ Len(after) = n + 1
      /\ DOMAIN after = 1..(n + 1) /\ after[n + 1] = notice
      /\ \A i \in 1..n : after[i] = notices[i]
  BY <1>1, <1>2
<1> HIDE DEF after, n
<1>6. \A i \in 1..(n + 1) : i \in 1..n \/ i = n + 1
  BY <1>2
<1>7. \A i \in DOMAIN after : after[i] = IF i % 2 = 1 THEN "FIRED" ELSE "RESOLVED"
  BY <1>1, <1>2, <1>4, <1>5, <1>6
<1>8. ByTurns(fires, after)
  BY <1>3, <1>5, <1>7 DEF ByTurns
<1> QED BY <1>8 DEF after, notice

\* The intents enqueued for an alert are FIRED and RESOLVED by turns and agree with
\* its latest measured state: what enqueue_alert_intent hands to the outbox.
THEOREM AlternatingNotices == Spec => []NoticesAlternate
<1> DEFINE Turns == Alternate(FiringOf(events), NoticesOf(events, intents))
<1>1. Init => Turns
  <2> SUFFICES ASSUME Init PROVE Turns
    OBVIOUS
  <2>1. \A f \in Policy : events[f] = <<>> /\ intents[f] = <<>>
    BY DEF Init
  <2>2. Latest(<<>>) = None
    BY DEF Latest
  <2>3. \A f \in Policy : ~FiringOf(events)[f]
    BY <2>1, <2>2, NoneAssumption DEF FiringOf
  <2>4. \A f \in Policy : NoticesOf(events, intents)[f] = <<>>
    BY <2>1 DEF NoticesOf, NoticesIn
  <2> DEFINE F == FiringOf(events)
             M == NoticesOf(events, intents)
  <2> HIDE DEF F, M
  <2>5. \A f \in Policy : ~F[f] /\ M[f] = <<>>
    BY <2>3, <2>4 DEF F, M
  <2>6. ByTurns(FALSE, <<>>)
    BY DEF ByTurns
  <2>7. \A f \in Policy : ByTurns(F[f], M[f])
    <3> SUFFICES ASSUME NEW f \in Policy PROVE ByTurns(F[f], M[f])
      OBVIOUS
    <3> QED BY <2>5, <2>6 DEF ByTurns
  <2>8. Alternate(F, M)
    BY <2>7 DEF Alternate
  <2> QED BY <2>8 DEF F, M
<1>2. Turns /\ IInv /\ [Next]_vars => Turns'
  <2> DEFINE F == FiringOf(events)
             G == FiringOf(events')
             M == NoticesOf(events, intents)
             N == NoticesOf(events', intents')
  <2> SUFFICES ASSUME Alternate(F, M), IInv, [Next]_vars PROVE Alternate(G, N)
    OBVIOUS
  <2>1. F \in [Policy -> BOOLEAN] /\ M = [a \in Policy |-> M[a]]
    BY DEF FiringOf, NoticesOf
  <2>2. \/ G = F /\ N = M
        \/ \E f \in Policy :
             \/ ~F[f] /\ G = [F EXCEPT ![f] = TRUE]
                      /\ N = [M EXCEPT ![f] = Append(M[f], "FIRED")]
             \/ F[f] /\ G = [F EXCEPT ![f] = FALSE]
                     /\ N = [M EXCEPT ![f] = Append(M[f], "RESOLVED")]
    BY LifecycleStep
  <2> HIDE DEF F, G, M, N
  <2>3. ASSUME NEW f \in Policy, ~F[f], G = [F EXCEPT ![f] = TRUE],
               N = [M EXCEPT ![f] = Append(M[f], "FIRED")]
        PROVE  Alternate(G, N)
    <3>1. ByTurns(TRUE, Append(M[f], "FIRED"))
      <4>1. ByTurns(~TRUE, M[f])
        BY <2>3 DEF Alternate, ByTurns
      <4>2. ByTurns(TRUE, Append(M[f], IF TRUE THEN "FIRED" ELSE "RESOLVED"))
        BY <4>1, TurnKept
      <4> QED BY <4>2
    <3>2. G[f] = TRUE /\ N[f] = Append(M[f], "FIRED")
      BY <2>1, <2>3
    <3>3. \A a \in Policy \ {f} : G[a] = F[a] /\ N[a] = M[a]
      BY <2>1, <2>3
    <3> QED BY <3>1, <3>2, <3>3 DEF Alternate
  <2>4. ASSUME NEW f \in Policy, F[f], G = [F EXCEPT ![f] = FALSE],
               N = [M EXCEPT ![f] = Append(M[f], "RESOLVED")]
        PROVE  Alternate(G, N)
    <3>1. ByTurns(FALSE, Append(M[f], "RESOLVED"))
      <4>1. ByTurns(~FALSE, M[f])
        BY <2>4 DEF Alternate, ByTurns
      <4>2. ByTurns(FALSE, Append(M[f], IF FALSE THEN "FIRED" ELSE "RESOLVED"))
        BY <4>1, TurnKept
      <4> QED BY <4>2
    <3>2. G[f] = FALSE /\ N[f] = Append(M[f], "RESOLVED")
      BY <2>1, <2>4
    <3>3. \A a \in Policy \ {f} : G[a] = F[a] /\ N[a] = M[a]
      BY <2>1, <2>4
    <3> QED BY <3>1, <3>2, <3>3 DEF Alternate
  <2> QED BY <2>2, <2>3, <2>4
<1>3. Turns => NoticesAlternate
  BY DEF Alternate, ByTurns, NoticesAlternate, Lifecycle!NoticesAlternate, FiringOf, NoticesOf, NoticesIn
<1> HIDE DEF Turns
<1> QED BY <1>1, <1>2, <1>3, InvHolds, PTL DEF Spec

--------------------------------------------------------------------------------
(* Nobody waits for a request that waits *)

\* A lock is held inside a transaction on its fingerprint and nowhere else, so the
\* owner a request waits for is at work: pg_advisory_xact_lock cannot deadlock.
THEOREM LocksAreNotChained == Spec => []WaitsForTheOwner
<1>1. ASSUME IInv PROVE WaitsForTheOwner
  <2> SUFFICES ASSUME NEW p \in Request, call[p].pc = "ready", ~LockFree(PolicyOf(p))
               PROVE  \E q \in Request \ {p} : /\ lock[PolicyOf(p)] = q /\ call[q].pc = "locked"
                                              /\ PolicyOf(q) = PolicyOf(p)
    BY DEF WaitsForTheOwner
  <2>1. PolicyOf(p) \in Policy
    BY <1>1, PolicyIs DEF IInv
  <2>2. PICK q \in Request : lock[PolicyOf(p)] = q
    BY <1>1, <2>1 DEF IInv, TypeOK, LockFree
  <2>3. call[q].pc = "locked" /\ PolicyOf(p) = PolicyOf(q)
    BY <1>1, <2>1, <2>2 DEF IInv, CallsOK
  <2> QED BY <2>2, <2>3
<1> QED BY <1>1, InvHolds, PTL

--------------------------------------------------------------------------------
(* How far a request is *)

\* A transaction of its policy, begun or over, brings a request forward.
Progress(c) ==
  CASE c.pc = "ready" -> 2 * c.next - 2
    [] c.pc = "locked" -> 2 * c.next - 1
    [] OTHER -> 2 * Len(Policies)

LEMMA ProgressIs ==
  ASSUME NEW c \in Call, c.next \in DOMAIN Policies
  PROVE  /\ Progress(c) \in 0..(2 * Len(Policies))
         /\ c.pc = "ready" => Progress(c) = 2 * c.next - 2
         /\ c.pc = "locked" => Progress(c) = 2 * c.next - 1
         /\ c.pc \notin {"ready", "locked"} => Progress(c) = 2 * Len(Policies)
         /\ c.pc \in {"ready", "locked"} => Progress(c) < 2 * Len(Policies)
         /\ c.next \in Nat \ {0} /\ c.next <= Len(Policies) /\ Len(Policies) \in Nat
<1>1. c.next \in Nat \ {0} /\ c.next <= Len(Policies) /\ Len(Policies) \in Nat
  BY PoliciesAre
<1>2. /\ c.pc = "ready" => Progress(c) = 2 * c.next - 2
      /\ c.pc = "locked" => Progress(c) = 2 * c.next - 1
      /\ c.pc \notin {"ready", "locked"} => Progress(c) = 2 * Len(Policies)
  BY DEF Progress
<1> QED BY <1>1, <1>2

\* What a step makes of its request's pc and policy.
LEMMA StepMoves ==
  ASSUME TypeOK, NEW p \in Request, Step(p) \/ Die(p)
  PROVE  /\ call[p].pc \in {"ready", "locked"}
         /\ \A q \in Request : q # p => call'[q] = call[q]
         /\ \/ /\ Read(p) /\ call[p].pc = "ready"
               /\ call'[p].pc = "locked" /\ call'[p].next = call[p].next
            \/ call[p].pc = "locked" /\ call'[p].pc = "ready" /\ call'[p].next = call[p].next + 1
            \/ call'[p].pc \notin {"ready", "locked"}
<1> DEFINE c == call[p]
<1>1. CASE Read(p)
  <2>1. c.pc = "ready"
    BY <1>1 DEF Read
  <2>2. PICK found, previous : Moved(p, "locked", c.next, found, previous)
    BY <1>1, MoveOf
  <2>3. call'[p].pc = "locked" /\ call'[p].next = c.next
        /\ \A q \in Request : q # p => call'[q] = call[q]
    BY <2>2, MovedTo
  <2> QED BY <1>1, <2>1, <2>3
<1>2. CASE Refuse(p) \/ Die(p)
  <2>1. c.pc \in {"ready", "locked"}
    BY <1>2 DEF Refuse, Die
  <2>2. PICK pc : pc \in {"refused", "dead"} /\ Moved(p, pc, c.next, c.found, c.previous)
    BY <1>2, MoveOf
  <2>3. call'[p].pc = pc /\ \A q \in Request : q # p => call'[q] = call[q]
    BY <2>2, MovedTo
  <2> QED BY <2>1, <2>2, <2>3
<1>3. CASE Replay(p) \/ Record(p)
  <2>1. c.pc = "locked" /\ \E event : GoOn(p, event)
    BY <1>3 DEF Replay, Record
  <2>2. PICK event : GoOn(p, event)
    BY <2>1
  <2>3. Moved(p, PcAfter(p, event), NextAfter(p, event), c.found, c.previous)
    BY <2>2, MoveOf
  <2>4. call'[p].pc = PcAfter(p, event) /\ call'[p].next = NextAfter(p, event)
        /\ \A q \in Request : q # p => call'[q] = call[q]
    BY <2>3, MovedTo
  <2>5. \/ PcAfter(p, event) = "ready" /\ NextAfter(p, event) = c.next + 1
        \/ PcAfter(p, event) \in {"failed_closed", "done"}
    BY DEF PcAfter, NextAfter
  <2> QED BY <2>1, <2>4, <2>5
<1> QED BY <1>1, <1>2, <1>3 DEF Step

\* No evaluation goes round: each step of a request brings it forward, whatever it
\* replays and whoever shares its policies or dies, no step of others takes it back, and
\* it has two for each policy.  With WaitsForTheOwner, some request can always go on and
\* all of them have only so far to go.
RequestsRunDown ==
  [][\A p \in Request :
       /\ Progress(call[p]) <= Progress(call'[p])
       /\ Progress(call'[p]) \in 0..(2 * Len(Policies))
       /\ Step(p) => Progress(call[p]) < Progress(call'[p])]_vars

THEOREM RequestsEnd == Spec => RequestsRunDown
<1>1. ASSUME IInv, IInv', Next, NEW q \in Request
      PROVE  /\ Progress(call[q]) <= Progress(call'[q])
             /\ Progress(call'[q]) \in 0..(2 * Len(Policies))
             /\ Step(q) => Progress(call[q]) < Progress(call'[q])
  <2> DEFINE c == call[q]
             d == call'[q]
  <2>1. c \in Call /\ d \in Call /\ c.next \in DOMAIN Policies /\ d.next \in DOMAIN Policies
    BY <1>1 DEF IInv, TypeOK, CallsOK
  <2>2. TypeOK
    BY <1>1 DEF IInv
  <2>3. /\ Progress(c) \in 0..(2 * Len(Policies)) /\ Progress(d) \in 0..(2 * Len(Policies))
        /\ c.next \in Nat /\ d.next \in Nat /\ Len(Policies) \in Nat
    BY <2>1, ProgressIs
  <2>4. CASE Step(q) \/ Die(q)
    <3>1. Progress(c) < Progress(d)
      <4>1. CASE c.pc = "ready" /\ d.pc = "locked" /\ d.next = c.next
        <5>1. Progress(c) = 2 * c.next - 2 /\ Progress(d) = 2 * d.next - 1
          BY <2>1, <4>1, ProgressIs
        <5> QED BY <2>3, <4>1, <5>1
      <4>2. CASE c.pc = "locked" /\ d.pc = "ready" /\ d.next = c.next + 1
        <5>1. Progress(c) = 2 * c.next - 1 /\ Progress(d) = 2 * d.next - 2
          BY <2>1, <4>2, ProgressIs
        <5> QED BY <2>3, <4>2, <5>1
      <4>3. CASE c.pc \in {"ready", "locked"} /\ d.pc \notin {"ready", "locked"}
        <5>1. Progress(c) < 2 * Len(Policies) /\ Progress(d) = 2 * Len(Policies)
          BY <2>1, <4>3, ProgressIs
        <5> QED BY <5>1
      <4> QED BY <2>2, <2>4, <4>1, <4>2, <4>3, StepMoves
    <3> QED BY <2>3, <3>1
  <2>5. CASE ~(Step(q) \/ Die(q))
    <3>1. PICK p \in Request : Step(p) \/ Die(p)
      BY <1>1 DEF Next
    <3>2. d = c
      BY <2>2, <2>5, <3>1, StepMoves
    <3> QED BY <2>3, <2>5, <3>2
  <2> QED BY <2>4, <2>5
<1>2. IInv /\ IInv' /\ Next =>
        \A p \in Request :
          /\ Progress(call[p]) <= Progress(call'[p])
          /\ Progress(call'[p]) \in 0..(2 * Len(Policies))
          /\ Step(p) => Progress(call[p]) < Progress(call'[p])
  BY <1>1
<1> QED BY <1>2, InvHolds, PTL DEF Spec, RequestsRunDown

================================================================================
