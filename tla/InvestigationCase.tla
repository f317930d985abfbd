---------------------------- MODULE InvestigationCase ----------------------------
(***************************************************************************)
(* What the control spine promises of one idempotency key, with its        *)
(* requests, retries, tool calls and races left out: one case, at most one *)
(* consultation of the model, on all the evidence, and either an           *)
(* escalation or a recommendation that stays as it is until, in a          *)
(* human-review case, it is decided once.  What a recommendation rests on  *)
(* stays with it; to an escalated case results may still be added.         *)
(***************************************************************************)
CONSTANTS Key, Draft, Mode, EvidenceTool, None

VARIABLES
  case,      \* the case of each key
  consulted, \* the keys whose case has been put to the model
  results    \* results[k]: the tools whose result is on record for the case of k

vars == <<case, consulted, results>>

NoCase == [phase |-> "none", mode |-> "human_review", draft |-> None]

Tools == EvidenceTool \cup {"reasoning"}

Init ==
  /\ case = [k \in Key |-> NoCase]
  /\ consulted = {}
  /\ results = [k \in Key |-> {}]

Open(k) ==
  /\ case[k] = NoCase
  /\ \E mode \in Mode : case' = [case EXCEPT ![k].phase = "open", ![k].mode = mode]
  /\ UNCHANGED <<consulted, results>>

Consult(k) ==
  /\ case[k].phase = "open" /\ k \notin consulted /\ EvidenceTool \subseteq results[k]
  /\ consulted' = consulted \cup {k}
  /\ UNCHANGED <<case, results>>

\* A tool's result goes on record, while the case is open or late, after an escalation.
Record(k, t) ==
  /\ case[k].phase \in {"open", "escalated"} /\ t \in Tools \ results[k]
  /\ t = "reasoning" => k \in consulted
  /\ results' = [results EXCEPT ![k] = @ \cup {t}]
  /\ UNCHANGED <<case, consulted>>

\* Only a case that was put to the model gets a recommendation, on all results.
Recommend(k) ==
  /\ case[k].phase = "open" /\ k \in consulted /\ results[k] = Tools
  /\ \E draft \in Draft :
       case' = [case EXCEPT ![k].phase = "recommended", ![k].draft = draft]
  /\ UNCHANGED <<consulted, results>>

Escalate(k) ==
  /\ case[k].phase = "open"
  /\ case' = [case EXCEPT ![k].phase = "escalated"]
  /\ UNCHANGED <<consulted, results>>

Decide(k) ==
  /\ case[k].phase = "recommended" /\ case[k].mode = "human_review"
  /\ case' = [case EXCEPT ![k].phase = "decided"]
  /\ UNCHANGED <<consulted, results>>

Next ==
  \E k \in Key :
    \/ Open(k) \/ Consult(k) \/ Recommend(k) \/ Escalate(k) \/ Decide(k)
    \/ \E t \in Tools : Record(k, t)

Spec == Init /\ [][Next]_vars

================================================================================
