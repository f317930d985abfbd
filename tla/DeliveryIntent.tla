----------------------------- MODULE DeliveryIntent ----------------------------
(***************************************************************************)
(* What the outbox promises about one notification, without leases,        *)
(* workers, attempts or evidence: an intent stays open until it is either  *)
(* delivered, which takes a receiver that has accepted it, or given up,    *)
(* and only an operator reopens what was given up.                         *)
(***************************************************************************)
CONSTANT Row

VARIABLES
  intent,   \* intent[r] \in {"none", "open", "delivered", "given_up"}
  received  \* the intents the receiver has accepted at least once

Init == intent = [r \in Row |-> "none"] /\ received = {}

\* An evaluation commits with the intent to notify.
Commit(r) ==
  /\ intent[r] = "none"
  /\ intent' = [intent EXCEPT ![r] = "open"]
  /\ UNCHANGED received

\* The receiver accepts a request.  It may be a duplicate, and the request of a
\* slow worker may arrive after another one settled the intent.
Receive(r) ==
  /\ intent[r] # "none"
  /\ received' = received \cup {r}
  /\ UNCHANGED intent

Deliver(r) ==
  /\ intent[r] = "open" /\ r \in received
  /\ intent' = [intent EXCEPT ![r] = "delivered"]
  /\ UNCHANGED received

GiveUp(r) ==
  /\ intent[r] = "open"
  /\ intent' = [intent EXCEPT ![r] = "given_up"]
  /\ UNCHANGED received

Reopen(r) ==
  /\ intent[r] = "given_up"
  /\ intent' = [intent EXCEPT ![r] = "open"]
  /\ UNCHANGED received

Next == \E r \in Row : Commit(r) \/ Receive(r) \/ Deliver(r) \/ GiveUp(r) \/ Reopen(r)

Spec == Init /\ [][Next]_<<intent, received>>

================================================================================
