----------------------------- MODULE AlertLifecycle -----------------------------
(***************************************************************************)
(* What the evaluation of alert policies promises of one alert: it is      *)
(* quiet or firing, and every change from one to the other leaves exactly  *)
(* one notice to deliver, in that order.                                   *)
(***************************************************************************)
EXTENDS Integers, Sequences

CONSTANT Alert

VARIABLES
  firing, \* firing[a]: the alert is firing
  notices \* notices[a]: the notices left so far

vars == <<firing, notices>>

Init == firing = [a \in Alert |-> FALSE] /\ notices = [a \in Alert |-> <<>>]

Fire(a) ==
  /\ ~firing[a]
  /\ firing' = [firing EXCEPT ![a] = TRUE]
  /\ notices' = [notices EXCEPT ![a] = Append(@, "FIRED")]

Resolve(a) ==
  /\ firing[a]
  /\ firing' = [firing EXCEPT ![a] = FALSE]
  /\ notices' = [notices EXCEPT ![a] = Append(@, "RESOLVED")]

Next == \E a \in Alert : Fire(a) \/ Resolve(a)

Spec == Init /\ [][Next]_vars

\* The notices of an alert begin with FIRED and alternate, and the last one tells
\* whether it is firing.
NoticesAlternate ==
  \A a \in Alert :
    /\ \A i \in DOMAIN notices[a] :
         notices[a][i] = IF i % 2 = 1 THEN "FIRED" ELSE "RESOLVED"
    /\ firing[a] <=> Len(notices[a]) % 2 = 1

================================================================================
