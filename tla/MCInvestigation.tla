---------------------------- MODULE MCInvestigation ----------------------------
(* The control spine on small instances: c1 and c2 are one request and its     *)
(* duplicate, c3 uses their key for another payload, r1 is of the assigned     *)
(* reviewer, who sends r2 as well, and r3 comes from another reviewer.         *)
EXTENDS Investigation, TLC

CONSTANTS c1, c2, c3, k1, x1, x2, d1, d2, r1, r2, r3

MCKeyOf == [p \in Caller |-> k1]
MCPayloadOf == [p \in Caller |-> IF p = c3 THEN x2 ELSE x1]
MCActorOf == [v \in ReviewCall |-> IF v = r3 THEN "other_reviewer" ELSE "assigned"]

================================================================================
