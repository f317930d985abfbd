------------------------------ MODULE MCShadowRun ------------------------------
(* Shadow requests on a small instance: q2 repeats q1, which may stop or lose   *)
(* its locks; q3 is of another case under a key of its own, and q4 asks for the *)
(* case of q1 under the key of q3.                                              *)
EXTENDS ShadowRun, TLC

CONSTANTS q1, q2, q3, q4, k1, k2, ca, cb, x1, x2, d1, d2, t1, t2

MCKeyOf == q1 :> k1 @@ q2 :> k1 @@ q3 :> k2 @@ q4 :> k2
MCCaseOf == q1 :> ca @@ q2 :> ca @@ q3 :> cb @@ q4 :> ca
MCContentOf == q1 :> x1 @@ q2 :> x1 @@ q3 :> x2 @@ q4 :> x1
MCRank == ca :> 1 @@ k2 :> 2 @@ cb :> 3 @@ k1 :> 4
MCExpected ==
  x1 :> [escalated |-> FALSE, draft |-> d1, tools |-> {t1, t2}] @@
  x2 :> [escalated |-> TRUE, draft |-> None, tools |-> {t1}]

================================================================================
